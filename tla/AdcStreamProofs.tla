--------------------------- MODULE AdcStreamProofs ---------------------------
(***************************************************************************)
(* Proofs about the acquisition path (AdcStream), for every number of      *)
(* chains and of bytes, every time a byte takes and every ratio of the two *)
(* clocks for which a reading is over before the next frame can be seen:   *)
(* what the reader gives out is the chains' frames in turn, each whole.    *)
(***************************************************************************)
EXTENDS AdcStream, SequenceTheorems, TLAPS

-----------------------------------------------------------------------------
\* The bytes of frame f that come before time and count.
Bytes(f) == IF f = 0 THEN RegByte["RRCR"] + RegByte["RDRCR"] + RegByte["RSICR"]
            ELSE RegByte["RDRDATA"]

-----------------------------------------------------------------------------
\* One chain by itself: ch, and what its next byte is, byte i of frame f.
Pause == {"IDELtoRRCR", "RRCRtoRDRCR", "RDRCRtoRSICR", "RSICRtoRDRDATA", "RDRDATAtoIDEL"}
Early == {"IDEL", "IDELtoRRCR", "RRCR", "RRCRtoRDRCR", "RDRCR", "RDRCRtoRSICR", "RSICR"}

\* The bytes of the frame that came with the transfers before state s.
Before(s) ==
  IF s \in {"RRCRtoRDRCR", "RDRCR"} THEN RegByte["RRCR"]
  ELSE IF s \in {"RDRCRtoRSICR", "RSICR"} THEN RegByte["RRCR"] + RegByte["RDRCR"]
  ELSE 0

\* How many bytes the tail has asked for when its counter is t.
TailBytes(t) == IF t <= 1 THEN 0 ELSE IF t <= 19 THEN (t - 1) \div 3 ELSE t - 14

One(b) == IF b THEN 1 ELSE 0

\* A frame is in the FIFO and announced.
Idle(ch) == ch.state \in Between /\ ~Tailing(ch)

TransferInv(ch) ==
  IF ch.state \in Reading
    THEN /\ ch.sel /\ ch.byteCnt \in 0 .. RegByte[ch.state] + 1
         /\ ch.byteCnt = 0 => ~(ch.sel0 /\ ch.sel1) /\ ~ch.en /\ ch.byteDue = 0
         /\ ch.byteCnt > 0 => ch.sel0 /\ ch.sel1
         /\ ch.byteCnt \in 1 .. RegByte[ch.state] =>
              ch.byteDue \in 0 .. ByteTime /\ (ch.en <=> ch.byteDue = 0)
         /\ ch.byteCnt > RegByte[ch.state] => ~ch.en /\ ch.byteDue = 0
    ELSE ~ch.sel /\ ~ch.en /\ ch.byteCnt = 0 /\ ch.byteDue = 0 /\ (ch.sel0 => ch.sel1)

\* depCnt counts the bytes; frameDep follows a clock later and keeps the
\* count while the next frame has not begun.
DepInv(ch, f) ==
  /\ ch.frameDep \in Nat /\ ch.depCnt \in Nat
  /\ ch.state \in Reading =>
       /\ ch.depCnt = Before(ch.state) + (IF ch.byteCnt = 0 THEN 0 ELSE ch.byteCnt - 1)
       /\ IF ch.state = "RDRDATA" /\ ch.byteCnt = 0 THEN ch.frameDep > 0
          ELSE ch.frameDep <= ch.depCnt
  /\ ch.state \in Early \ Reading => ch.depCnt = Before(ch.state) /\ ch.frameDep <= ch.depCnt
  /\ ch.state \in Between =>
       /\ ch.frameDep > 0
       /\ ch.depCnt = (IF Tailing(ch) THEN Bytes(f) ELSE 0)
       /\ Tailing(ch) => ch.frameDep = Bytes(f)

TailInv(ch) ==
  /\ ch.state \in Early \ {"RSICR"} => ch.tail = 0
  /\ ch.state = "RSICR" => ch.tail \in {0, 1} /\ (ch.sel0 => ch.tail = 0)
  /\ ch.state = "RDRDATA" => ch.tail = 0 \/ (ch.tail = TailEnd(ch) + 1 /\ ~ch.sel0)
  /\ ch.state \in Between => ch.tail \in 0 .. TailEnd(ch) + 1
  /\ ch.flagHp => ch.state \in Between /\ ch.tail = TailEnd(ch) + 1

\* Every byte counted, and every byte of the tail, is written a clock later.
IndexInv(ch, f, i) ==
  /\ i \in Nat /\ ch.wen \in BOOLEAN
  /\ ch.state \in Reading => i + One(ch.wen) = ch.depCnt
  /\ ch.state \in Early \ Reading => i = ch.depCnt /\ ~ch.wen
  /\ ch.state \in Between =>
       IF Tailing(ch) THEN i + One(ch.wen) = Bytes(f) + TailBytes(ch.tail)
       ELSE i = 0 /\ ~ch.wen

FrameInv(ch, f) ==
  /\ f \in 0 .. 2
  /\ ch.state \in Early => f = 0
  /\ ch.state = "RSICRtoRDRDATA" => f = (IF Tailing(ch) THEN 0 ELSE 1)
  /\ ch.state \in {"RDRDATA", "RDRDATAtoIDEL"} => f \in {1, 2}

Local(ch, f, i) ==
  /\ ch.state \in {"IDEL"} \cup Pause \cup Reading
  /\ TransferInv(ch) /\ DepInv(ch, f) /\ TailInv(ch) /\ IndexInv(ch, f, i) /\ FrameInv(ch, f)

-----------------------------------------------------------------------------
\* A chain, its FIFO and the reader r: the reader's turn is frame g.

\* Bytes lo, lo + 1, ... of frame f of chain c, n of them.
Piece(c, f, lo, n) == [k \in 1 .. n |-> <<c, f, lo + k - 1>>]

\* The finish flag on its way from the reader (fin) through the flip-flops
\* b into a chain (f0): it does not fall, or once.
NoFall(f0, b, fin) == (f0 => b[3]) /\ (b[3] => b[2]) /\ (b[2] => b[1]) /\ (b[1] => fin)
OneFall(f0, b, fin) ==
  /\ f0 /\ ~b[3] => (b[2] => b[1]) /\ (b[1] => fin)
  /\ b[3] /\ ~b[2] => (b[1] => fin)

\* How many edges of sys_clk a chain is at least past the first that found
\* finish low, counted up to where the frame's last byte is written.
Age(ch, i, b) ==
  IF ch.flag
    THEN IF ch.finish0 /\ ~b[3] THEN 3 ELSE IF b[3] /\ ~b[2] THEN 2
         ELSE IF b[2] /\ ~b[1] THEN 1 ELSE 0
  ELSE IF Idle(ch) THEN 4
  ELSE IF ch.state = "RDRDATA"
    THEN IF ch.byteCnt = 0 THEN (IF ch.sel0 THEN 6 ELSE 5)
         ELSE IF ch.byteCnt = 1 THEN (IF ch.en THEN 7 ELSE 8 + ByteTime - ch.byteDue)
         ELSE 8 + ByteTime + (IF i = 0 THEN 0 ELSE 1)
  ELSE 9 + ByteTime + ch.tail

\* The frame flag stays up until the finish flag's fall comes.
Held(c, ch, r, b) ==
  Idle(ch) /\ ch.flag /\ r.s0[c] /\ r.s1[c] /\ r.s2[c] /\ OneFall(ch.finish0, b, r.finish)

\* It is down, and the reader's three flip-flops are down soon after: well
\* before it rises again.
Fallen(c, ch, i, r, b, e) ==
  /\ ~ch.flag /\ NoFall(ch.finish0, b, r.finish)
  /\ r.s0[c] => r.s1[c] /\ Age(ch, i, b) = 4 /\ e = 0
  /\ r.s1[c] => r.s2[c] /\ (Age(ch, i, b) = 4 \/ (Age(ch, i, b) = 5 /\ e = 0))
  /\ r.s2[c] => Age(ch, i, b) \in {4, 5} \/ (Age(ch, i, b) = 6 /\ e = 0)

\* The FIFO holds the last bytes of frame g, left of them, all visible, or
\* the first i bytes of frame f.
Queue(c, fi, g, left, f, i) ==
  /\ fi.v1 \in Nat /\ fi.v2 \in Nat
  /\ IF left > 0
       THEN i = 0 /\ fi.v1 = left /\ fi.v2 = left /\ fi.q = Piece(c, g, 4 * Words(g) - left, left)
       ELSE fi.v1 <= i /\ fi.v2 <= fi.v1 /\ fi.q = Piece(c, f, 0, i)

\* Frame g comes in,
Gathers(c, ch, fi, r, b, e, f, i, g) ==
  /\ f = g /\ Queue(c, fi, g, 0, f, i)
  /\ (Held(c, ch, r, b) \/ Fallen(c, ch, i, r, b, e))
  /\ ~r.fin[c]

\* is there, and the reader learns of it,
Ready(c, ch, fi, r, b, f, g) ==
  /\ Idle(ch) /\ ch.flag /\ f = NextFrame(g) /\ ch.frameDep = Bytes(g)
  /\ NoFall(ch.finish0, b, r.finish)
  /\ fi.v1 \in Nat /\ fi.v2 \in Nat /\ fi.v1 <= 4 * Words(g) /\ fi.v2 <= fi.v1
  /\ fi.q = Piece(c, g, 0, 4 * Words(g))
  /\ r.s0[c] => fi.v1 = 4 * Words(g)
  /\ r.s1[c] => r.s0[c] /\ fi.v2 = 4 * Words(g)
  /\ r.s2[c] => r.s1[c]
  /\ r.fin[c] => r.s2[c] /\ r.cnt[c] = 4 * Words(g)
  /\ ~r.finish0 => ~r.s0[c]

\* is read, time edges of rd_clk after finish fell, and the next comes in.
Drains(c, ch, fi, r, b, e, f, i, g, time, left) ==
  /\ f = NextFrame(g) /\ Queue(c, fi, g, left, f, i)
  /\ (Held(c, ch, r, b) \/ Fallen(c, ch, i, r, b, e))
  /\ r.finish => ch.flag /\ NoFall(ch.finish0, b, r.finish)
  /\ Age(ch, i, b) > 0 => time >= RdMin * (Age(ch, i, b) - 1) + e
  /\ left = 0 /\ fi.v1 > 0 => time >= RdMin * (8 + ByteTime) + 1
  /\ left = 0 /\ fi.v2 > 0 => time >= RdMin * (8 + ByteTime) + 2

-----------------------------------------------------------------------------
\* The reader r in its turn g, and k, the words of it that have left.  It
\* waits for all chains,
Awaits(r, g, k) ==
  /\ ~r.start /\ r.hot = 0 /\ ~r.or0 /\ r.finish /\ r.dep = 0
  /\ \/ /\ k = -1 /\ g = 0
        /\ \/ r.addT = M /\ ~r.valid /\ ~r.finish0
           \/ r.addT = M + 1 /\ r.valid /\ r.out = <<"time", M>>
     \/ k = 0 /\ r.addT = M + 1 /\ ~r.valid
  /\ \A c \in Chains : /\ r.fin[c] => r.finish0
                       /\ r.finish0 /\ r.timed[c] => r.fin[c]

\* has noted all of them,
Starts(r, k) ==
  /\ r.start /\ ~r.start0 /\ r.hot = 0 /\ ~r.or0 /\ r.finish /\ r.finish0 /\ r.dep = 0
  /\ r.addT = M + 1 /\ ~r.valid /\ k = 0
  /\ \A c \in Chains : r.fin[c]

\* strobes chain h, whose FIFO is fi, for the l-th clock,
Word(c, f, k) == [i \in 1 .. 4 |-> <<c, f, 4 * k + i - 1>>]
Reads(r, fi, g, k, h, l) ==
  /\ r.start /\ r.start0 /\ r.hot = h /\ (r.or0 <=> ~(h = 1 /\ l = 0))
  /\ \A c \in Chains : r.cnt[c] = 4 * Words(g) /\ ~r.fin[c]
  /\ r.finish <=> h = 1 /\ l < 2
  /\ r.finish => r.finish0
  /\ r.dep = (IF l = 0 THEN 0 ELSE l - 1)
  /\ r.addT = (IF h = 1 /\ l < 2 THEN M + 1 ELSE 0)
  /\ fi.valid <=> l \in 1 .. Words(g)
  /\ fi.valid => fi.dout = Word(h, g, l - 1)
  /\ r.valid <=> l >= 2
  /\ r.valid => r.out = Word(h, g, l - 2)
  /\ k = (h - 1) * Words(g) + (IF l >= 2 THEN l - 2 ELSE 0)

\* has read all chains,
Ended(r, g, k) ==
  /\ r.start /\ r.start0 /\ r.hot = 0 /\ r.or0 /\ ~r.finish /\ r.dep = 0 /\ r.addT = 0
  /\ ~r.valid /\ k = M * Words(g) /\ (\A c \in Chains : ~r.fin[c])

\* and gives out the time stamps.
Stamps(r, g, k, a) ==
  /\ ~r.start /\ r.hot = 0 /\ ~r.or0 /\ ~r.finish /\ r.dep = 0 /\ r.addT = a
  /\ r.valid <=> a >= 2
  /\ r.valid => r.out = <<"time", a - 1>>
  /\ k = M * Words(g) + (IF a >= 2 THEN a - 2 ELSE 0)
  /\ \A c \in Chains : ~r.fin[c]

\* The bytes of chain c that are left in clock l of chain h, of w words each.
Left(h, l, c, w) ==
  IF c < h THEN 0 ELSE IF c > h \/ l = 0 THEN 4 * w ELSE IF l >= w THEN 0 ELSE 4 * (w - l)

-----------------------------------------------------------------------------
LocalInv == \A c \in Chains : Local(chain[c], frame[c], index[c])

\* Gathers, Ready and Drains of the state.
Coming(c) == Gathers(c, chain[c], fifo[c], reader, back, rdEdges, frame[c], index[c], turn)
There(c) == Ready(c, chain[c], fifo[c], reader, back, frame[c], turn)
Going(c, time, left) ==
  Drains(c, chain[c], fifo[c], reader, back, rdEdges, frame[c], index[c], turn, time, left)

PhaseInv ==
  \/ Awaits(reader, turn, at) /\ \A c \in Chains : Coming(c) \/ There(c)
  \/ Starts(reader, at) /\ \A c \in Chains : There(c)
  \/ \E h \in 1 .. M, l \in 0 .. Words(turn) + 1 :
       /\ Reads(reader, fifo[h], turn, at, h, l)
       /\ \A c \in Chains :
            Going(c, (h - 1) * (Words(turn) + 2) + l - 2, Left(h, l, c, Words(turn)))
  \/ Ended(reader, turn, at) /\ \A c \in Chains : Going(c, M * (Words(turn) + 2) - 2, 0)
  \/ \E a \in 0 .. M + 1 :
       /\ Stamps(reader, turn, at, a)
       /\ \A c \in Chains : Going(c, M * (Words(turn) + 2) - 1 + a, 0)

\* The records have their fields.
ReaderFields == {"s0", "s1", "s2", "cnt", "fin", "timed", "start", "start0", "finish", "finish0",
                 "hot", "or0", "words", "dep", "addT", "valid", "out"}
FifoFields == {"q", "v1", "v2", "valid", "dout"}
ShapeInv ==
  /\ rdEdges \in Nat
  /\ DOMAIN reader = ReaderFields
  /\ \A c \in Chains : DOMAIN fifo[c] = FifoFields

IInv == ShapeInv /\ LocalInv /\ PhaseInv

-----------------------------------------------------------------------------
LEMMA Quarter ==
  ASSUME NEW n \in Nat
  PROVE  n % 4 \in 0 .. 3 /\ n \div 4 \in Nat /\ n = 4 * (n \div 4) + (n % 4)
<1>1. n % 4 \in 0 .. 3
  BY Z3
<1>2. n \div 4 \in Nat
  BY Z3
<1>3. PICK q \in Nat : q = n \div 4
  BY <1>2
<1>4. n % 4 = n - q * 4
  BY <1>3, Z3
<1> QED
  BY <1>1, <1>3, <1>4

LEMMA Supplements ==
  ASSUME NEW ch, ch.frameDep \in Nat
  PROVE  /\ Count(ch) = 4 * ((ch.frameDep + 6) \div 4 + 1)
         /\ Count(ch) = ch.frameDep + 6 + Supplement(ch)
         /\ Supplement(ch) \in 1 .. 4 /\ TailEnd(ch) = 19 + Supplement(ch)
<1> DEFINE n == ch.frameDep + 6
<1>1. n \in Nat
  OBVIOUS
<1> HIDE DEF n
<1>2. n % 4 \in 0 .. 3 /\ n \div 4 \in Nat /\ n = 4 * (n \div 4) + (n % 4)
  BY <1>1, Quarter
<1> DEFINE m == n % 4
           d == n \div 4
<1>3. m \in 0 .. 3 /\ d \in Nat /\ n = 4 * d + m
  BY <1>2
<1>4. Count(ch) = n + 4 - m
  <2>1. Count(ch) = ch.frameDep + 6 + 4 - ((ch.frameDep + 6) % 4)
    BY DEF Count
  <2>2. m \in Int /\ m = (ch.frameDep + 6) % 4
    BY <1>2 DEF n, m
  <2> HIDE DEF m
  <2> QED
    BY <2>1, <2>2 DEF n
<1>5. Supplement(ch) = Count(ch) - n /\ TailEnd(ch) = 19 + Supplement(ch)
  BY DEF n, Supplement, TailEnd
<1>6. Count(ch) = 4 * (d + 1) /\ Count(ch) = n + Supplement(ch) /\ Supplement(ch) \in 1 .. 4
  <2> HIDE DEF m, d
  <2> QED
    BY <1>1, <1>3, <1>4, <1>5
<1> QED
  BY <1>5, <1>6 DEF n, d

LEMMA RegByteType ==
  /\ RegByte["RRCR"] \in Nat \ {0} /\ RegByte["RDRCR"] \in Nat \ {0}
  /\ RegByte["RSICR"] \in Nat \ {0} /\ RegByte["RDRDATA"] \in Nat \ {0}
  /\ DOMAIN RegByte = Reading
BY RegByteAssumption DEF Reading

LEMMA BytesType == \A f : Bytes(f) \in Nat \ {0} /\ Words(f) = (Bytes(f) + 6) \div 4 + 1
BY RegByteType DEF Bytes, Words

\* A frame's words are at least two, and hold its bytes, time and count.
LEMMA WordsType ==
  ASSUME NEW f
  PROVE  Words(f) \in Nat \ {0} /\ Bytes(f) + 7 <= 4 * Words(f) /\ 4 * Words(f) <= Bytes(f) + 10
<1> DEFINE n == Bytes(f) + 6
<1>1. n \in Nat /\ Words(f) = n \div 4 + 1 /\ Bytes(f) \in Nat
  BY BytesType
<1> HIDE DEF n
<1>2. n % 4 \in 0 .. 3 /\ n \div 4 \in Nat /\ n = 4 * (n \div 4) + (n % 4)
  BY <1>1, Quarter
<1> DEFINE m == n % 4
           d == n \div 4
<1>3. m \in 0 .. 3 /\ d \in Nat /\ n = 4 * d + m /\ Words(f) = d + 1
  BY <1>1, <1>2
<1> HIDE DEF m, d
<1>4. n = Bytes(f) + 6
  BY DEF n
<1> QED
  BY <1>1, <1>3, <1>4

\* A chain that has counted a frame's bytes.
LEMMA FrameCounted ==
  ASSUME NEW ch, NEW f, ch.frameDep = Bytes(f)
  PROVE  /\ Count(ch) = 4 * Words(f)
         /\ 4 * Words(f) = Bytes(f) + 6 + Supplement(ch)
BY BytesType, Supplements

LEMMA TailRange ==
  ASSUME NEW ch, ch.frameDep \in Nat
  PROVE  TailEnd(ch) \in 20 .. 23
BY Supplements

-----------------------------------------------------------------------------
\* What one edge of sys_clk makes of a chain, field by field.
LEMMA ChainFields ==
  ASSUME NEW ch, NEW drdy, NEW fin, NEW ch2, ch2 = ChainEdge(ch, drdy, fin)
  PROVE  /\ ch2.state = NextState(ch, drdy)
         /\ ch2.sel <=> ch2.state \in Reading
         /\ (ch2.sel0 <=> ch.sel) /\ (ch2.sel1 <=> ch.sel0)
         /\ ch2.byteDue = IF ch.en THEN ByteTime
                          ELSE IF ch.byteDue > 0 THEN ch.byteDue - 1 ELSE 0
         /\ ch2.tail = IF ch.sel THEN 0
                       ELSE IF ch2.state \in InFrame /\ ch.tail <= TailEnd(ch) THEN ch.tail + 1
                       ELSE ch.tail
         /\ ch2.depCnt = IF ch.flagHp THEN 0
                         ELSE IF ch.sel /\ ch.byteDue = 1 THEN (ch.depCnt + 1) % 256
                         ELSE ch.depCnt
         /\ ch2.frameDep = FrameDep(ch, ch2.state)
         /\ ch2.flagHp <=> ch.tail = TailEnd(ch)
         /\ ch2.flag <=> IF ch.flagHp THEN TRUE ELSE ch.flag /\ ~(ch.finish0 /\ ~fin)
         /\ ch2.finish0 <=> fin
<1> DEFINE next == NextState(ch, drdy)
           by == ByteIn(ch)
           cnt == ByteCnt(ch, next, by, RegByte)
           tailing == next \in InFrame /\ ch.tail <= TailEnd(ch)
           fd == FrameDep(ch, next)
           te == TailEnd(ch)
           we == ch.tail \in TailWrites(ch)
<1>1. ch2 = [state    |-> next,
       sel      |-> next \in Reading, sel0 |-> ch.sel, sel1 |-> ch.sel0,
       byteCnt  |-> cnt[1], en |-> cnt[2],
       byteDue  |-> IF ch.en THEN ByteTime ELSE IF ch.byteDue > 0 THEN ch.byteDue - 1 ELSE 0,
       wen      |-> IF ch.sel THEN by
                    ELSE IF next \in InFrame THEN tailing /\ we
                    ELSE ch.wen,
       tail     |-> IF ch.sel THEN 0 ELSE IF tailing THEN ch.tail + 1 ELSE ch.tail,
       depCnt   |-> IF ch.flagHp THEN 0
                    ELSE IF ch.sel /\ by THEN (ch.depCnt + 1) % 256 ELSE ch.depCnt,
       frameDep |-> fd,
       flagHp   |-> ch.tail = te,
       flag     |-> IF ch.flagHp THEN TRUE ELSE ch.flag /\ ~(ch.finish0 /\ ~fin),
       finish0 |-> fin]
  BY DEF ChainEdge, ChainStep, Flag
<1>2. tailing <=> next \in InFrame /\ ch.tail <= te
  OBVIOUS
<1> HIDE DEF next, cnt, fd, by, we, te, tailing
<1>3. ch2.state = next
  BY <1>1
<1>4. fd = FrameDep(ch, ch2.state) /\ ch2.state = NextState(ch, drdy)
  BY <1>3, Zenon DEF fd, next
<1>5. te = TailEnd(ch)
  BY DEF te
<1>6. by <=> ch.byteDue = 1
  BY DEF by, ByteIn
<1>7. /\ ch2.sel <=> ch2.state \in Reading
      /\ (ch2.sel0 <=> ch.sel) /\ (ch2.sel1 <=> ch.sel0)
      /\ ch2.byteDue = IF ch.en THEN ByteTime
                       ELSE IF ch.byteDue > 0 THEN ch.byteDue - 1 ELSE 0
  <2>1. ch2.sel = (next \in Reading) /\ ch2.sel0 = ch.sel /\ ch2.sel1 = ch.sel0
    BY <1>1
  <2>2. ch2.byteDue = IF ch.en THEN ByteTime
                      ELSE IF ch.byteDue > 0 THEN ch.byteDue - 1 ELSE 0
    BY <1>1
  <2> QED
    BY <1>3, <2>1, <2>2, Zenon
<1>8. ch2.tail = IF ch.sel THEN 0
                 ELSE IF ch2.state \in InFrame /\ ch.tail <= TailEnd(ch) THEN ch.tail + 1
                 ELSE ch.tail
  BY <1>1, <1>2, <1>5
<1>9. ch2.depCnt = IF ch.flagHp THEN 0
                   ELSE IF ch.sel /\ ch.byteDue = 1 THEN (ch.depCnt + 1) % 256
                   ELSE ch.depCnt
  <2> DEFINE x == (ch.depCnt + 1) % 256
  <2>1. ch2.depCnt = IF ch.flagHp THEN 0 ELSE IF ch.sel /\ by THEN x ELSE ch.depCnt
    BY <1>1
  <2> HIDE DEF x
  <2>2. ch2.depCnt = IF ch.flagHp THEN 0 ELSE IF ch.sel /\ ch.byteDue = 1 THEN x ELSE ch.depCnt
    BY <1>6, <2>1
  <2> QED
    BY <2>2 DEF x
<1>10. /\ ch2.flagHp <=> ch.tail = TailEnd(ch)
       /\ ch2.flag <=> IF ch.flagHp THEN TRUE ELSE ch.flag /\ ~(ch.finish0 /\ ~fin)
       /\ ch2.finish0 <=> fin
  <2>1. ch2.flagHp = (ch.tail = te) /\ ch2.finish0 = fin
    BY <1>1
  <2>2. ch2.flag = IF ch.flagHp THEN TRUE ELSE ch.flag /\ ~(ch.finish0 /\ ~fin)
    BY <1>1
  <2> QED
    BY <1>5, <2>1, <2>2, Zenon
<1>11. ch2.frameDep = FrameDep(ch, ch2.state)
  BY <1>1, <1>4
<1> QED
  BY <1>4, <1>7, <1>8, <1>9, <1>10, <1>11

LEMMA ChainCounts ==
  ASSUME NEW ch, NEW drdy, NEW fin, NEW ch2, ch2 = ChainEdge(ch, drdy, fin)
  PROVE  /\ ch2.state \notin Reading => ch2.byteCnt = 0 /\ ~ch2.en
         /\ ch2.state \in Reading =>
              IF (ch.sel0 /\ ~ch.sel1) \/ (ch.byteDue = 1 /\ ch.byteCnt <= RegByte[ch2.state])
                THEN ch2.byteCnt = ch.byteCnt + 1 /\ (ch2.en <=> ch.byteCnt # RegByte[ch2.state])
                ELSE ch2.byteCnt = ch.byteCnt /\ ~ch2.en
         /\ ch2.wen <=> IF ch.sel THEN ch.byteDue = 1
                        ELSE IF ch2.state \in InFrame
                          THEN ch.tail <= TailEnd(ch) /\ ch.tail \in TailWrites(ch)
                        ELSE ch.wen
<1> DEFINE next == NextState(ch, drdy)
           by == ByteIn(ch)
           cnt == ByteCnt(ch, next, by, RegByte)
           we == ch.tail \in TailWrites(ch)
<1>1. ch2.state = next /\ ch2.byteCnt = cnt[1] /\ ch2.en = cnt[2]
  BY DEF ChainEdge, ChainStep
<1>2. ch2.wen = IF ch.sel THEN by
                ELSE IF next \in InFrame THEN (next \in InFrame /\ ch.tail <= TailEnd(ch)) /\ we
                ELSE ch.wen
  BY DEF ChainEdge, ChainStep
<1>3. by <=> ch.byteDue = 1
  BY DEF ByteIn
<1>4. ch2.wen <=> IF ch.sel THEN ch.byteDue = 1
                  ELSE IF ch2.state \in InFrame
                    THEN ch.tail <= TailEnd(ch) /\ ch.tail \in TailWrites(ch)
                  ELSE ch.wen
  <2>1. we <=> ch.tail \in TailWrites(ch)
    OBVIOUS
  <2> HIDE DEF next, by, we
  <2> QED
    BY <1>1, <1>2, <1>3, <2>1
<1>5. ch2.state \notin Reading => ch2.byteCnt = 0 /\ ~ch2.en
  <2>1. next \notin Reading => cnt = <<0, FALSE>>
    BY RegByteType DEF ByteCnt
  <2> QED
    <3>1. <<0, FALSE>>[1] = 0 /\ <<0, FALSE>>[2] = FALSE
      OBVIOUS
    <3> HIDE DEF next, cnt
    <3> QED
      BY <1>1, <2>1, <3>1
<1>6. ASSUME ch2.state \in Reading
      PROVE  IF (ch.sel0 /\ ~ch.sel1) \/ (ch.byteDue = 1 /\ ch.byteCnt <= RegByte[ch2.state])
               THEN ch2.byteCnt = ch.byteCnt + 1 /\ (ch2.en <=> ch.byteCnt # RegByte[ch2.state])
               ELSE ch2.byteCnt = ch.byteCnt /\ ~ch2.en
  <2>1. next \in DOMAIN RegByte
    BY <1>1, <1>6, RegByteType
  <2> DEFINE reg == RegByte[next]
             go == (ch.sel0 /\ ~ch.sel1) \/ (ch.byteDue = 1 /\ ch.byteCnt <= reg)
  <2>2. cnt = IF go THEN <<ch.byteCnt + 1, ch.byteCnt # reg>> ELSE <<ch.byteCnt, FALSE>>
    BY <2>1 DEF ByteCnt, Selected, ByteIn
  <2>3. reg = RegByte[ch2.state]
    BY <1>1
  <2> HIDE DEF cnt, reg, next
  <2> QED
    BY <1>1, <2>2, <2>3
<1> QED
  BY <1>4, <1>5, <1>6

\* Where a chain goes: it waits for DRDY, begins a transfer, goes on with it
\* or leaves it.
Begins(s, s2) ==
  \/ s = "IDELtoRRCR" /\ s2 = "RRCR"
  \/ s = "RRCRtoRDRCR" /\ s2 = "RDRCR"
  \/ s = "RDRCRtoRSICR" /\ s2 = "RSICR"
  \/ s \in Between /\ s2 = "RDRDATA"
Leaves(s, s2) ==
  \/ s = "RRCR" /\ s2 = "RRCRtoRDRCR"
  \/ s = "RDRCR" /\ s2 = "RDRCRtoRSICR"
  \/ s = "RSICR" /\ s2 = "RSICRtoRDRDATA"
  \/ s = "RDRDATA" /\ s2 = "RDRDATAtoIDEL"

LEMMA NextStates ==
  ASSUME NEW ch, NEW drdy, NEW s2, s2 = NextState(ch, drdy),
         ch.state \in {"IDEL"} \cup Pause \cup Reading
  PROVE  \/ ch.state = "IDEL" /\ s2 = "IDELtoRRCR"
         \/ ch.state \in Pause /\ s2 = ch.state
         \/ ch.state \in Pause /\ drdy /\ Begins(ch.state, s2) /\ (ch.state \in Between => ~ch.flag)
         \/ ch.state \in Reading /\ s2 = ch.state /\ ch.byteCnt <= RegByte[ch.state]
         \/ ch.state \in Reading /\ Leaves(ch.state, s2) /\ ~(ch.byteCnt <= RegByte[ch.state])
<1>1. CASE ch.state = "IDEL"
  BY <1>1 DEF NextState
<1>2. CASE ch.state \in Reading
  <2>1. ch.state # "IDEL"
    BY <1>2 DEF Reading
  <2>2. s2 = IF ch.byteCnt <= RegByte[ch.state] THEN ch.state ELSE After[ch.state]
    BY <1>2, <2>1 DEF NextState
  <2>3. Leaves(ch.state, After[ch.state])
    BY <1>2 DEF Reading, After, Leaves
  <2> QED
    BY <1>2, <2>2, <2>3
<1>3. CASE ch.state \in Pause
  <2>1. ch.state # "IDEL" /\ ch.state \notin Reading
    BY <1>3 DEF Reading, Pause
  <2>2. s2 = IF drdy /\ (ch.state \in Between => ~ch.flag) THEN After[ch.state] ELSE ch.state
    BY <2>1 DEF NextState
  <2>3. Begins(ch.state, After[ch.state])
    BY <1>3 DEF Pause, After, Begins, Between
  <2> QED
    BY <1>3, <2>2, <2>3
<1> QED
  BY <1>1, <1>2, <1>3

\* A chain, its next byte's place, and what an edge makes of them.
Edge(ch, f, i, drdy, fin, ch2, f2, i2) ==
  /\ ch2 = ChainEdge(ch, drdy, fin)
  /\ drdy => ch.state \notin Reading \cup {"IDEL"} /\ ~Tailing(ch)
  /\ i2 = IF ch.flagHp THEN 0 ELSE IF ch.wen THEN i + 1 ELSE i
  /\ f2 = IF ch.flagHp THEN NextFrame(f) ELSE f

LEMMA TransferKept ==
  ASSUME NEW ch, NEW drdy, NEW fin, NEW ch2, ch2 = ChainEdge(ch, drdy, fin),
         ch.state \in {"IDEL"} \cup Pause \cup Reading, TransferInv(ch)
  PROVE  ch2.state \in {"IDEL"} \cup Pause \cup Reading /\ TransferInv(ch2)
<1> DEFINE s == ch.state
           s2 == ch2.state
<1>1. s2 = NextState(ch, drdy)
  BY ChainFields
<1>2. ByteTime \in Nat \ {0} /\ \A s3 \in Reading : RegByte[s3] \in Nat \ {0}
  BY ByteTimeAssumption, RegByteAssumption
<1>3. /\ ch2.sel <=> s2 \in Reading
      /\ (ch2.sel0 <=> ch.sel) /\ (ch2.sel1 <=> ch.sel0)
      /\ ch2.byteDue = IF ch.en THEN ByteTime
                       ELSE IF ch.byteDue > 0 THEN ch.byteDue - 1 ELSE 0
  BY ChainFields
<1>4. /\ s2 \notin Reading => ch2.byteCnt = 0 /\ ~ch2.en
      /\ s2 \in Reading =>
           IF (ch.sel0 /\ ~ch.sel1) \/ (ch.byteDue = 1 /\ ch.byteCnt <= RegByte[s2])
             THEN ch2.byteCnt = ch.byteCnt + 1 /\ (ch2.en <=> ch.byteCnt # RegByte[s2])
             ELSE ch2.byteCnt = ch.byteCnt /\ ~ch2.en
  BY ChainCounts, ZenonT(60)
<1>5. CASE s \notin Reading
  <2>1. ~ch.sel /\ ~ch.en /\ ch.byteCnt = 0 /\ ch.byteDue = 0 /\ (ch.sel0 => ch.sel1)
    BY <1>5 DEF TransferInv
  <2>2. ch2.byteDue = 0 /\ ch2.byteCnt = 0 /\ ~ch2.en /\ ~ch2.sel0
    BY <1>3, <1>4, <2>1
  <2>3. s2 \in {"IDEL"} \cup Pause \cup Reading
    BY <1>1, <1>5, NextStates DEF Begins, Leaves, Pause, Reading
  <2> QED
    BY <1>2, <1>3, <2>2, <2>3 DEF TransferInv
<1>6. CASE s \in Reading /\ s2 = s
  <2> DEFINE n == RegByte[s]
  <2>1. ch.byteCnt <= n
    BY <1>1, <1>6, NextStates DEF Begins, Leaves, Pause, Reading
  <2>2. n \in Nat \ {0} /\ n = RegByte[s2]
    BY <1>2, <1>6
  <2>3. /\ ch.sel /\ ch.byteCnt \in 0 .. n + 1
        /\ ch.byteCnt = 0 => ~(ch.sel0 /\ ch.sel1) /\ ~ch.en /\ ch.byteDue = 0
        /\ ch.byteCnt > 0 => ch.sel0 /\ ch.sel1
        /\ ch.byteCnt \in 1 .. n => ch.byteDue \in 0 .. ByteTime /\ (ch.en <=> ch.byteDue = 0)
        /\ ch.byteCnt > n => ~ch.en /\ ch.byteDue = 0
    BY <1>6 DEF TransferInv
  <2>4. IF (ch.sel0 /\ ~ch.sel1) \/ (ch.byteDue = 1 /\ ch.byteCnt <= n)
          THEN ch2.byteCnt = ch.byteCnt + 1 /\ (ch2.en <=> ch.byteCnt # n)
          ELSE ch2.byteCnt = ch.byteCnt /\ ~ch2.en
    BY <1>4, <1>6, <2>2
  <2> HIDE DEF n
  <2>5. /\ ch2.sel /\ ch2.byteCnt \in 0 .. n + 1
        /\ ch2.byteCnt = 0 => ~(ch2.sel0 /\ ch2.sel1) /\ ~ch2.en /\ ch2.byteDue = 0
        /\ ch2.byteCnt > 0 => ch2.sel0 /\ ch2.sel1
        /\ ch2.byteCnt \in 1 .. n => ch2.byteDue \in 0 .. ByteTime /\ (ch2.en <=> ch2.byteDue = 0)
        /\ ch2.byteCnt > n => ~ch2.en /\ ch2.byteDue = 0
    BY <1>2, <1>3, <1>6, <2>1, <2>2, <2>3, <2>4
  <2> QED
    BY <1>6, <2>2, <2>5 DEF TransferInv
<1>7. CASE s \in Reading /\ s2 # s
  <2>1. s2 \in Pause /\ s2 \notin Reading /\ ~(ch.byteCnt <= RegByte[s])
    BY <1>1, <1>7, NextStates DEF Begins, Leaves, Pause, Reading
  <2>2. ch.byteCnt > RegByte[s] /\ ch.byteCnt > 0
    BY <1>2, <1>7, <2>1 DEF TransferInv
  <2>3. ~ch.en /\ ch.byteDue = 0 /\ ch.sel0 /\ ch.sel1
    BY <1>7, <2>2 DEF TransferInv
  <2> QED
    BY <1>3, <1>4, <2>1, <2>3 DEF TransferInv
<1> QED
  BY <1>5, <1>6, <1>7

\* A frame in the FIFO: its length is kept while its tail is written and
\* until the next one begins.
LEMMA BetweenMoves ==
  ASSUME NEW ch, NEW f, NEW drdy, NEW fin, NEW ch2, ch2 = ChainEdge(ch, drdy, fin),
         ch.state \in Between, TransferInv(ch), DepInv(ch, f), TailInv(ch),
         drdy => ~Tailing(ch)
  PROVE  /\ ch2.frameDep = ch.frameDep /\ TailEnd(ch2) = TailEnd(ch) /\ TailEnd(ch) \in 20 .. 23
         /\ ch2.state = ch.state \/ (ch2.state = "RDRDATA" /\ ~Tailing(ch) /\ ~ch.flag)
         /\ ch.tail \in 0 .. TailEnd(ch) + 1
         /\ ch2.tail = IF ch.tail <= TailEnd(ch) THEN ch.tail + 1 ELSE ch.tail
         /\ ch.flagHp => ch.tail = TailEnd(ch) + 1
         /\ ch2.flagHp <=> ch.tail = TailEnd(ch)
         /\ Tailing(ch) <=> ch.tail <= TailEnd(ch) \/ ch.flagHp
         /\ ch2.state = ch.state => (Tailing(ch2) <=> Tailing(ch) /\ ~ch.flagHp)
         /\ ch2.depCnt = IF ch.flagHp THEN 0 ELSE ch.depCnt
<1>1. /\ ch.state \in Pause /\ ch.state \notin Reading /\ ch.state # "IDEL" /\ ch.state \in InFrame
      /\ "RDRDATA" \in InFrame
  BY DEF Between, Pause, Reading, InFrame
<1>2. ~ch.sel /\ (ch.sel0 => ch.sel1) /\ ch.frameDep \in Nat /\ ch.frameDep > 0
  BY <1>1 DEF TransferInv, DepInv
<1>3. ch2.state = ch.state \/ (ch2.state = "RDRDATA" /\ drdy /\ ~ch.flag)
  <2>1. ch2.state = NextState(ch, drdy)
    BY ChainFields
  <2> QED
    BY <1>1, <2>1, NextStates DEF Begins, Between, Reading
<1>4. ch.depCnt = (IF Tailing(ch) THEN Bytes(f) ELSE 0) /\ (Tailing(ch) => ch.frameDep = Bytes(f))
  BY DEF DepInv
<1>5. ch2.frameDep = ch.frameDep
  <2>1. ch2.frameDep = FrameDep(ch, ch2.state)
    BY ChainFields
  <2>2. ~Selected(ch)
    BY <1>2 DEF Selected
  <2>3. ch2.frameDep = IF ch.frameDep <= ch.depCnt THEN ch.depCnt ELSE ch.frameDep
    BY <2>1, <2>2 DEF FrameDep
  <2> QED
    BY <1>2, <1>4, <2>3
<1>6. TailEnd(ch2) = TailEnd(ch) /\ TailEnd(ch) \in 20 .. 23
  <2>1. TailEnd(ch2) = TailEnd(ch)
    BY <1>5 DEF TailEnd, Supplement, Count
  <2> QED
    BY <1>2, <2>1, TailRange
<1> DEFINE E == TailEnd(ch)
<1>7. ch.tail \in 0 .. E + 1 /\ (ch.flagHp => ch.tail = E + 1)
  BY DEF TailInv
<1>8. /\ ch2.tail = IF ch.tail <= E THEN ch.tail + 1 ELSE ch.tail
      /\ ch2.flagHp <=> ch.tail = E
  <2>1. ch2.state \in InFrame
    BY <1>1, <1>3
  <2>2. ch2.tail = IF ch.sel THEN 0
                   ELSE IF ch2.state \in InFrame /\ ch.tail <= TailEnd(ch) THEN ch.tail + 1
                   ELSE ch.tail
    BY ChainFields
  <2>3. ch2.flagHp <=> ch.tail = E
    BY ChainFields
  <2> QED
    BY <1>2, <2>1, <2>2, <2>3
<1>9. Tailing(ch) <=> ch.tail <= E \/ ch.flagHp
  BY DEF Tailing
<1>10. ch2.state = ch.state => (Tailing(ch2) <=> ch2.tail <= E \/ ch2.flagHp)
  BY <1>6 DEF Tailing
<1>11. ch2.depCnt = IF ch.flagHp THEN 0 ELSE ch.depCnt
  <2> DEFINE x == (ch.depCnt + 1) % 256
  <2>1. ch2.depCnt = IF ch.flagHp THEN 0 ELSE IF ch.sel /\ ch.byteDue = 1 THEN x ELSE ch.depCnt
    BY ChainFields
  <2> HIDE DEF x
  <2> QED
    BY <1>2, <2>1
<1> HIDE DEF E
<1>12. E \in 20 .. 23 /\ E = TailEnd(ch)
  BY <1>6 DEF E
<1>13. ch2.state = ch.state => (Tailing(ch2) <=> Tailing(ch) /\ ~ch.flagHp)
  BY <1>7, <1>8, <1>9, <1>10, <1>12
<1> QED
  BY <1>3, <1>5, <1>6, <1>7, <1>8, <1>9, <1>11, <1>12, <1>13

LEMMA TailKept ==
  ASSUME NEW ch, NEW f, NEW drdy, NEW fin, NEW ch2, ch2 = ChainEdge(ch, drdy, fin),
         ch.state \in {"IDEL"} \cup Pause \cup Reading,
         TransferInv(ch), DepInv(ch, f), TailInv(ch), drdy => ~Tailing(ch)
  PROVE  TailInv(ch2) /\ (ch.state \in Reading => ch2.tail = 0)
<1> DEFINE s == ch.state
           s2 == ch2.state
           E == TailEnd(ch)
<1>1. /\ s2 = NextState(ch, drdy)
      /\ ch2.tail = IF ch.sel THEN 0
                    ELSE IF s2 \in InFrame /\ ch.tail <= E THEN ch.tail + 1
                    ELSE ch.tail
      /\ ch2.flagHp <=> ch.tail = E
      /\ ch2.sel0 <=> ch.sel
  BY ChainFields
<1>2. E \in 20 .. 23
  BY TailRange DEF DepInv
<1>3. s \in Reading <=> ch.sel
  BY DEF TransferInv
<1>4. CASE s \in Early \ {"RSICR"}
  <2>1. ch.tail = 0
    BY <1>4 DEF TailInv
  <2>2. s2 \in Early /\ (s2 = "RSICR" => ~ch.sel)
    BY <1>1, <1>3, <1>4, NextStates DEF Begins, Leaves, Early, Reading, Between, Pause
  <2>3. "RSICR" \notin Early \ {"RSICR"} /\ (Early \ {"RSICR"}) \cap InFrame = {} /\ "RSICR" \in InFrame
        /\ "RDRDATA" \notin Early /\ Between \cap Early = {}
    BY DEF Early, InFrame, Between
  <2>4. ~ch2.flagHp /\ (s2 # "RSICR" => ch2.tail = 0) /\ (s2 = "RSICR" => ch2.tail = 1 /\ ~ch2.sel0)
    <3> HIDE DEF E
    <3> QED
      BY <1>1, <1>2, <2>1, <2>2, <2>3
  <2>5. s2 # "RDRDATA" /\ s2 \notin Between
    BY <2>2, <2>3
  <2>6. ch.sel => ch2.tail = 0
    BY <1>1
  <2> QED
    BY <1>3, <2>2, <2>4, <2>5, <2>6 DEF TailInv
<1>5. CASE s \in {"RSICR", "RDRDATA"}
  <2>1. ch.sel /\ ch2.tail = 0
    BY <1>1, <1>3, <1>5 DEF Reading
  <2>2. ch.tail \in {0, 1} \/ ch.tail = E + 1
    BY <1>5 DEF TailInv
  <2>3. ~ch2.flagHp
    <3> HIDE DEF E
    <3> QED
      BY <1>1, <1>2, <2>2
  <2>4. ch2.frameDep \in Nat
    BY ChainFields DEF FrameDep, DepInv
  <2>5. TailEnd(ch2) \in 20 .. 23
    BY <2>4, TailRange
  <2> QED
    BY <2>1, <2>3, <2>5 DEF TailInv
<1>6. CASE s \in Between
  <2>1. /\ TailEnd(ch2) = E
        /\ s2 = s \/ (s2 = "RDRDATA" /\ ~Tailing(ch))
        /\ ch.tail \in 0 .. E + 1
        /\ ch2.tail = IF ch.tail <= E THEN ch.tail + 1 ELSE ch.tail
        /\ ch2.flagHp <=> ch.tail = E
        /\ Tailing(ch) <=> ch.tail <= E \/ ch.flagHp
    BY <1>6, BetweenMoves
  <2>2. ~ch2.sel0
    BY <1>1, <1>3, <1>6 DEF Between, Reading
  <2>3. "RDRDATA" \notin Between /\ "RDRDATA" \notin Early /\ Between \cap Early = {} /\ "RSICR" \notin Between
    BY DEF Between, Early
  <2>4. s \notin Reading
    BY <1>6 DEF Between, Reading
  <2>5. CASE s2 = s
    <3>1. ch2.tail \in 0 .. TailEnd(ch2) + 1 /\ (ch2.flagHp => ch2.tail = TailEnd(ch2) + 1)
      <4> HIDE DEF E
      <4> QED
        BY <1>2, <2>1
    <3> QED
      BY <1>6, <2>3, <2>4, <2>5, <3>1 DEF TailInv
  <2>6. CASE s2 = "RDRDATA" /\ ~Tailing(ch)
    <3>1. ch2.tail = TailEnd(ch2) + 1 /\ ~ch2.flagHp
      <4> HIDE DEF E
      <4> QED
        BY <1>2, <2>1, <2>6
    <3> QED
      BY <2>2, <2>3, <2>4, <2>6, <3>1 DEF TailInv
  <2> QED
    BY <2>1, <2>5, <2>6
<1>7. s \in Early \/ s = "RDRDATA" \/ s \in Between
  BY DEF Early, Between, Pause, Reading
<1> QED
  BY <1>4, <1>5, <1>6, <1>7

LEMMA SmallCount == \A n \in 0 .. 254 : (n + 1) % 256 = n + 1
<1> TAKE n \in 0 .. 254
<1> QED
  BY Z3

\* The bytes a frame gets from the chain's transfers fit into depCnt.
LEMMA BytesFit ==
  ASSUME Unhurried, NEW f
  PROVE  Bytes(f) <= 248 /\ 4 * Words(f) <= 255 /\ 4 * Words(f) <= Depth
<1> DEFINE g == IF f = 0 THEN 0 ELSE 1
<1>1. Bytes(f) = Bytes(g) /\ Words(f) = Words(g) /\ g \in {0, 1}
  BY DEF Bytes, Words
<1>2. 4 * Words(g) <= 255 /\ 4 * Words(g) <= Depth
  BY <1>1 DEF Unhurried
<1>3. Bytes(g) + 7 <= 4 * Words(g)
  BY WordsType
<1>4. Bytes(g) \in Nat /\ Words(g) \in Nat
  BY BytesType, WordsType
<1> HIDE DEF g
<1> QED
  BY <1>1, <1>2, <1>3, <1>4

LEMMA BeforeFits ==
  ASSUME Unhurried, NEW s \in Reading
  PROVE  Before(s) \in Nat /\ RegByte[s] \in Nat \ {0} /\ Before(s) + RegByte[s] <= 248
<1>1. RegByte["RRCR"] + RegByte["RDRCR"] + RegByte["RSICR"] <= 248 /\ RegByte["RDRDATA"] <= 248
  <2>1. Bytes(0) <= 248 /\ Bytes(1) <= 248
    BY BytesFit
  <2> QED
    BY <2>1 DEF Bytes
<1> QED
  BY <1>1, RegByteType DEF Reading, Before

\* What a transfer's edge does to the counters.
LEMMA TransferCounts ==
  ASSUME Unhurried, NEW ch, NEW f, NEW drdy, NEW fin, NEW ch2, ch2 = ChainEdge(ch, drdy, fin),
         ch.state \in Reading, TransferInv(ch), DepInv(ch, f), TailInv(ch)
  PROVE  /\ \/ ch2.state = ch.state /\ ch.byteCnt <= RegByte[ch.state]
            \/ Leaves(ch.state, ch2.state) /\ ch.byteCnt = RegByte[ch.state] + 1
         /\ RegByte[ch.state] \in Nat \ {0}
         /\ ch.byteCnt \in 0 .. RegByte[ch.state] + 1
         /\ ch.byteDue = 1 => ch.byteCnt \in 1 .. RegByte[ch.state]
         /\ ch2.depCnt = IF ch.byteDue = 1 THEN ch.depCnt + 1 ELSE ch.depCnt
         /\ ch2.state = ch.state =>
              ch2.byteCnt = IF ch.byteDue = 1 \/ Selected(ch) THEN ch.byteCnt + 1 ELSE ch.byteCnt
         /\ Selected(ch) => ch.byteCnt = 0
         /\ ~ch.flagHp
         /\ ch2.wen <=> ch.byteDue = 1
<1> DEFINE n == RegByte[ch.state]
           bf == Before(ch.state)
<1>1. bf \in Nat /\ n \in Nat \ {0} /\ bf + n <= 248
  BY BeforeFits
<1>2. /\ ch.sel /\ ch.byteCnt \in 0 .. n + 1
      /\ ch.byteCnt = 0 => ~ch.en /\ ch.byteDue = 0
      /\ ch.byteCnt > 0 => ch.sel0 /\ ch.sel1
      /\ ch.byteCnt > n => ch.byteDue = 0
  BY DEF TransferInv
<1>3. ch.depCnt = bf + (IF ch.byteCnt = 0 THEN 0 ELSE ch.byteCnt - 1)
  BY DEF DepInv
<1>4. ~ch.flagHp
  BY DEF TailInv, Between, Reading
<1>5. \/ ch2.state = ch.state /\ ch.byteCnt <= n
      \/ Leaves(ch.state, ch2.state) /\ ~(ch.byteCnt <= n)
  <2>1. ch.state \notin Pause /\ ch.state # "IDEL" /\ ch2.state = NextState(ch, drdy)
    BY ChainFields DEF Pause, Reading
  <2> QED
    BY <2>1, NextStates
<1>6. Selected(ch) => ch.byteCnt = 0
  <2> HIDE DEF n
  <2> QED
    BY <1>1, <1>2 DEF Selected
<1>7. ch.byteDue = 1 => ch.byteCnt \in 1 .. n
  <2> HIDE DEF n
  <2> QED
    BY <1>1, <1>2
<1>8. ch2.depCnt = IF ch.byteDue = 1 THEN ch.depCnt + 1 ELSE ch.depCnt
  <2> DEFINE x == (ch.depCnt + 1) % 256
  <2>1. ch2.depCnt = IF ch.flagHp THEN 0 ELSE IF ch.sel /\ ch.byteDue = 1 THEN x ELSE ch.depCnt
    BY ChainFields
  <2>2. ch.byteDue = 1 => ch.depCnt \in 0 .. 254
    <3> DEFINE k == ch.byteCnt
    <3>1. ch.byteDue = 1 => k \in 1 .. n
      BY <1>7
    <3>2. ch.depCnt = bf + (IF k = 0 THEN 0 ELSE k - 1)
      BY <1>3
    <3> HIDE DEF n, bf, k, x
    <3>3. ch.byteDue = 1 => k \in Int /\ 1 <= k /\ k <= n /\ ch.depCnt = bf + (k - 1)
      BY <1>1, <3>1, <3>2
    <3>4. ch.byteDue = 1 => ch.depCnt \in Int /\ ch.depCnt >= 0 /\ ch.depCnt <= 247
      BY <1>1, <3>3
    <3> QED
      BY <3>4
  <2>3. ch.byteDue = 1 => x = ch.depCnt + 1
    BY <2>2, SmallCount
  <2> HIDE DEF x
  <2> QED
    BY <1>2, <1>4, <2>1, <2>3
<1>9. ch2.wen <=> ch.byteDue = 1
  BY <1>2, ChainCounts
<1>10. ASSUME ch2.state = ch.state
       PROVE ch2.byteCnt = IF ch.byteDue = 1 \/ Selected(ch) THEN ch.byteCnt + 1 ELSE ch.byteCnt
  <2>1. IF (ch.sel0 /\ ~ch.sel1) \/ (ch.byteDue = 1 /\ ch.byteCnt <= RegByte[ch2.state])
          THEN ch2.byteCnt = ch.byteCnt + 1 ELSE ch2.byteCnt = ch.byteCnt
    BY <1>10, ChainCounts
  <2>2. n = RegByte[ch2.state]
    BY <1>10
  <2> HIDE DEF n
  <2>3. ch.byteDue = 1 => ch.byteCnt <= n
    BY <1>1, <1>7
  <2> QED
    BY <2>1, <2>2, <2>3 DEF Selected
<1>11. ch.byteCnt = n + 1 \/ ch.byteCnt <= n
  <2> HIDE DEF n
  <2> QED
    BY <1>1, <1>2
<1> QED
  BY <1>1, <1>2, <1>4, <1>5, <1>6, <1>7, <1>8, <1>9, <1>10, <1>11

\* Sets of states that do not meet.
LEMMA StateSets ==
  /\ Early \cap Between = {} /\ Reading \cap Between = {} /\ Between \subseteq Pause
  /\ "RDRDATA" \in Reading /\ "RDRDATA" \notin Early /\ "IDEL" \notin Reading /\ "IDEL" \in Early
  /\ {"IDEL"} \cup Pause \cup Reading = (Early \ Reading) \cup Reading \cup Between
BY DEF Early, Between, Reading, Pause

LEMMA WenType ==
  ASSUME NEW ch, NEW drdy, NEW fin, NEW ch2, ch2 = ChainEdge(ch, drdy, fin), ch.wen \in BOOLEAN
  PROVE  ch2.wen \in BOOLEAN
<1>1. ch2.wen = IF ch.sel THEN ByteIn(ch)
                ELSE IF NextState(ch, drdy) \in InFrame
                  THEN (NextState(ch, drdy) \in InFrame /\ ch.tail <= TailEnd(ch)) /\ ch.tail \in TailWrites(ch)
                ELSE ch.wen
  BY DEF ChainEdge, ChainStep
<1> QED
  BY <1>1, Zenon DEF ByteIn

\* Before the first transfer and between those of the configuration.
LEMMA EarlyKept ==
  ASSUME NEW ch, NEW f, NEW i, NEW drdy, NEW fin, NEW ch2, NEW f2, NEW i2,
         Edge(ch, f, i, drdy, fin, ch2, f2, i2), Local(ch, f, i), ch.state \in Early \ Reading
  PROVE  DepInv(ch2, f2) /\ IndexInv(ch2, f2, i2) /\ FrameInv(ch2, f2)
<1> DEFINE s == ch.state
           s2 == ch2.state
<1>1. /\ ~ch.sel /\ ~ch.en /\ ch.byteCnt = 0 /\ ch.byteDue = 0 /\ (ch.sel0 => ch.sel1)
      /\ ch.frameDep \in Nat /\ ch.depCnt \in Nat /\ ch.depCnt = Before(s) /\ ch.frameDep <= ch.depCnt
      /\ i = ch.depCnt /\ ch.wen = FALSE /\ f = 0
  BY DEF Local, TransferInv, DepInv, IndexInv, FrameInv
<1>2. ~ch.flagHp
  BY StateSets DEF Local, TailInv
<1>3. ch2 = ChainEdge(ch, drdy, fin) /\ i2 = i /\ f2 = 0
  BY <1>1, <1>2, Zenon DEF Edge
<1>4. s2 \in Early /\ s2 \notin Between /\ (s2 \in Reading => s2 # "RDRDATA") /\ Before(s2) = Before(s)
  <2>1. s2 = NextState(ch, drdy) /\ s \in {"IDEL"} \cup Pause \cup Reading
    BY <1>3, ChainFields DEF Local
  <2> QED
    BY <2>1, NextStates DEF Begins, Leaves, Early, Reading, Pause, Between, Before
<1>5. ch2.depCnt = ch.depCnt
  <2> DEFINE x == (ch.depCnt + 1) % 256
  <2>1. ch2.depCnt = IF ch.flagHp THEN 0 ELSE IF ch.sel /\ ch.byteDue = 1 THEN x ELSE ch.depCnt
    BY <1>3, ChainFields
  <2> HIDE DEF x
  <2> QED
    BY <1>1, <1>2, <2>1
<1>6. ch2.frameDep = ch.depCnt
  <2>1. ch2.frameDep = FrameDep(ch, ch2.state)
    BY <1>3, ChainFields
  <2> QED
    BY <1>1, <2>1 DEF FrameDep
<1>7. ch2.byteCnt = 0
  BY <1>1, <1>3, ChainCounts
<1>8. ch2.wen <=> FALSE
  <2>1. ch.tail = 0
    BY DEF Local, TailInv, Reading
  <2>2. ch.tail \notin TailWrites(ch)
    BY <2>1 DEF TailWrites
  <2> QED
    BY <1>1, <1>3, <2>2, ChainCounts
<1>9. ch2.wen \in BOOLEAN
  BY <1>1, <1>3, WenType
<1>10. DepInv(ch2, f2)
  BY <1>1, <1>4, <1>5, <1>6, <1>7 DEF DepInv
<1>11. IndexInv(ch2, f2, i2)
  BY <1>1, <1>3, <1>4, <1>5, <1>8, <1>9 DEF IndexInv, One
<1>12. FrameInv(ch2, f2)
  BY <1>3, <1>4, StateSets DEF FrameInv, Between
<1> QED
  BY <1>10, <1>11, <1>12

\* In a transfer,
LEMMA TransferGoesOn ==
  ASSUME Unhurried, NEW ch, NEW f, NEW i, NEW drdy, NEW fin, NEW ch2, NEW f2, NEW i2,
         Edge(ch, f, i, drdy, fin, ch2, f2, i2), Local(ch, f, i),
         ch.state \in Reading, ch2.state = ch.state
  PROVE  DepInv(ch2, f2) /\ IndexInv(ch2, f2, i2) /\ FrameInv(ch2, f2)
<1> DEFINE s == ch.state
           n == RegByte[s]
           k == ch.byteCnt
           k2 == ch2.byteCnt
<1>1. TransferInv(ch) /\ DepInv(ch, f) /\ TailInv(ch) /\ IndexInv(ch, f, i) /\ FrameInv(ch, f)
      /\ ch2 = ChainEdge(ch, drdy, fin)
  BY DEF Local, Edge
<1>2. /\ n \in Nat \ {0} /\ k \in 0 .. n + 1
      /\ ch.byteDue = 1 => k \in 1 .. n
      /\ ch2.depCnt = IF ch.byteDue = 1 THEN ch.depCnt + 1 ELSE ch.depCnt
      /\ k2 = IF ch.byteDue = 1 \/ Selected(ch) THEN k + 1 ELSE k
      /\ Selected(ch) => k = 0
      /\ ~ch.flagHp
      /\ ch2.wen <=> ch.byteDue = 1
  BY <1>1, TransferCounts
<1>3. s \notin Early \ Reading /\ s \notin Between
  BY StateSets
<1>4. i2 = (IF ch.wen THEN i + 1 ELSE i) /\ f2 = f
  BY <1>2 DEF Edge
<1>5. Before(s) \in Nat
  BY BeforeFits, Zenon DEF Before
<1>6. /\ ch.frameDep \in Nat /\ ch.depCnt \in Nat
      /\ ch.depCnt = Before(s) + (IF k = 0 THEN 0 ELSE k - 1)
      /\ IF s = "RDRDATA" /\ k = 0 THEN ch.frameDep > 0 ELSE ch.frameDep <= ch.depCnt
  BY <1>1 DEF DepInv
<1>7. ch2.frameDep = IF ch.frameDep <= ch.depCnt THEN ch.depCnt
                     ELSE IF Selected(ch) /\ s \in InFrame \ {"RSICR"} THEN 0 ELSE ch.frameDep
  BY <1>1, ChainFields DEF FrameDep
<1>8. ch2.depCnt = Before(s) + (IF k2 = 0 THEN 0 ELSE k2 - 1) /\ ch2.depCnt \in Nat
  <2> DEFINE bf == Before(s)
  <2> HIDE DEF bf, k, k2, n
  <2> QED
    BY <1>2, <1>5, <1>6 DEF bf
<1>9. /\ ch2.frameDep \in Nat
      /\ IF s = "RDRDATA" /\ k2 = 0 THEN ch2.frameDep > 0 ELSE ch2.frameDep <= ch2.depCnt
  <2>1. s = "RDRDATA" => s \in InFrame \ {"RSICR"} /\ Before(s) = 0
    BY DEF InFrame, Before
  <2> DEFINE bf == Before(s)
             inf == s \in InFrame \ {"RSICR"}
             sel == Selected(ch)
  <2>2. ch2.frameDep = IF ch.frameDep <= ch.depCnt THEN ch.depCnt
                       ELSE IF sel /\ inf THEN 0 ELSE ch.frameDep
    BY <1>7
  <2>3. s = "RDRDATA" => inf /\ bf = 0
    BY <2>1
  <2> HIDE DEF bf, inf, k, k2, n, sel
  <2> QED
    BY <1>2, <1>6, <1>8, <2>2, <2>3 DEF bf, sel
<1>10. DepInv(ch2, f2)
  BY <1>3, <1>8, <1>9 DEF DepInv
<1>11. i2 + One(ch2.wen) = ch2.depCnt /\ i2 \in Nat
  <2>1. i + One(ch.wen) = ch.depCnt /\ i \in Nat
    BY <1>1 DEF IndexInv
  <2> QED
    BY <1>2, <1>4, <1>6, <2>1 DEF One
<1>12. ch2.wen \in BOOLEAN
  BY <1>1, WenType DEF IndexInv
<1>13. IndexInv(ch2, f2, i2)
  BY <1>3, <1>11, <1>12 DEF IndexInv
<1>14. FrameInv(ch2, f2)
  <2>1. s # "RSICRtoRDRDATA"
    BY DEF Reading
  <2> QED
    BY <1>1, <1>4, <2>1 DEF FrameInv
<1> QED
  BY <1>10, <1>13, <1>14

\* at the end of one,
LEMMA TransferIsOver ==
  ASSUME Unhurried, NEW ch, NEW f, NEW i, NEW drdy, NEW fin, NEW ch2, NEW f2, NEW i2,
         Edge(ch, f, i, drdy, fin, ch2, f2, i2), Local(ch, f, i),
         ch.state \in Reading, Leaves(ch.state, ch2.state)
  PROVE  /\ DepInv(ch2, f2) /\ IndexInv(ch2, f2, i2) /\ FrameInv(ch2, f2)
         /\ ch2.state \in Between => Tailing(ch2)
<1> DEFINE s == ch.state
           s2 == ch2.state
           n == RegByte[s]
           k == ch.byteCnt
<1>1. TransferInv(ch) /\ DepInv(ch, f) /\ TailInv(ch) /\ IndexInv(ch, f, i) /\ FrameInv(ch, f)
      /\ ch2 = ChainEdge(ch, drdy, fin) /\ s \in {"IDEL"} \cup Pause \cup Reading
  BY DEF Local, Edge
<1>2. s2 # s /\ s2 \notin Reading
  BY DEF Leaves, Reading
<1>3. /\ n \in Nat \ {0} /\ k = n + 1
      /\ ch.byteDue = 1 => k \in 1 .. n
      /\ ch2.depCnt = IF ch.byteDue = 1 THEN ch.depCnt + 1 ELSE ch.depCnt
      /\ Selected(ch) => k = 0
      /\ ~ch.flagHp
      /\ ch2.wen <=> ch.byteDue = 1
  BY <1>1, <1>2, TransferCounts
<1>4. ~Selected(ch) /\ ch.byteDue # 1 /\ k # 0
  <2> HIDE DEF n, k
  <2> QED
    BY <1>3
<1>5. /\ ch.frameDep \in Nat /\ ch.depCnt \in Nat
      /\ ch.depCnt = Before(s) + (IF k = 0 THEN 0 ELSE k - 1)
      /\ ch.frameDep <= ch.depCnt
  BY <1>1, <1>4 DEF DepInv
<1>6. ch2.depCnt = ch.depCnt /\ ch2.frameDep = ch.depCnt /\ ch.depCnt = Before(s) + n
  <2>1. ch2.frameDep = IF ch.frameDep <= ch.depCnt THEN ch.depCnt
                       ELSE IF Selected(ch) /\ s2 \in InFrame \ {"RSICR"} THEN 0 ELSE ch.frameDep
    BY <1>1, ChainFields DEF FrameDep
  <2>2. Before(s) \in Nat
    BY BeforeFits, Zenon DEF Before
  <2> DEFINE bf == Before(s)
  <2>3. ch.depCnt = bf + n
    <3>1. ch.depCnt = bf + (IF k = 0 THEN 0 ELSE k - 1)
      BY <1>5
    <3> HIDE DEF bf, n, k
    <3> QED
      BY <1>3, <2>2, <3>1 DEF bf
  <2> QED
    BY <1>3, <1>4, <1>5, <2>1, <2>3
<1>7. i2 = ch2.depCnt /\ i2 \in Nat /\ f2 = f /\ ~ch2.wen
  <2>1. i + One(ch.wen) = ch.depCnt /\ i \in Nat
    BY <1>1 DEF IndexInv
  <2>2. i2 = (IF ch.wen THEN i + 1 ELSE i) /\ f2 = f
    BY <1>3 DEF Edge
  <2> QED
    BY <1>3, <1>4, <1>5, <1>6, <2>1, <2>2 DEF One
<1>8. ch2.wen \in BOOLEAN
  BY <1>1, WenType DEF IndexInv
<1>9. CASE s2 \in Between
  <2>1. s2 \notin Early
    BY <1>9, StateSets
  <2>2. f2 = (IF s2 = "RSICRtoRDRDATA" THEN 0 ELSE f2) /\ (s2 = "RDRDATAtoIDEL" => f2 \in {1, 2}) /\ f2 \in 0 .. 2
    BY <1>1, <1>7 DEF Leaves, FrameInv, Early
  <2>3. Before(s) + n = Bytes(f2)
    BY <1>9, <2>2, RegByteType DEF Leaves, Between, Before, Bytes
  <2>4. ch2.tail = 0 /\ ch2.frameDep \in Nat
    <3>1. drdy => ~Tailing(ch)
      BY DEF Edge
    <3> QED
      BY <1>1, <1>5, <1>6, <3>1, TailKept
  <2>5. Tailing(ch2)
    <3>1. TailEnd(ch2) \in 20 .. 23
      BY <2>4, TailRange
    <3> QED
      BY <1>9, <2>4, <3>1 DEF Tailing
  <2>6. Bytes(f2) \in Nat \ {0}
    BY BytesType
  <2>7. DepInv(ch2, f2)
    BY <1>2, <1>6, <2>1, <2>3, <2>4, <2>5, <2>6 DEF DepInv
  <2>8. IndexInv(ch2, f2, i2)
    <3>1. i2 + One(ch2.wen) = Bytes(f2) + TailBytes(ch2.tail)
      BY <1>6, <1>7, <2>3, <2>4, <2>6 DEF One, TailBytes
    <3> QED
      BY <1>2, <1>7, <1>8, <2>1, <2>5, <3>1 DEF IndexInv
  <2>9. FrameInv(ch2, f2)
    BY <1>9, <2>1, <2>2, <2>5 DEF FrameInv, Between
  <2> QED
    BY <2>5, <2>7, <2>8, <2>9
<1>10. CASE s2 \notin Between
  <2>1. s2 \in Early \ Reading /\ s \in Early /\ s2 # "RSICRtoRDRDATA" /\ s2 \notin {"RDRDATA", "RDRDATAtoIDEL"}
    BY <1>10 DEF Leaves, Between, Early, Reading
  <2>2. Before(s2) = Before(s) + n
    BY <1>10, RegByteType DEF Leaves, Between, Before
  <2>3. f2 = 0
    BY <1>1, <1>7, <2>1 DEF FrameInv
  <2>4. DepInv(ch2, f2)
    BY <1>2, <1>5, <1>6, <1>10, <2>2 DEF DepInv
  <2>5. IndexInv(ch2, f2, i2)
    BY <1>2, <1>7, <1>8, <1>10 DEF IndexInv
  <2>6. FrameInv(ch2, f2)
    BY <2>1, <2>3 DEF FrameInv
  <2> QED
    BY <1>10, <2>4, <2>5, <2>6
<1> QED
  BY <1>9, <1>10

LEMMA TailBytesMove ==
  ASSUME NEW ch, TailEnd(ch) \in 20 .. 23, NEW t \in 0 .. 23, t <= TailEnd(ch)
  PROVE  /\ TailBytes(t + 1) = TailBytes(t) + One(t \in TailWrites(ch))
         /\ TailBytes(t) \in Nat
<1>1. /\ 1 \div 3 = 0 /\ 2 \div 3 = 0 /\ 3 \div 3 = 1 /\ 4 \div 3 = 1 /\ 5 \div 3 = 1 /\ 6 \div 3 = 2
      /\ 7 \div 3 = 2 /\ 8 \div 3 = 2 /\ 9 \div 3 = 3 /\ 10 \div 3 = 3 /\ 11 \div 3 = 3
      /\ 12 \div 3 = 4 /\ 13 \div 3 = 4 /\ 14 \div 3 = 4 /\ 15 \div 3 = 5 /\ 16 \div 3 = 5
      /\ 17 \div 3 = 5 /\ 18 \div 3 = 6
  BY Z3
<1>2. \A j \in 1 .. 18 : j \div 3 = IF j < 3 THEN 0 ELSE IF j < 6 THEN 1 ELSE IF j < 9 THEN 2
                                   ELSE IF j < 12 THEN 3 ELSE IF j < 15 THEN 4 ELSE IF j < 18 THEN 5 ELSE 6
  BY <1>1
<1>3. \A j \in 0 .. 24 : TailBytes(j) = IF j < 4 THEN 0 ELSE IF j < 7 THEN 1 ELSE IF j < 10 THEN 2
                                       ELSE IF j < 13 THEN 3 ELSE IF j < 16 THEN 4
                                       ELSE IF j < 19 THEN 5 ELSE IF j < 20 THEN 6 ELSE j - 14
  <2> TAKE j \in 0 .. 24
  <2>1. CASE j <= 1
    BY <2>1 DEF TailBytes
  <2>2. CASE j \in 2 .. 19
    <3> DEFINE m == j - 1
    <3>1. m \in 1 .. 18 /\ j = m + 1 /\ TailBytes(j) = m \div 3
      BY <2>2 DEF TailBytes
    <3> HIDE DEF m
    <3>2. m \div 3 = IF m < 3 THEN 0 ELSE IF m < 6 THEN 1 ELSE IF m < 9 THEN 2
                     ELSE IF m < 12 THEN 3 ELSE IF m < 15 THEN 4 ELSE IF m < 18 THEN 5 ELSE 6
      BY <1>2, <3>1
    <3> DEFINE d == m \div 3
               tb == TailBytes(j)
    <3>3. tb = d /\ d = IF m < 3 THEN 0 ELSE IF m < 6 THEN 1 ELSE IF m < 9 THEN 2
                     ELSE IF m < 12 THEN 3 ELSE IF m < 15 THEN 4 ELSE IF m < 18 THEN 5 ELSE 6
      BY <3>1, <3>2
    <3> HIDE DEF d, tb
    <3>4. tb = IF j < 4 THEN 0 ELSE IF j < 7 THEN 1 ELSE IF j < 10 THEN 2
               ELSE IF j < 13 THEN 3 ELSE IF j < 16 THEN 4
               ELSE IF j < 19 THEN 5 ELSE IF j < 20 THEN 6 ELSE j - 14
      BY <2>2, <3>1, <3>3
    <3> QED
      BY <3>4 DEF tb
  <2>3. CASE j > 19
    BY <2>3 DEF TailBytes
  <2> QED
    BY <2>1, <2>2, <2>3
<1> DEFINE x == TailBytes(t)
           y == TailBytes(t + 1)
           E == TailEnd(ch)
<1>4. x = IF t < 4 THEN 0 ELSE IF t < 7 THEN 1 ELSE IF t < 10 THEN 2
          ELSE IF t < 13 THEN 3 ELSE IF t < 16 THEN 4
          ELSE IF t < 19 THEN 5 ELSE IF t < 20 THEN 6 ELSE t - 14
  BY <1>3
<1>5. y = IF t < 3 THEN 0 ELSE IF t < 6 THEN 1 ELSE IF t < 9 THEN 2
          ELSE IF t < 12 THEN 3 ELSE IF t < 15 THEN 4
          ELSE IF t < 18 THEN 5 ELSE IF t < 19 THEN 6 ELSE t - 13
  <2> DEFINE j == t + 1
  <2>1. j \in 0 .. 24 /\ t = j - 1 /\ y = TailBytes(j)
    OBVIOUS
  <2> HIDE DEF j, y
  <2> QED
    BY <1>3, <2>1
<1>6. t \in TailWrites(ch) <=> t \in {3, 6, 9, 12, 15, 18} \/ t \in 20 .. E
  BY DEF TailWrites
<1> HIDE DEF x, y, E
<1>7. E \in 20 .. 23 /\ t <= E
  BY DEF E
<1>8. y = x + One(t \in TailWrites(ch)) /\ x \in Nat
  <2>1. CASE t \in TailWrites(ch)
    BY <1>4, <1>5, <1>6, <1>7, <2>1 DEF One
  <2>2. CASE t \notin TailWrites(ch)
    BY <1>4, <1>5, <1>6, <1>7, <2>2 DEF One
  <2> QED
    BY <2>1, <2>2
<1> QED
  BY <1>8 DEF x, y

\* while the tail is written,
LEMMA TailGoesOn ==
  ASSUME NEW ch, NEW f, NEW i, NEW drdy, NEW fin, NEW ch2, NEW f2, NEW i2,
         Edge(ch, f, i, drdy, fin, ch2, f2, i2), Local(ch, f, i), ch.state \in Between, Tailing(ch)
  PROVE  /\ DepInv(ch2, f2) /\ IndexInv(ch2, f2, i2) /\ FrameInv(ch2, f2)
         /\ ch2.state = ch.state /\ (Tailing(ch2) <=> ~ch.flagHp)
         /\ ch.flagHp => i + One(ch.wen) = Bytes(f) + 6 + Supplement(ch)
<1> DEFINE s == ch.state
           E == TailEnd(ch)
<1>1. TransferInv(ch) /\ DepInv(ch, f) /\ TailInv(ch) /\ IndexInv(ch, f, i) /\ FrameInv(ch, f)
      /\ ch2 = ChainEdge(ch, drdy, fin) /\ (drdy => ~Tailing(ch))
  BY DEF Local, Edge
<1>2. /\ ch2.frameDep = ch.frameDep /\ TailEnd(ch2) = E /\ E \in 20 .. 23
      /\ ch2.state = s
      /\ ch.tail \in 0 .. E + 1
      /\ ch2.tail = IF ch.tail <= E THEN ch.tail + 1 ELSE ch.tail
      /\ ch.flagHp => ch.tail = E + 1
      /\ ch.tail <= E \/ ch.flagHp
      /\ Tailing(ch2) <=> ~ch.flagHp
      /\ ch2.depCnt = IF ch.flagHp THEN 0 ELSE ch.depCnt
  BY <1>1, BetweenMoves
<1>3. /\ ch.frameDep \in Nat /\ ch.frameDep > 0 /\ ch.frameDep = Bytes(f) /\ ch.depCnt = Bytes(f)
      /\ i + One(ch.wen) = Bytes(f) + TailBytes(ch.tail) /\ i \in Nat /\ ch.wen \in BOOLEAN
      /\ ~ch.sel
  BY <1>1, StateSets DEF DepInv, IndexInv, TransferInv
<1>4. s \notin Early /\ s \notin Reading /\ s \in InFrame /\ Bytes(f) \in Nat \ {0}
  BY StateSets, BytesType DEF InFrame
<1>5. ch2.wen <=> ch.tail <= E /\ ch.tail \in TailWrites(ch)
  BY <1>1, <1>2, <1>3, <1>4, ChainCounts
<1>6. ch2.wen \in BOOLEAN
  BY <1>1, <1>3, WenType
<1>7. i2 = (IF ch.flagHp THEN 0 ELSE IF ch.wen THEN i + 1 ELSE i)
      /\ f2 = (IF ch.flagHp THEN NextFrame(f) ELSE f)
  BY DEF Edge
<1>8. DepInv(ch2, f2)
  BY <1>2, <1>3, <1>4, <1>7 DEF DepInv
<1>9. CASE ch.flagHp
  <2>1. i2 = 0 /\ ~ch2.wen
    <3> HIDE DEF E
    <3> QED
      BY <1>2, <1>5, <1>7, <1>9
  <2>2. IndexInv(ch2, f2, i2)
    BY <1>2, <1>4, <1>6, <1>9, <2>1 DEF IndexInv
  <2>3. f2 \in {1, 2} /\ (s = "RSICRtoRDRDATA" => f2 = 1)
    <3>1. s = "RSICRtoRDRDATA" => f = 0
      BY <1>1 DEF FrameInv
    <3> QED
      BY <1>7, <1>9, <3>1 DEF NextFrame
  <2>4. FrameInv(ch2, f2)
    BY <1>2, <1>4, <1>9, <2>3 DEF FrameInv
  <2>5. i + One(ch.wen) = Bytes(f) + 6 + Supplement(ch)
    <3>1. TailBytes(ch.tail) = E - 13
      <4>1. ch.tail = E + 1
        BY <1>2, <1>9
      <4> HIDE DEF E
      <4> QED
        BY <1>2, <4>1 DEF TailBytes
    <3>2. E = 19 + Supplement(ch) /\ Supplement(ch) \in 1 .. 4
      BY <1>3, Supplements
    <3> HIDE DEF E
    <3> QED
      BY <1>2, <1>3, <1>4, <3>1, <3>2
  <2> QED
    BY <1>2, <1>8, <1>9, <2>2, <2>4, <2>5
<1>10. CASE ~ch.flagHp
  <2>1. i2 = (IF ch.wen THEN i + 1 ELSE i) /\ f2 = f /\ ch.tail \in 0 .. 23 /\ ch.tail <= E /\ ch2.tail = ch.tail + 1
    <3> HIDE DEF E
    <3> QED
      BY <1>2, <1>7, <1>10
  <2>2. TailBytes(ch2.tail) = TailBytes(ch.tail) + One(ch.tail \in TailWrites(ch)) /\ TailBytes(ch.tail) \in Nat
    BY <1>2, <2>1, TailBytesMove
  <2>3. One(ch.tail \in TailWrites(ch)) = One(ch2.wen)
    BY <1>5, <2>1 DEF One
  <2>4. i2 + One(ch2.wen) = Bytes(f) + TailBytes(ch2.tail) /\ i2 \in Nat
    <3> DEFINE a == TailBytes(ch2.tail)
               b == TailBytes(ch.tail)
               c == Bytes(f)
    <3>1. a = b + One(ch2.wen) /\ i + One(ch.wen) = c + b /\ b \in Nat /\ c \in Nat
      BY <1>3, <1>4, <2>2, <2>3
    <3> HIDE DEF a, b, c
    <3>2. i2 + One(ch2.wen) = c + a /\ i2 \in Nat
      BY <1>3, <2>1, <3>1 DEF One
    <3> QED
      BY <3>2 DEF a, c
  <2>5. IndexInv(ch2, f2, i2)
    BY <1>2, <1>4, <1>6, <1>10, <2>1, <2>4 DEF IndexInv
  <2>6. FrameInv(ch2, f2)
    BY <1>1, <1>2, <1>10, <2>1 DEF FrameInv
  <2> QED
    BY <1>2, <1>8, <1>10, <2>5, <2>6
<1> QED
  BY <1>9, <1>10

\* and while the frame is there.
LEMMA IdleGoesOn ==
  ASSUME NEW ch, NEW f, NEW i, NEW drdy, NEW fin, NEW ch2, NEW f2, NEW i2,
         Edge(ch, f, i, drdy, fin, ch2, f2, i2), Local(ch, f, i), Idle(ch)
  PROVE  /\ DepInv(ch2, f2) /\ IndexInv(ch2, f2, i2) /\ FrameInv(ch2, f2)
         /\ Idle(ch2) \/ (ch2.state = "RDRDATA" /\ ~ch.flag)
         /\ i2 = 0 /\ i = 0 /\ f2 = f /\ ch2.frameDep = ch.frameDep /\ ~ch.flagHp /\ ~ch.wen
         /\ f \in {1, 2}
<1> DEFINE s == ch.state
           s2 == ch2.state
           E == TailEnd(ch)
<1>1. /\ TransferInv(ch) /\ DepInv(ch, f) /\ TailInv(ch) /\ IndexInv(ch, f, i) /\ FrameInv(ch, f)
      /\ ch2 = ChainEdge(ch, drdy, fin) /\ ~Tailing(ch) /\ s \in Between
  BY DEF Local, Edge, Idle
<1>2. /\ ch2.frameDep = ch.frameDep /\ E \in 20 .. 23
      /\ s2 = s \/ (s2 = "RDRDATA" /\ ~ch.flag)
      /\ ~(ch.tail <= E) /\ ~ch.flagHp
      /\ s2 = s => ~Tailing(ch2)
      /\ ch2.depCnt = IF ch.flagHp THEN 0 ELSE ch.depCnt
  BY <1>1, BetweenMoves
<1>3. /\ ch.frameDep \in Nat /\ ch.frameDep > 0 /\ ch.depCnt = 0
      /\ i = 0 /\ ~ch.wen /\ ch.wen \in BOOLEAN
      /\ ~ch.sel /\ ~ch.en /\ ch.byteCnt = 0 /\ ch.byteDue = 0 /\ (ch.sel0 => ch.sel1)
  BY <1>1, StateSets DEF DepInv, IndexInv, TransferInv
<1>4. s \notin Early /\ s \notin Reading
  BY <1>1, StateSets
<1>5. i2 = 0 /\ f2 = f
  BY <1>2, <1>3 DEF Edge
<1>6. ch2.wen <=> FALSE
  <2>1. s2 \in InFrame
    BY <1>1, <1>2 DEF InFrame
  <2> QED
    BY <1>1, <1>2, <1>3, <2>1, ChainCounts
<1>7. ch2.wen \in BOOLEAN
  BY <1>1, <1>3, WenType
<1>8. f \in {1, 2}
  BY <1>1 DEF FrameInv, Between
<1>9. CASE s2 = s
  <2>1. DepInv(ch2, f2)
    BY <1>1, <1>2, <1>3, <1>4, <1>9 DEF DepInv
  <2>2. IndexInv(ch2, f2, i2)
    BY <1>1, <1>2, <1>4, <1>5, <1>6, <1>7, <1>9 DEF IndexInv
  <2>3. FrameInv(ch2, f2)
    BY <1>1, <1>2, <1>5, <1>9 DEF FrameInv
  <2> QED
    BY <1>1, <1>2, <1>3, <1>5, <1>8, <1>9, <2>1, <2>2, <2>3 DEF Idle
<1>10. CASE s2 = "RDRDATA" /\ ~ch.flag
  <2>1. ch2.byteCnt = 0
    BY <1>1, <1>3, <1>10, StateSets, ChainCounts
  <2>2. Before(s2) = 0
    BY <1>10 DEF Before
  <2>3. s2 \notin Early /\ s2 \in Reading /\ s2 \notin Between /\ s2 # "RSICRtoRDRDATA"
    BY <1>10, StateSets
  <2>4. DepInv(ch2, f2)
    BY <1>2, <1>3, <1>10, <2>1, <2>2, <2>3 DEF DepInv
  <2>5. IndexInv(ch2, f2, i2)
    BY <1>2, <1>3, <1>5, <1>6, <1>7, <2>3 DEF IndexInv, One
  <2>6. FrameInv(ch2, f2)
    BY <1>5, <1>8, <2>3 DEF FrameInv
  <2> QED
    BY <1>2, <1>3, <1>5, <1>8, <1>10, <2>4, <2>5, <2>6
<1> QED
  BY <1>2, <1>9, <1>10

\* An edge keeps what is said of one chain.
LEMMA LocalKept ==
  ASSUME Unhurried, NEW ch, NEW f, NEW i, NEW drdy, NEW fin, NEW ch2, NEW f2, NEW i2,
         Edge(ch, f, i, drdy, fin, ch2, f2, i2), Local(ch, f, i)
  PROVE  Local(ch2, f2, i2)
<1>1. /\ TransferInv(ch) /\ DepInv(ch, f) /\ TailInv(ch)
      /\ ch2 = ChainEdge(ch, drdy, fin) /\ (drdy => ~Tailing(ch))
      /\ ch.state \in {"IDEL"} \cup Pause \cup Reading
  BY DEF Local, Edge
<1>2. TransferInv(ch2) /\ TailInv(ch2) /\ ch2.state \in {"IDEL"} \cup Pause \cup Reading
  BY <1>1, TransferKept, TailKept
<1>3. DepInv(ch2, f2) /\ IndexInv(ch2, f2, i2) /\ FrameInv(ch2, f2)
  <2>1. CASE ch.state \in Early \ Reading
    BY <2>1, EarlyKept
  <2>2. CASE ch.state \in Reading
    <3>1. ch2.state = ch.state \/ Leaves(ch.state, ch2.state)
      BY <1>1, <2>2, TransferCounts
    <3> QED
      BY <2>2, <3>1, TransferGoesOn, TransferIsOver
  <2>3. CASE ch.state \in Between
    BY <2>3, TailGoesOn, IdleGoesOn DEF Idle
  <2> QED
    BY <1>1, <2>1, <2>2, <2>3, StateSets
<1> QED
  BY <1>2, <1>3 DEF Local

-----------------------------------------------------------------------------
\* A chain with its flag down.
LEMMA AgeValue ==
  ASSUME NEW ch, NEW f, NEW i, NEW b, Local(ch, f, i), ~ch.flag
  PROVE  /\ Age(ch, i, b) \in Nat /\ Age(ch, i, b) >= 4
         /\ Age(ch, i, b) = 4 <=> Idle(ch)
         /\ Age(ch, i, b) = 5 <=> ch.state = "RDRDATA" /\ ch.byteCnt = 0 /\ ~ch.sel0
         /\ Age(ch, i, b) = 6 <=> ch.state = "RDRDATA" /\ ch.byteCnt = 0 /\ ch.sel0
         /\ i > 0 => Age(ch, i, b) >= 9 + ByteTime
         /\ Tailing(ch) => Age(ch, i, b) = 9 + ByteTime + ch.tail
<1> DEFINE a == Age(ch, i, b)
           n == RegByte["RDRDATA"]
           k == ch.byteCnt
<1>1. /\ ch.state \in {"IDEL"} \cup Pause \cup Reading
      /\ TransferInv(ch) /\ DepInv(ch, f) /\ TailInv(ch) /\ IndexInv(ch, f, i)
      /\ ByteTime \in Nat \ {0} /\ n \in Nat \ {0}
  BY ByteTimeAssumption, RegByteType DEF Local
<1>2. i \in Nat /\ ch.wen \in BOOLEAN
  BY <1>1 DEF IndexInv
<1>3. CASE Idle(ch)
  <2>1. a = 4
    BY <1>3 DEF Age
  <2>2. ch.state \in Between /\ ~Tailing(ch) /\ ch.state # "RDRDATA"
    BY <1>3 DEF Idle, Between
  <2>3. i = 0
    BY <1>1, <2>2 DEF IndexInv
  <2> QED
    BY <1>1, <1>3, <2>1, <2>2, <2>3
<1>4. CASE ch.state = "RDRDATA"
  <2>1. ~Idle(ch) /\ ~Tailing(ch)
    BY <1>4 DEF Idle, Tailing, Between
  <2>2. ch.state \in Reading
    BY <1>4 DEF Reading
  <2>3. /\ k \in 0 .. n + 1
        /\ k \in 1 .. n => ch.byteDue \in 0 .. ByteTime
    BY <1>1, <1>4, <2>2 DEF TransferInv
  <2>4. k <= 1 => i = 0
    <3>1. ch.depCnt = Before(ch.state) + (IF k = 0 THEN 0 ELSE k - 1) /\ Before(ch.state) = 0
      BY <1>1, <1>4, <2>2 DEF DepInv, Before
    <3>2. i + One(ch.wen) = ch.depCnt
      BY <1>1, <2>2 DEF IndexInv
    <3> HIDE DEF k
    <3> QED
      BY <1>2, <2>3, <3>1, <3>2 DEF One
  <2>5. a = IF k = 0 THEN (IF ch.sel0 THEN 6 ELSE 5)
            ELSE IF k = 1 THEN (IF ch.en THEN 7 ELSE 8 + ByteTime - ch.byteDue)
            ELSE 8 + ByteTime + (IF i = 0 THEN 0 ELSE 1)
    BY <1>4, <2>1 DEF Age
  <2> HIDE DEF k, n, a
  <2>6. /\ a \in Nat /\ a >= 4 /\ a # 4
        /\ a = 5 <=> k = 0 /\ ~ch.sel0
        /\ a = 6 <=> k = 0 /\ ch.sel0
        /\ i > 0 => a >= 9 + ByteTime
    BY <1>1, <1>2, <2>3, <2>4, <2>5
  <2> QED
    BY <1>4, <2>1, <2>6 DEF a, k
<1>5. CASE ~Idle(ch) /\ ch.state # "RDRDATA"
  <2>1. a = 9 + ByteTime + ch.tail
    BY <1>5 DEF Age
  <2>2. ch.tail \in Nat
    <3>1. TailEnd(ch) \in 20 .. 23
      BY <1>1, TailRange DEF DepInv
    <3>2. ch.state \in Early \/ ch.state \in Between
      BY <1>1, <1>5 DEF Pause, Reading, Early, Between
    <3> QED
      BY <1>1, <3>1, <3>2 DEF TailInv
  <2> QED
    BY <1>1, <1>5, <2>1, <2>2
<1> QED
  BY <1>3, <1>4, <1>5

LEMMA AgeMoves ==
  ASSUME Unhurried, NEW ch, NEW f, NEW i, NEW drdy, NEW fin, NEW ch2, NEW f2, NEW i2, NEW b, NEW b2,
         Edge(ch, f, i, drdy, fin, ch2, f2, i2), Local(ch, f, i), ~ch.flag, ~ch2.flag
  PROVE  /\ Age(ch2, i2, b2) <= Age(ch, i, b) + 1
         /\ Age(ch, i, b) = 4 => Age(ch2, i2, b2) \in {4, 5}
         /\ Age(ch, i, b) = 5 => Age(ch2, i2, b2) = 6
<1> DEFINE a == Age(ch, i, b)
           a2 == Age(ch2, i2, b2)
           k == ch.byteCnt
           k2 == ch2.byteCnt
           n == RegByte["RDRDATA"]
<1>1. /\ TransferInv(ch) /\ DepInv(ch, f) /\ TailInv(ch) /\ IndexInv(ch, f, i)
      /\ ByteTime \in Nat \ {0} /\ n \in Nat \ {0}
      /\ ch2 = ChainEdge(ch, drdy, fin) /\ Local(ch2, f2, i2)
      /\ ch.state \in {"IDEL"} \cup Pause \cup Reading
  BY ByteTimeAssumption, RegByteType, LocalKept DEF Local, Edge
<1>2. /\ a \in Nat /\ a >= 4 /\ (a = 4 <=> Idle(ch))
      /\ a = 5 <=> ch.state = "RDRDATA" /\ k = 0 /\ ~ch.sel0
      /\ a = 6 <=> ch.state = "RDRDATA" /\ k = 0 /\ ch.sel0
  BY AgeValue
<1>3. /\ a2 \in Nat /\ a2 >= 4 /\ (a2 = 4 <=> Idle(ch2))
      /\ a2 = 5 <=> ch2.state = "RDRDATA" /\ k2 = 0 /\ ~ch2.sel0
      /\ a2 = 6 <=> ch2.state = "RDRDATA" /\ k2 = 0 /\ ch2.sel0
  BY <1>1, AgeValue
<1>4. CASE Idle(ch)
  <2>1. Idle(ch2) \/ ch2.state = "RDRDATA"
    BY <1>4, IdleGoesOn
  <2>2. ~ch.sel /\ ch.byteCnt = 0 /\ ch.byteDue = 0 /\ (ch.sel0 => ch.sel1)
    BY <1>1, <1>4, StateSets DEF TransferInv, Idle
  <2>3. ~ch2.sel0
    BY <1>1, <2>2, ChainFields
  <2>4. ch2.state = "RDRDATA" => k2 = 0
    BY <1>1, <2>2, StateSets, ChainCounts
  <2> HIDE DEF a, a2
  <2> QED
    BY <1>2, <1>3, <1>4, <2>1, <2>3, <2>4 DEF a, a2
<1>5. CASE ch.state = "RDRDATA" /\ ch2.state = "RDRDATA"
  <2>1. /\ ~Idle(ch) /\ ~Idle(ch2) /\ ch.state \in Reading /\ n = RegByte[ch.state]
    BY <1>5 DEF Idle, Between, Reading
  <2>2. /\ k \in 0 .. n + 1
        /\ ch.byteDue = 1 => k \in 1 .. n
        /\ k2 = IF ch.byteDue = 1 \/ Selected(ch) THEN k + 1 ELSE k
        /\ Selected(ch) => k = 0
        /\ ~ch.flagHp
    BY <1>1, <1>5, <2>1, TransferCounts
  <2>3. /\ ch.sel
        /\ k = 0 => ~(ch.sel0 /\ ch.sel1) /\ ~ch.en /\ ch.byteDue = 0
        /\ k \in 1 .. n => ch.byteDue \in 0 .. ByteTime /\ (ch.en <=> ch.byteDue = 0)
        /\ k > n => ~ch.en /\ ch.byteDue = 0
    BY <1>1, <2>1 DEF TransferInv
  <2>4. ch2.sel0
    BY <1>1, <2>3, ChainFields
  <2>5. ch2.byteDue = IF ch.en THEN ByteTime ELSE IF ch.byteDue > 0 THEN ch.byteDue - 1 ELSE 0
    BY <1>1, ChainFields
  <2>6. k2 = k + 1 => (ch2.en <=> k # n)
    <3>1. ch2.state \in Reading /\ RegByte[ch2.state] = n
      BY <1>5, <2>1
    <3>2. IF (ch.sel0 /\ ~ch.sel1) \/ (ch.byteDue = 1 /\ ch.byteCnt <= RegByte[ch2.state])
            THEN ch2.byteCnt = ch.byteCnt + 1 /\ (ch2.en <=> ch.byteCnt # RegByte[ch2.state])
            ELSE ch2.byteCnt = ch.byteCnt /\ ~ch2.en
      BY <1>1, <3>1, ChainCounts
    <3> HIDE DEF k, k2, n
    <3> QED
      BY <2>2, <3>1, <3>2 DEF k, k2
  <2>7. k2 = k => ~ch2.en
    <3>1. ch2.state \in Reading /\ RegByte[ch2.state] = n
      BY <1>5, <2>1
    <3>2. IF (ch.sel0 /\ ~ch.sel1) \/ (ch.byteDue = 1 /\ ch.byteCnt <= RegByte[ch2.state])
            THEN ch2.byteCnt = ch.byteCnt + 1 /\ (ch2.en <=> ch.byteCnt # RegByte[ch2.state])
            ELSE ch2.byteCnt = ch.byteCnt /\ ~ch2.en
      BY <1>1, <3>1, ChainCounts
    <3> HIDE DEF k, k2, n
    <3> QED
      BY <2>2, <3>1, <3>2 DEF k, k2
  <2>8. a = IF k = 0 THEN (IF ch.sel0 THEN 6 ELSE 5)
            ELSE IF k = 1 THEN (IF ch.en THEN 7 ELSE 8 + ByteTime - ch.byteDue)
            ELSE 8 + ByteTime + (IF i = 0 THEN 0 ELSE 1)
    BY <1>5, <2>1 DEF Age
  <2>9. a2 = IF k2 = 0 THEN (IF ch2.sel0 THEN 6 ELSE 5)
             ELSE IF k2 = 1 THEN (IF ch2.en THEN 7 ELSE 8 + ByteTime - ch2.byteDue)
             ELSE 8 + ByteTime + (IF i2 = 0 THEN 0 ELSE 1)
    BY <1>5, <2>1 DEF Age
  <2>10. i \in Nat /\ i2 \in Nat /\ (k = 1 => i2 = 0)
    <3>1. ch.depCnt = Before(ch.state) + (IF k = 0 THEN 0 ELSE k - 1) /\ Before(ch.state) = 0
      BY <1>1, <1>5, <2>1 DEF DepInv, Before
    <3>2. i + One(ch.wen) = ch.depCnt /\ i \in Nat
      BY <1>1, <2>1 DEF IndexInv
    <3>3. i2 = IF ch.wen THEN i + 1 ELSE i
      BY <2>2 DEF Edge
    <3> HIDE DEF k
    <3> QED
      BY <2>2, <3>1, <3>2, <3>3 DEF One
  <2>11. Selected(ch) <=> ch.sel0 /\ ~ch.sel1
    BY DEF Selected
  <2> DEFINE se == Selected(ch)
  <2> HIDE DEF k, k2, n, a, a2, se
  <2>12. a2 <= a + 1 /\ (a = 5 => a2 = 6) /\ a # 4
    <3>1. CASE k = 0
      <4>1. k2 = (IF se THEN 1 ELSE 0) /\ (se => ch.sel0) /\ ~ch.en /\ ch.byteDue = 0
        BY <2>2, <2>3, <2>11, <3>1 DEF se
      <4>2. a = (IF ch.sel0 THEN 6 ELSE 5)
        BY <2>8, <3>1
      <4>3. se => ch2.en
        BY <1>1, <2>6, <3>1, <4>1
      <4>4. a2 = IF se THEN 7 ELSE 6
        BY <2>4, <2>9, <4>1, <4>3
      <4> QED
        BY <4>1, <4>2, <4>4
    <3>2. CASE k = 1
      <4>1. ch.byteDue \in 0 .. ByteTime /\ (ch.en <=> ch.byteDue = 0) /\ ~se
        BY <1>1, <2>2, <2>3, <3>2 DEF se
      <4>2. a = (IF ch.en THEN 7 ELSE 8 + ByteTime - ch.byteDue)
        BY <2>8, <3>2
      <4>3. i2 = 0
        BY <2>10, <3>2
      <4>4. CASE ch.byteDue = 1
        <5>1. k2 = 2
          BY <2>2, <3>2, <4>4
        <5> QED
          BY <1>1, <2>9, <4>1, <4>2, <4>3, <4>4, <5>1
      <4>5. CASE ch.byteDue # 1
        <5>1. k2 = 1 /\ ~ch2.en
          BY <2>2, <2>7, <3>2, <4>1, <4>5 DEF se
        <5> QED
          BY <1>1, <2>5, <2>9, <4>1, <4>2, <4>5, <5>1
      <4> QED
        BY <4>4, <4>5
    <3>3. CASE k > 1
      <4>1. a = 8 + ByteTime + (IF i = 0 THEN 0 ELSE 1)
        BY <2>2, <2>8, <3>3
      <4>2. k2 > 1
        BY <2>2, <3>3
      <4>3. a2 = 8 + ByteTime + (IF i2 = 0 THEN 0 ELSE 1)
        BY <2>2, <2>9, <4>2
      <4> QED
        BY <1>1, <2>10, <4>1, <4>3
    <3> QED
      BY <1>1, <2>2, <3>1, <3>2, <3>3
  <2> QED
    BY <2>12 DEF a, a2
<1>6. CASE ch.state = "RDRDATA" /\ ch2.state # "RDRDATA"
  <2>1. ch.state \in Reading /\ n = RegByte[ch.state] /\ ~Idle(ch)
    BY <1>6 DEF Reading, Idle, Between
  <2>2. Leaves(ch.state, ch2.state) /\ k = n + 1
    BY <1>1, <1>6, <2>1, TransferCounts
  <2>3. ch2.state \in Between
    BY <1>6, <2>2 DEF Leaves, Between
  <2>4. Tailing(ch2) /\ ch2.tail = 0
    <3>1. drdy => ~Tailing(ch)
      BY DEF Edge
    <3> QED
      BY <1>1, <2>1, <2>2, <2>3, <3>1, TransferIsOver, TailKept
  <2>5. a2 = 9 + ByteTime
    BY <1>1, <2>4, AgeValue
  <2>6. a >= 8 + ByteTime
    <3>1. a = IF k = 0 THEN (IF ch.sel0 THEN 6 ELSE 5)
            ELSE IF k = 1 THEN (IF ch.en THEN 7 ELSE 8 + ByteTime - ch.byteDue)
            ELSE 8 + ByteTime + (IF i = 0 THEN 0 ELSE 1)
      BY <1>6, <2>1 DEF Age
    <3> HIDE DEF a, k, n
    <3> QED
      BY <1>1, <2>2, <3>1
  <2> HIDE DEF a, a2
  <2> QED
    BY <1>1, <1>2, <2>5, <2>6 DEF a, a2
<1>7. CASE ~Idle(ch) /\ ch.state # "RDRDATA"
  <2>1. a = 9 + ByteTime + ch.tail
    BY <1>7 DEF Age
  <2>2. ~Idle(ch2) /\ ch2.state # "RDRDATA" /\ ch2.tail <= ch.tail + 1 /\ ch.tail \in Nat /\ ch2.tail \in Nat
    <3>1. CASE ch.state \in Early \ Reading
      <4>1. ch2.state \in Early
        BY <1>1, <3>1, ChainFields, NextStates DEF Begins, Leaves, Early, Reading, Between, Pause
      <4>2. ch.tail = 0 /\ ch2.tail \in {0, 1}
        BY <1>1, <3>1, <4>1 DEF TailInv, Local, Reading
      <4> QED
        BY <4>1, <4>2, StateSets DEF Idle
    <3>2. CASE ch.state \in Reading
      <4>1. ch.tail \in {0, 1} /\ ch2.tail = 0
        <5>1. drdy => ~Tailing(ch)
          BY DEF Edge
        <5> QED
          BY <1>1, <1>7, <3>2, <5>1, TailKept DEF TailInv, Early, Reading
      <4>2. ch2.state = ch.state \/ Leaves(ch.state, ch2.state)
        BY <1>1, <3>2, TransferCounts
      <4>3. ch2.state # "RDRDATA"
        BY <1>7, <4>2 DEF Leaves
      <4>4. ~Idle(ch2)
        BY <3>2, <4>2, StateSets, TransferIsOver DEF Idle
      <4> QED
        BY <4>1, <4>3, <4>4
    <3>3. CASE ch.state \in Between
      <4>1. Tailing(ch)
        BY <1>7, <3>3 DEF Idle
      <4>2. ~ch.flagHp
        BY <1>1, ChainFields
      <4>3. ch2.state = ch.state /\ Tailing(ch2)
        BY <3>3, <4>1, <4>2, TailGoesOn
      <4>4. /\ TailEnd(ch) \in 20 .. 23 /\ ch.tail \in 0 .. TailEnd(ch) + 1
            /\ ch2.tail = IF ch.tail <= TailEnd(ch) THEN ch.tail + 1 ELSE ch.tail
        <5>1. drdy => ~Tailing(ch)
          BY DEF Edge
        <5> QED
          BY <1>1, <3>3, <5>1, BetweenMoves
      <4> QED
        BY <1>7, <4>3, <4>4 DEF Idle
    <3> QED
      BY <1>1, <3>1, <3>2, <3>3, StateSets
  <2>3. a2 = 9 + ByteTime + ch2.tail
    BY <2>2 DEF Age
  <2> HIDE DEF a, a2
  <2> QED
    BY <1>1, <2>1, <2>2, <2>3 DEF a, a2
<1> QED
  BY <1>4, <1>5, <1>6, <1>7

-----------------------------------------------------------------------------
\* Sequences of a frame's bytes.
PieceBytes(c, f) == {<<c, f, j>> : j \in Int}

LEMMA PieceSeq ==
  ASSUME NEW c, NEW f, NEW lo \in Int, NEW n \in Nat
  PROVE  /\ Piece(c, f, lo, n) \in Seq(PieceBytes(c, f)) /\ Len(Piece(c, f, lo, n)) = n
         /\ \A k \in 1 .. n : Piece(c, f, lo, n)[k] = <<c, f, lo + k - 1>>
<1> DEFINE S == PieceBytes(c, f)
           p == Piece(c, f, lo, n)
<1>1. ASSUME NEW k \in 1 .. n PROVE <<c, f, lo + k - 1>> \in S
  <2>1. lo + k - 1 \in Int
    OBVIOUS
  <2> QED
    BY <2>1 DEF PieceBytes
<1> HIDE DEF S
<1>2. p \in [1 .. n -> S]
  BY <1>1 DEF Piece
<1>3. p \in Seq(S)
  BY <1>2, SeqDef
<1>4. DOMAIN p = 1 .. n
  BY <1>2
<1>5. Len(p) = n
  BY <1>3, <1>4, LenProperties
<1> QED
  BY <1>3, <1>5 DEF Piece, S

LEMMA PieceAppend ==
  ASSUME NEW c, NEW f, NEW n \in Nat
  PROVE  Append(Piece(c, f, 0, n), <<c, f, n>>) = Piece(c, f, 0, n + 1)
<1> DEFINE S == PieceBytes(c, f)
           u == Piece(c, f, 0, n)
           v == Piece(c, f, 0, n + 1)
           e == <<c, f, n>>
           x == Append(u, e)
<1>1. u \in Seq(S) /\ Len(u) = n /\ \A k \in 1 .. n : u[k] = <<c, f, 0 + k - 1>>
  BY PieceSeq
<1>2. n + 1 \in Nat
  OBVIOUS
<1>3. v \in Seq(S) /\ Len(v) = n + 1 /\ \A k \in 1 .. n + 1 : v[k] = <<c, f, 0 + k - 1>>
  BY <1>2, PieceSeq
<1>4. e \in S
  BY DEF PieceBytes
<1> HIDE DEF S, u, v
<1>5. x \in Seq(S) /\ Len(x) = n + 1 /\ x[n + 1] = e /\ \A k \in 1 .. n : x[k] = u[k]
  <2> HIDE DEF e
  <2> QED
    BY <1>1, <1>4, AppendProperties
<1> HIDE DEF x
<1>6. ASSUME NEW k \in 1 .. n + 1 PROVE x[k] = v[k]
  <2>1. CASE k = n + 1
    <3>1. v[n + 1] = <<c, f, 0 + (n + 1) - 1>> /\ 0 + (n + 1) - 1 = n
      BY <1>3
    <3> QED
      BY <1>5, <2>1, <3>1
  <2>2. CASE k \in 1 .. n
    BY <1>1, <1>3, <1>5, <2>2
  <2> QED
    BY <2>1, <2>2
<1> QED
  BY <1>3, <1>5, <1>6, SeqEqual DEF x, u, v, e

\* A word leaves.
LEMMA PieceWord ==
  ASSUME NEW c, NEW f, NEW lo \in Int, NEW n \in Nat, n >= 4
  PROVE  /\ SubSeq(Piece(c, f, lo, n), 5, n) = Piece(c, f, lo + 4, n - 4)
         /\ SubSeq(Piece(c, f, lo, n), 1, 4) = [i \in 1 .. 4 |-> <<c, f, lo + i - 1>>]
<1> DEFINE S == PieceBytes(c, f)
           u == Piece(c, f, lo, n)
           v == Piece(c, f, lo + 4, n - 4)
           w == Piece(c, f, lo, 4)
           x == SubSeq(u, 5, n)
           y == SubSeq(u, 1, 4)
<1>1. u \in Seq(S) /\ Len(u) = n /\ \A k \in 1 .. n : u[k] = <<c, f, lo + k - 1>>
  BY PieceSeq
<1>2. n - 4 \in Nat /\ lo + 4 \in Int /\ 4 \in Nat
  OBVIOUS
<1>3. v \in Seq(S) /\ Len(v) = n - 4 /\ \A k \in 1 .. n - 4 : v[k] = <<c, f, (lo + 4) + k - 1>>
  BY <1>2, PieceSeq
<1>4. w \in Seq(S) /\ Len(w) = 4 /\ \A k \in 1 .. 4 : w[k] = <<c, f, lo + k - 1>>
  <2> DEFINE m == 4
             p == Piece(c, f, lo, m)
  <2>1. m \in Nat
    OBVIOUS
  <2> HIDE DEF m
  <2>2. p \in Seq(S) /\ Len(p) = m /\ \A k \in 1 .. m : p[k] = <<c, f, lo + k - 1>>
    BY <2>1, PieceSeq
  <2> QED
    BY <2>2 DEF m
<1>5. w = [i \in 1 .. 4 |-> <<c, f, lo + i - 1>>]
  BY DEF Piece
<1>6. \A k \in 1 .. n : u[k] \in S
  <2> HIDE DEF S, u
  <2> QED
    BY <1>1, ElementOfSeq
<1> HIDE DEF S, u, v, w
<1>7. x \in Seq(S) /\ Len(x) = n - 4 /\ \A k \in 1 .. n - 4 : x[k] = u[k + 4]
  <2>1. \A k \in 5 .. n : u[k] \in S
    BY <1>6
  <2>2. /\ x \in Seq(S) /\ Len(x) = (IF 5 <= n THEN n - 5 + 1 ELSE 0)
        /\ \A k \in 1 .. n - 5 + 1 : x[k] = u[5 + k - 1]
    BY <1>1, <2>1, SubSeqProperties
  <2>3. n - 5 + 1 = n - 4 /\ \A k \in Int : 5 + k - 1 = k + 4
    OBVIOUS
  <2> HIDE DEF x
  <2> QED
    BY <2>2, <2>3
<1>8. y \in Seq(S) /\ Len(y) = 4 /\ \A k \in 1 .. 4 : y[k] = u[k]
  <2>1. \A k \in 1 .. 4 : u[k] \in S
    BY <1>6
  <2>2. /\ y \in Seq(S) /\ Len(y) = (IF 1 <= 4 THEN 4 - 1 + 1 ELSE 0)
        /\ \A k \in 1 .. 4 - 1 + 1 : y[k] = u[1 + k - 1]
    BY <1>1, <2>1, SubSeqProperties
  <2> HIDE DEF y
  <2> QED
    BY <2>2
<1> HIDE DEF x, y
<1>9. ASSUME NEW k \in 1 .. n - 4 PROVE x[k] = v[k]
  <2>1. k + 4 \in 1 .. n /\ lo + (k + 4) - 1 = (lo + 4) + k - 1
    OBVIOUS
  <2> QED
    BY <1>1, <1>3, <1>7, <2>1
<1>10. x = v
  BY <1>3, <1>7, <1>9, SeqEqual
<1>11. ASSUME NEW k \in 1 .. 4 PROVE y[k] = w[k]
  <2>1. k \in 1 .. n
    OBVIOUS
  <2> QED
    BY <1>1, <1>4, <1>8, <2>1
<1>12. y = w
  BY <1>4, <1>8, <1>11, SeqEqual
<1> QED
  BY <1>5, <1>10, <1>12 DEF x, y, u, v, w

\* A word that does not.
LEMMA PieceWhole ==
  ASSUME NEW c, NEW f, NEW lo \in Int, NEW n \in Nat
  PROVE  SubSeq(Piece(c, f, lo, n), 1, n) = Piece(c, f, lo, n)
<1> DEFINE S == PieceBytes(c, f)
           u == Piece(c, f, lo, n)
           x == SubSeq(u, 1, n)
<1>1. u \in Seq(S) /\ Len(u) = n
  BY PieceSeq
<1> HIDE DEF S, u
<1>2. \A k \in 1 .. n : u[k] \in S
  BY <1>1, ElementOfSeq
<1>3. /\ x \in Seq(S) /\ Len(x) = (IF 1 <= n THEN n - 1 + 1 ELSE 0)
      /\ \A k \in 1 .. n - 1 + 1 : x[k] = u[1 + k - 1]
  BY <1>1, <1>2, SubSeqProperties
<1> HIDE DEF x
<1>4. Len(x) = n /\ \A k \in 1 .. n : x[k] = u[k]
  <2>1. n - 1 + 1 = n /\ \A k \in Int : 1 + k - 1 = k
    OBVIOUS
  <2> QED
    BY <1>3, <2>1
<1>5. x = u
  BY <1>1, <1>3, <1>4, SeqEqual
<1> QED
  BY <1>5 DEF x, u

-----------------------------------------------------------------------------
\* A byte that is written belongs to the frame, so the FIFO has room for it.
LEMMA IndexFits ==
  ASSUME Unhurried, NEW ch, NEW f, NEW i, Local(ch, f, i)
  PROVE  /\ i \in Nat /\ One(ch.wen) \in 0 .. 1 /\ i + One(ch.wen) <= 4 * Words(f)
         /\ ch.wen => ~Idle(ch)
<1> DEFINE one == One(ch.wen)
<1>0. one \in 0 .. 1 /\ (~ch.wen => one = 0)
  BY DEF One
<1>1. /\ TransferInv(ch) /\ DepInv(ch, f) /\ TailInv(ch) /\ IndexInv(ch, f, i) /\ FrameInv(ch, f)
      /\ i \in Nat /\ ch.state \in {"IDEL"} \cup Pause \cup Reading
  BY DEF Local, IndexInv
<1>2. Words(f) \in Nat /\ Bytes(f) + 7 <= 4 * Words(f) /\ Bytes(f) \in Nat \ {0}
  BY WordsType, BytesType
<1>3. CASE ch.state \in Early \ Reading
  <2>1. i = Before(ch.state) /\ ~ch.wen /\ f = 0
    BY <1>1, <1>3 DEF IndexInv, DepInv, FrameInv
  <2>2. Before(ch.state) <= Bytes(0)
    BY RegByteType DEF Before, Bytes
  <2> DEFINE w == Words(f)
             by == Bytes(f)
             bf == Before(ch.state)
  <2>3. i = bf /\ bf <= by /\ by + 7 <= 4 * w /\ w \in Nat /\ by \in Nat
    BY <1>2, <2>1, <2>2
  <2>4. one = 0 /\ ~ch.wen
    BY <1>0, <2>1
  <2> HIDE DEF w, by, bf, one
  <2>5. i + one <= 4 * w
    BY <1>1, <2>3, <2>4
  <2> QED
    BY <1>0, <1>1, <2>4, <2>5 DEF one, w
<1>4. CASE ch.state \in Reading
  <2> DEFINE n == RegByte[ch.state]
             k == ch.byteCnt
             bf == Before(ch.state)
             by == Bytes(f)
             w == Words(f)
  <2>1. i + one = ch.depCnt
    BY <1>1, <1>4 DEF IndexInv
  <2>2. ch.depCnt = bf + (IF k = 0 THEN 0 ELSE k - 1)
    BY <1>1, <1>4 DEF DepInv
  <2>3. k \in 0 .. n + 1 /\ n \in Nat \ {0}
    BY <1>1, <1>4, BeforeFits DEF TransferInv
  <2>4. bf \in Nat /\ bf + n <= by
    <3>1. f = (IF ch.state = "RDRDATA" THEN f ELSE 0) /\ (ch.state = "RDRDATA" => f \in {1, 2})
      BY <1>1, <1>4 DEF FrameInv, Early, Reading
    <3> QED
      BY <1>4, <3>1, RegByteType DEF Reading, Before, Bytes
  <2>6. by \in Nat /\ w \in Nat /\ by + 7 <= 4 * w
    BY <1>2
  <2>7. ~Idle(ch)
    BY <1>4, StateSets DEF Idle
  <2> HIDE DEF n, k, bf, by, w, one
  <2>8. i + one <= 4 * w
    BY <1>0, <1>1, <2>1, <2>2, <2>3, <2>4, <2>6
  <2> QED
    BY <1>0, <1>1, <2>7, <2>8 DEF w, one
<1>5. CASE ch.state \in Between /\ Tailing(ch)
  <2>1. Tailing(ch)
    BY <1>5
  <2>2. i + one = Bytes(f) + TailBytes(ch.tail) /\ ch.frameDep = Bytes(f)
    BY <1>1, <1>5, <2>1 DEF IndexInv, DepInv
  <2>3. /\ 4 * Words(f) = Bytes(f) + 6 + Supplement(ch)
        /\ Supplement(ch) \in 1 .. 4 /\ TailEnd(ch) = 19 + Supplement(ch)
    BY <1>2, <2>2, FrameCounted, Supplements
  <2>4. ch.tail \in 0 .. TailEnd(ch) + 1
    BY <1>1, <1>5 DEF TailInv
  <2>5. TailBytes(ch.tail) <= 6 + Supplement(ch) /\ TailBytes(ch.tail) \in Nat
    <3> DEFINE t == ch.tail
               E == TailEnd(ch)
               p == Supplement(ch)
    <3>1. p \in 1 .. 4 /\ E = 19 + p /\ t \in 0 .. E + 1
      BY <2>3, <2>4
    <3>2. CASE t <= 19
      <4>1. t <= E /\ t \in 0 .. 23 /\ E \in 20 .. 23
        <5> HIDE DEF t, E, p
        <5> QED
          BY <3>1, <3>2
      <4>2. TailBytes(t) \in Nat
        BY <4>1, TailBytesMove
      <4>3. TailBytes(t) <= 6
        <5>1. \A j \in 2 .. 19 : (j - 1) \div 3 <= 6
          <6>1. \A j \in 1 .. 18 : j \div 3 <= 6
            BY Z3
          <6> TAKE j \in 2 .. 19
          <6> DEFINE m == j - 1
          <6>2. m \in 1 .. 18
            OBVIOUS
          <6> HIDE DEF m
          <6>3. m \div 3 <= 6
            BY <6>1, <6>2
          <6> QED
            BY <6>3 DEF m
        <5> HIDE DEF t, E, p
        <5>2. t <= 1 \/ t \in 2 .. 19
          BY <3>1, <3>2
        <5> QED
          BY <5>1, <5>2 DEF TailBytes
      <4> DEFINE tb == TailBytes(t)
      <4> HIDE DEF t, E, p, tb
      <4>4. tb <= 6 + p
        BY <3>1, <4>2, <4>3 DEF tb
      <4> QED
        BY <4>2, <4>4 DEF tb, t, p
    <3>3. CASE t > 19
      <4>1. TailBytes(t) = t - 14
        <5> HIDE DEF t
        <5>1. ~(t <= 1) /\ ~(t <= 19)
          BY <3>1, <3>3
        <5> QED
          BY <5>1 DEF TailBytes
      <4> DEFINE tb == TailBytes(t)
      <4>2. tb = t - 14
        BY <4>1
      <4> HIDE DEF t, E, p, tb
      <4>3. tb <= 6 + p /\ tb \in Nat
        BY <3>1, <3>3, <4>2
      <4> QED
        BY <4>3 DEF tb, t, p
    <3> QED
      BY <3>1, <3>2, <3>3
  <2> DEFINE w == Words(f)
             by == Bytes(f)
             tb == TailBytes(ch.tail)
             p == Supplement(ch)
  <2>6. i + one = by + tb /\ 4 * w = by + 6 + p /\ tb <= 6 + p /\ tb \in Nat /\ by \in Nat /\ w \in Nat /\ p \in 1 .. 4
    BY <1>2, <2>2, <2>3, <2>5
  <2> HIDE DEF w, by, tb, p, one
  <2>7. i + one <= 4 * w
    BY <1>0, <1>1, <2>6
  <2> QED
    BY <1>0, <1>1, <2>1, <2>7 DEF w, Idle, one
<1>6. CASE ch.state \in Between /\ ~Tailing(ch)
  <2>1. i = 0 /\ ~ch.wen /\ one = 0
    BY <1>0, <1>1, <1>6 DEF IndexInv
  <2>2. 0 <= 4 * Words(f)
    BY <1>2
  <2> HIDE DEF one
  <2>3. i + one <= 4 * Words(f)
    BY <2>1, <2>2
  <2> QED
    BY <1>0, <1>1, <2>1, <2>3 DEF one
<1> QED
  BY <1>1, <1>3, <1>4, <1>5, <1>6, StateSets

LEMMA IndexBound ==
  ASSUME Unhurried, NEW ch, NEW f, NEW i, Local(ch, f, i), ch.wen
  PROVE  i \in Nat /\ i < 4 * Words(f) /\ ~Idle(ch)
<1>1. One(ch.wen) = 1
  BY DEF One
<1>2. i \in Nat /\ i + One(ch.wen) <= 4 * Words(f) /\ ~Idle(ch)
  BY IndexFits
<1>3. PICK w \in Nat : w = Words(f)
  BY WordsType
<1>4. i + 1 <= 4 * w
  BY <1>1, <1>2, <1>3
<1>5. i < 4 * w
  BY <1>2, <1>3, <1>4
<1> QED
  BY <1>2, <1>3, <1>5

\* An edge of sys_clk for a chain, and for the finish flag's flip-flops.
Ticks(ch, f, i, drdy, ch2, f2, i2, b, b2, r) ==
  /\ Edge(ch, f, i, drdy, b[3], ch2, f2, i2) /\ Local(ch, f, i)
  /\ b2 = <<r.finish, b[1], b[2]>>

\* An edge of sys_clk, for a chain whose flag is up: it stays there until the
\* finish flag's fall arrives.
LEMMA HeldAges ==
  ASSUME Unhurried, NEW c, NEW ch, NEW f, NEW i, NEW drdy, NEW ch2, NEW f2, NEW i2, NEW b, NEW b2,
         NEW r, Ticks(ch, f, i, drdy, ch2, f2, i2, b, b2, r), Held(c, ch, r, b)
  PROVE  /\ ch2.flag <=> ~(ch.finish0 /\ ~b[3])
         /\ ch2.finish0 <=> b[3]
         /\ ch.finish0 /\ ~b[3] => Age(ch2, i2, b2) = 4
         /\ Age(ch, i, b) \in Nat /\ Age(ch2, i2, b2) \in Nat
         /\ Age(ch2, i2, b2) <= Age(ch, i, b) + 1
         /\ Age(ch, i, b) = 0 /\ r.finish => Age(ch2, i2, b2) = 0
<1>0. Edge(ch, f, i, drdy, b[3], ch2, f2, i2) /\ Local(ch, f, i)
  BY DEF Ticks
<1>1. Idle(ch) /\ ch.flag
  BY DEF Held
<1>2. Idle(ch2) /\ ~ch.flagHp
  BY <1>0, <1>1, IdleGoesOn
<1>3. b2[1] = r.finish /\ b2[2] = b[1] /\ b2[3] = b[2]
  BY DEF Ticks
<1>4. (ch2.flag <=> ~(ch.finish0 /\ ~b[3])) /\ (ch2.finish0 <=> b[3])
  <2>1. ch2 = ChainEdge(ch, drdy, b[3])
    BY <1>0 DEF Edge
  <2> QED
    BY <1>1, <1>2, <2>1, ChainFields
<1>5. Age(ch, i, b) = IF ch.finish0 /\ ~b[3] THEN 3 ELSE IF b[3] /\ ~b[2] THEN 2
                      ELSE IF b[2] /\ ~b[1] THEN 1 ELSE 0
  BY <1>1 DEF Age
<1>6. Age(ch2, i2, b2) = IF ch.finish0 /\ ~b[3] THEN 4
                         ELSE IF b[3] /\ ~b[2] THEN 3 ELSE IF b[2] /\ ~b[1] THEN 2
                         ELSE IF b[1] /\ ~r.finish THEN 1 ELSE 0
  <2>1. CASE ch.finish0 /\ ~b[3]
    BY <1>2, <1>4, <2>1 DEF Age
  <2>2. CASE ~(ch.finish0 /\ ~b[3])
    <3>1. Age(ch2, i2, b2) = IF ch2.finish0 /\ ~b2[3] THEN 3 ELSE IF b2[3] /\ ~b2[2] THEN 2
                             ELSE IF b2[2] /\ ~b2[1] THEN 1 ELSE 0
      BY <1>4, <2>2 DEF Age
    <3> QED
      BY <1>3, <1>4, <2>2, <3>1
  <2> QED
    BY <2>1, <2>2
<1> DEFINE a == Age(ch, i, b)
           a2 == Age(ch2, i2, b2)
<1>7. a \in Nat /\ a2 \in Nat /\ a2 <= a + 1 /\ (a = 0 /\ r.finish => a2 = 0)
  <2> HIDE DEF a, a2
  <2>1. a = IF ch.finish0 /\ ~b[3] THEN 3 ELSE IF b[3] /\ ~b[2] THEN 2
            ELSE IF b[2] /\ ~b[1] THEN 1 ELSE 0
    BY <1>5 DEF a
  <2>2. a2 = IF ch.finish0 /\ ~b[3] THEN 4
             ELSE IF b[3] /\ ~b[2] THEN 3 ELSE IF b[2] /\ ~b[1] THEN 2
             ELSE IF b[1] /\ ~r.finish THEN 1 ELSE 0
    BY <1>6 DEF a2
  <2> QED
    BY <2>1, <2>2
<1>8. ch.finish0 /\ ~b[3] => Age(ch2, i2, b2) = 4
  BY <1>6
<1> QED
  BY <1>4, <1>7, <1>8

LEMMA HeldMoves ==
  ASSUME Unhurried, NEW c, NEW ch, NEW f, NEW i, NEW drdy, NEW ch2, NEW f2, NEW i2, NEW b, NEW b2,
         NEW r, Ticks(ch, f, i, drdy, ch2, f2, i2, b, b2, r), Held(c, ch, r, b)
  PROVE  /\ Held(c, ch2, r, b2) \/ Fallen(c, ch2, i2, r, b2, 0)
         /\ Idle(ch2) /\ i = 0 /\ i2 = 0 /\ f2 = f /\ ~ch.wen
         /\ NoFall(ch.finish0, b, r.finish) => ch2.flag /\ NoFall(ch2.finish0, b2, r.finish)
<1>0. Edge(ch, f, i, drdy, b[3], ch2, f2, i2) /\ Local(ch, f, i)
  BY DEF Ticks
<1>1. /\ Idle(ch) /\ ch.flag /\ r.s0[c] /\ r.s1[c] /\ r.s2[c] /\ OneFall(ch.finish0, b, r.finish)
  BY DEF Held
<1>2. Idle(ch2) /\ i2 = 0 /\ i = 0 /\ f2 = f /\ ~ch.wen
  BY <1>0, <1>1, IdleGoesOn
<1>3. b2[1] = r.finish /\ b2[2] = b[1] /\ b2[3] = b[2]
  BY DEF Ticks
<1>4. /\ ch2.flag <=> ~(ch.finish0 /\ ~b[3])
      /\ ch2.finish0 <=> b[3]
      /\ ch.finish0 /\ ~b[3] => Age(ch2, i2, b2) = 4
  BY HeldAges
<1>5. /\ ch.finish0 /\ ~b[3] => (b[2] => b[1]) /\ (b[1] => r.finish)
      /\ b[3] /\ ~b[2] => (b[1] => r.finish)
  BY <1>1 DEF OneFall
<1>6. Held(c, ch2, r, b2) \/ Fallen(c, ch2, i2, r, b2, 0)
  <2>1. CASE ch.finish0 /\ ~b[3]
    <3>1. NoFall(ch2.finish0, b2, r.finish)
      BY <1>3, <1>4, <1>5, <2>1 DEF NoFall
    <3> QED
      BY <1>1, <1>4, <2>1, <3>1 DEF Fallen
  <2>2. CASE ~(ch.finish0 /\ ~b[3])
    <3>1. OneFall(ch2.finish0, b2, r.finish)
      BY <1>3, <1>4, <1>5 DEF OneFall
    <3> QED
      BY <1>1, <1>2, <1>4, <2>2, <3>1 DEF Held
  <2> QED
    BY <2>1, <2>2
<1>7. NoFall(ch.finish0, b, r.finish) => ch2.flag /\ NoFall(ch2.finish0, b2, r.finish)
  BY <1>3, <1>4 DEF NoFall
<1> QED
  BY <1>2, <1>6, <1>7

\* For one whose flag is down, and not about to rise.
LEMMA FallenMoves ==
  ASSUME Unhurried, NEW c, NEW ch, NEW f, NEW i, NEW drdy, NEW ch2, NEW f2, NEW i2, NEW b, NEW b2,
         NEW r, NEW e \in Nat \ {0},
         Ticks(ch, f, i, drdy, ch2, f2, i2, b, b2, r), Fallen(c, ch, i, r, b, e), ~ch.flagHp
  PROVE  /\ Fallen(c, ch2, i2, r, b2, 0) /\ f2 = f
         /\ Age(ch2, i2, b2) <= Age(ch, i, b) + 1
         /\ Age(ch2, i2, b2) \in Nat
<1>0. Edge(ch, f, i, drdy, b[3], ch2, f2, i2) /\ Local(ch, f, i)
  BY DEF Ticks
<1> DEFINE a == Age(ch, i, b)
           a2 == Age(ch2, i2, b2)
<1>1. ~ch.flag /\ NoFall(ch.finish0, b, r.finish)
  BY DEF Fallen
<1>2. ch2 = ChainEdge(ch, drdy, b[3]) /\ f2 = f /\ Local(ch2, f2, i2)
  BY <1>0, LocalKept DEF Edge
<1>3. ~ch2.flag /\ (ch2.finish0 <=> b[3])
  BY <1>1, <1>2, ChainFields
<1>4. a2 <= a + 1 /\ (a = 4 => a2 \in {4, 5}) /\ (a = 5 => a2 = 6)
  BY <1>0, <1>1, <1>3, AgeMoves
<1>5. a2 \in Nat /\ a \in Nat
  BY <1>0, <1>1, <1>2, <1>3, AgeValue
<1>6. b2[1] = r.finish /\ b2[2] = b[1] /\ b2[3] = b[2]
  BY DEF Ticks
<1>7. NoFall(ch2.finish0, b2, r.finish)
  BY <1>1, <1>3, <1>6 DEF NoFall
<1>8. /\ r.s0[c] => r.s1[c] /\ a = 4 /\ e = 0
      /\ r.s1[c] => r.s2[c] /\ (a = 4 \/ (a = 5 /\ e = 0))
      /\ r.s2[c] => a \in {4, 5} \/ (a = 6 /\ e = 0)
  BY DEF Fallen
<1>9. /\ ~r.s0[c]
      /\ r.s1[c] => r.s2[c] /\ (a2 = 4 \/ (a2 = 5 /\ 0 = 0))
      /\ r.s2[c] => a2 \in {4, 5} \/ (a2 = 6 /\ 0 = 0)
  <2> HIDE DEF a, a2
  <2> QED
    BY <1>4, <1>5, <1>8
<1> QED
  BY <1>2, <1>3, <1>4, <1>5, <1>7, <1>9 DEF Fallen

\* What is written goes to the end of the queue.
Writes(c, ch, fi, f, i, fi2) ==
  /\ fi2.v1 = fi.v1 /\ fi2.v2 = fi.v2
  /\ fi2.q = IF ch.wen /\ Len(fi.q) < Depth THEN Append(fi.q, <<c, f, i>>) ELSE fi.q

LEMMA QueueWrites ==
  ASSUME Unhurried, NEW c, NEW ch, NEW f, NEW i, NEW fi, NEW fi2, Local(ch, f, i),
         Writes(c, ch, fi, f, i, fi2), fi.q = Piece(c, f, 0, i)
  PROVE  fi2.q = Piece(c, f, 0, IF ch.wen THEN i + 1 ELSE i)
<1>1. CASE ch.wen
  <2>1. i \in Nat /\ i < 4 * Words(f) /\ 4 * Words(f) <= Depth /\ Words(f) \in Nat
    BY <1>1, IndexBound, BytesFit, WordsType
  <2>2. Len(fi.q) = i
    BY <2>1, PieceSeq
  <2>3. i < Depth
    <3> DEFINE w == Words(f)
    <3>1. i \in Nat /\ i < 4 * w /\ 4 * w <= Depth /\ w \in Nat /\ Depth \in Int
      BY <2>1, DepthAssumption
    <3> HIDE DEF w
    <3> QED
      BY <3>1
  <2>4. fi2.q = Append(fi.q, <<c, f, i>>)
    BY <1>1, <2>2, <2>3 DEF Writes
  <2> QED
    BY <1>1, <2>1, <2>4, PieceAppend
<1>2. CASE ~ch.wen
  BY <1>2 DEF Writes
<1> QED
  BY <1>1, <1>2

-----------------------------------------------------------------------------
\* r rd_clk edges a clock: more clocks take longer.
LEMMA Clocks ==
  ASSUME NEW r \in Nat \ {0}, NEW x \in Nat, NEW y \in Nat
  PROVE  /\ r * x \in Nat /\ x <= y => r * x <= r * y
         /\ r * (x + 1) = r * x + r
         /\ r * (x + y) >= r * x + y
<1>1. r * x \in Nat /\ r * y \in Nat /\ r * (x + 1) = r * x + r
  BY Z3
<1>2. r * (x + y) = r * x + r * y
  BY Z3
<1>3. r * y >= y
  BY Z3
<1>4. x <= y => r * x <= r * y
  BY Z3
<1> QED
  BY <1>1, <1>2, <1>3, <1>4

\* The frame flag rises at the end of the tail only.
LEMMA RisesLate ==
  ASSUME NEW ch, NEW f, NEW i, NEW b, Local(ch, f, i), ~ch.flag, ch.flagHp
  PROVE  Age(ch, i, b) >= 30 + ByteTime
<1>1. ch.state \in Between /\ ch.tail = TailEnd(ch) + 1 /\ ch.frameDep \in Nat
  BY DEF Local, TailInv, DepInv
<1>2. TailEnd(ch) \in 20 .. 23
  BY <1>1, TailRange
<1>3. Age(ch, i, b) = 9 + ByteTime + ch.tail
  BY <1>1, AgeValue DEF Tailing
<1> QED
  BY <1>1, <1>2, <1>3, ByteTimeAssumption

\* One or the other, while the flag is not about to rise.
LEMMA TurnMoves ==
  ASSUME Unhurried, NEW c, NEW ch, NEW f, NEW i, NEW drdy, NEW ch2, NEW f2, NEW i2, NEW b, NEW b2,
         NEW r, NEW e \in Nat \ {0}, Ticks(ch, f, i, drdy, ch2, f2, i2, b, b2, r),
         Held(c, ch, r, b) \/ Fallen(c, ch, i, r, b, e), ~ch.flagHp,
         r.finish => ch.flag /\ NoFall(ch.finish0, b, r.finish)
  PROVE  /\ Held(c, ch2, r, b2) \/ Fallen(c, ch2, i2, r, b2, 0)
         /\ Age(ch, i, b) \in Nat /\ Age(ch2, i2, b2) \in Nat
         /\ Age(ch2, i2, b2) <= Age(ch, i, b) + 1
         /\ r.finish => ch2.flag /\ NoFall(ch2.finish0, b2, r.finish)
         /\ i2 > 0 => Age(ch2, i2, b2) >= 9 + ByteTime
<1>0. Edge(ch, f, i, drdy, b[3], ch2, f2, i2) /\ Local(ch, f, i)
  BY DEF Ticks
<1> DEFINE a == Age(ch, i, b)
           a2 == Age(ch2, i2, b2)
<1>1. CASE Held(c, ch, r, b)
  <2>1. Held(c, ch2, r, b2) \/ Fallen(c, ch2, i2, r, b2, 0)
    BY <1>1, HeldMoves
  <2>2. a \in Nat /\ a2 \in Nat /\ a2 <= a + 1
    BY <1>1, HeldAges
  <2>3. r.finish => ch2.flag /\ NoFall(ch2.finish0, b2, r.finish)
    BY <1>1, HeldMoves, ZenonT(60)
  <2>4. i2 = 0
    BY <1>1, HeldMoves
  <2> HIDE DEF a, a2
  <2>5. i2 > 0 => a2 >= 9 + ByteTime
    BY <2>4
  <2> QED
    BY <2>1, <2>2, <2>3, <2>5 DEF a, a2
<1>2. CASE Fallen(c, ch, i, r, b, e)
  <2>1. ~ch.flag
    BY <1>2, Zenon DEF Fallen
  <2>2. Fallen(c, ch2, i2, r, b2, 0) /\ f2 = f /\ a2 <= a + 1 /\ a2 \in Nat
    BY <1>2, FallenMoves
  <2>3. a \in Nat
    BY <1>0, <2>1, AgeValue
  <2>4. ~ch2.flag
    BY <2>2, Zenon DEF Fallen
  <2>5. Local(ch2, f2, i2)
    BY <1>0, LocalKept
  <2>6. i2 > 0 => a2 >= 9 + ByteTime
    BY <1>0, <2>4, <2>5, AgeValue
  <2> QED
    BY <2>1, <2>2, <2>3, <2>6
<1> QED
  BY <1>1, <1>2

LEMMA AgeStarts ==
  ASSUME Unhurried, NEW c, NEW ch, NEW f, NEW i, NEW drdy, NEW ch2, NEW f2, NEW i2, NEW b, NEW b2,
         NEW r, NEW e, Ticks(ch, f, i, drdy, ch2, f2, i2, b, b2, r),
         Held(c, ch, r, b) \/ Fallen(c, ch, i, r, b, e)
  PROVE  Age(ch, i, b) > 0 \/ Age(ch2, i2, b2) = 0 \/ ~r.finish
<1>0. Local(ch, f, i)
  BY DEF Ticks
<1>1. CASE Held(c, ch, r, b)
  BY <1>1, HeldAges
<1>2. CASE Fallen(c, ch, i, r, b, e)
  <2>1. ~ch.flag
    BY <1>2, Zenon DEF Fallen
  <2> QED
    BY <1>0, <2>1, AgeValue
<1> QED
  BY <1>1, <1>2

\* A chain's next byte is not written yet while bytes are left, and the frame
\* flag not up while the reader is at the time stamps.
InTime(r, time, left) ==
  /\ left > 0 => time < RdMin * (8 + ByteTime)
  /\ time < RdMin * (8 + ByteTime) + 14
  /\ ~r.finish => time >= 0

\* While the reader strobes nothing rises, and nothing is written that would
\* follow bytes still left.
LEMMA DrainsMoves ==
  ASSUME Unhurried, NEW c, NEW ch, NEW f, NEW i, NEW drdy, NEW ch2, NEW f2, NEW i2, NEW b, NEW b2,
         NEW r, NEW e \in Nat \ {0}, NEW fi, NEW fi2, NEW g, NEW time \in Int, NEW left \in Nat,
         Ticks(ch, f, i, drdy, ch2, f2, i2, b, b2, r), Writes(c, ch, fi, f, i, fi2), e >= RdMin,
         Drains(c, ch, fi, r, b, e, f, i, g, time, left), InTime(r, time, left)
  PROVE  Drains(c, ch2, fi2, r, b2, 0, f2, i2, g, time, left)
<1>0. Edge(ch, f, i, drdy, b[3], ch2, f2, i2) /\ Local(ch, f, i)
  BY DEF Ticks
<1> DEFINE a == Age(ch, i, b)
           a2 == Age(ch2, i2, b2)
           late == RdMin * (8 + ByteTime)
<1>1. /\ f = NextFrame(g) /\ Queue(c, fi, g, left, f, i)
      /\ (Held(c, ch, r, b) \/ Fallen(c, ch, i, r, b, e))
      /\ r.finish => ch.flag /\ NoFall(ch.finish0, b, r.finish)
      /\ a > 0 => time >= RdMin * (a - 1) + e
      /\ left = 0 /\ fi.v1 > 0 => time >= late + 1
      /\ left = 0 /\ fi.v2 > 0 => time >= late + 2
  BY DEF Drains
<1>a. (left > 0 => time < late) /\ time < late + 14 /\ (~r.finish => time >= 0)
  BY DEF InTime
<1>2. RdMin \in Nat \ {0} /\ ByteTime \in Nat \ {0} /\ late \in Nat /\ i \in Nat /\ ch.wen \in BOOLEAN
  <2>1. RdMin \in Nat \ {0} /\ ByteTime \in Nat \ {0} /\ 8 + ByteTime \in Nat
    BY RatioAssumption, ByteTimeAssumption
  <2>2. i \in Nat /\ ch.wen \in BOOLEAN
    BY <1>0 DEF Local, IndexInv
  <2> QED
    BY <2>1, <2>2, Clocks
<1>3. ~ch.flagHp
  <2>1. CASE Held(c, ch, r, b)
    BY <1>0, <2>1, IdleGoesOn DEF Held
  <2>2. CASE Fallen(c, ch, i, r, b, e)
    <3>1. SUFFICES ASSUME ch.flagHp PROVE FALSE
      OBVIOUS
    <3>2. a \in Nat /\ a >= 30 + ByteTime
      BY <1>0, <2>2, <3>1, RisesLate, AgeValue DEF Fallen
    <3>3. time >= RdMin * (a - 1) + e
      BY <1>1, <1>2, <3>2
    <3>4. PICK n \in Nat : a - 1 = n /\ n >= 29 + ByteTime
      <4> HIDE DEF a
      <4> QED
        BY <1>2, <3>2
    <3>5. RdMin * n >= RdMin * (29 + ByteTime) /\ RdMin * (29 + ByteTime) >= late + 21
      <4>1. 29 + ByteTime \in Nat /\ 8 + ByteTime \in Nat /\ 29 + ByteTime = (8 + ByteTime) + 21
        BY <1>2
      <4> QED
        BY <1>2, <3>4, <4>1, Clocks
    <3>6. RdMin * n \in Nat /\ RdMin * (29 + ByteTime) \in Nat
      <4>1. 29 + ByteTime \in Nat
        BY <1>2
      <4> QED
        BY <1>2, <3>4, <4>1, Clocks
    <3> HIDE DEF late, a
    <3>7. time >= RdMin * n + e
      BY <3>3, <3>4
    <3> DEFINE x == RdMin * n
               y == RdMin * (29 + ByteTime)
    <3> HIDE DEF x, y
    <3>8. time >= x + e /\ x >= y /\ y >= late + 21 /\ x \in Nat /\ y \in Nat /\ time < late + 14
      BY <1>a, <3>5, <3>6, <3>7 DEF x, y, late
    <3> QED
      BY <1>2, <3>8
  <2> QED
    BY <1>1, <2>1, <2>2
<1>4. f2 = f /\ i2 = (IF ch.wen THEN i + 1 ELSE i)
  BY <1>0, <1>3 DEF Edge
<1>5. /\ Held(c, ch2, r, b2) \/ Fallen(c, ch2, i2, r, b2, 0)
      /\ a \in Nat /\ a2 \in Nat /\ a2 <= a + 1
      /\ a > 0 \/ a2 = 0 \/ ~r.finish
      /\ r.finish => ch2.flag /\ NoFall(ch2.finish0, b2, r.finish)
      /\ i2 > 0 => a2 >= 9 + ByteTime
  <2>1. /\ Held(c, ch, r, b) \/ Fallen(c, ch, i, r, b, e)
        /\ r.finish => ch.flag /\ NoFall(ch.finish0, b, r.finish)
    BY <1>1
  <2>2. Held(c, ch2, r, b2) \/ Fallen(c, ch2, i2, r, b2, 0)
    BY <1>3, <2>1, TurnMoves
  <2>3. a \in Nat /\ a2 \in Nat /\ a2 <= a + 1
    BY <1>3, <2>1, TurnMoves
  <2>4. a > 0 \/ a2 = 0 \/ ~r.finish
    BY <2>1, AgeStarts
  <2>5. r.finish => ch2.flag /\ NoFall(ch2.finish0, b2, r.finish)
    BY <1>3, <2>1, TurnMoves
  <2>6. i2 > 0 => a2 >= 9 + ByteTime
    BY <1>3, <2>1, TurnMoves
  <2> QED
    BY <2>2, <2>3, <2>4, <2>5, <2>6
<1>6. a2 > 0 => time >= RdMin * (a2 - 1)
  <2>1. SUFFICES ASSUME a2 > 0 PROVE time >= RdMin * (a2 - 1)
    OBVIOUS
  <2> HIDE DEF a, a2
  <2>2. PICK n \in Nat : n = a2 - 1 /\ n <= a
    BY <1>5, <2>1
  <2>3. CASE a = 0
    <3>1. n = 0 /\ time >= 0
      BY <1>5, <1>a, <2>1, <2>2, <2>3
    <3>2. RdMin * n = 0
      BY <1>2, <3>1
    <3> QED
      BY <2>2, <3>1, <3>2
  <2>4. CASE a > 0
    <3>1. PICK m \in Nat : m = a - 1 /\ a = m + 1
      BY <1>5, <2>4
    <3>2. time >= RdMin * m + e
      BY <1>1, <2>4, <3>1
    <3>3. RdMin * (m + 1) = RdMin * m + RdMin /\ RdMin * m \in Nat
      BY <1>2, Clocks
    <3>4. RdMin * n <= RdMin * (m + 1) /\ RdMin * n \in Nat
      BY <1>2, <2>2, <3>1, Clocks
    <3> DEFINE x == RdMin * m
               y == RdMin * n
               z == RdMin * (m + 1)
    <3>5. time >= x + e /\ z = x + RdMin /\ y <= z /\ x \in Nat /\ y \in Nat
      BY <3>2, <3>3, <3>4
    <3> HIDE DEF x, y, z
    <3>6. time >= y
      BY <1>2, <3>5
    <3> QED
      BY <2>2, <3>6 DEF y
  <2> QED
    BY <1>5, <2>3, <2>4
<1>7. left > 0 => i2 = 0
  <2>1. SUFFICES ASSUME left > 0, i2 # 0 PROVE FALSE
    OBVIOUS
  <2>2. i2 > 0
    BY <1>2, <1>4, <2>1
  <2> HIDE DEF a, a2
  <2>3. PICK n \in Nat : n = a2 - 1 /\ 8 + ByteTime <= n
    BY <1>2, <1>5, <2>2
  <2>4. time >= RdMin * n
    BY <1>2, <1>5, <1>6, <2>2, <2>3
  <2>5. late <= RdMin * n /\ RdMin * n \in Nat
    <3>1. 8 + ByteTime \in Nat
      BY <1>2
    <3> QED
      BY <1>2, <2>3, <3>1, Clocks
  <2> DEFINE x == RdMin * n
  <2>6. time >= x /\ late <= x /\ x \in Nat /\ time < late
    BY <1>a, <2>1, <2>4, <2>5
  <2> HIDE DEF x, late
  <2> QED
    BY <1>2, <2>6
<1>8. Queue(c, fi2, g, left, f2, i2)
  <2>1. fi2.v1 = fi.v1 /\ fi2.v2 = fi.v2 /\ fi2.v1 \in Nat /\ fi2.v2 \in Nat
    BY <1>1 DEF Queue, Writes
  <2>2. CASE left > 0
    <3>1. i2 = 0 /\ ~ch.wen
      BY <1>2, <1>4, <1>7, <2>2
    <3>2. fi2.q = fi.q
      BY <3>1 DEF Writes
    <3> QED
      BY <1>1, <2>1, <2>2, <3>1, <3>2 DEF Queue
  <2>3. CASE left = 0
    <3>1. fi.v1 <= i /\ fi.v2 <= fi.v1 /\ fi.q = Piece(c, f, 0, i)
      BY <1>1, <2>3 DEF Queue
    <3>2. fi2.q = Piece(c, f, 0, i2)
      BY <1>0, <1>4, <3>1, QueueWrites
    <3>3. fi2.v1 <= i2 /\ fi2.v2 <= fi2.v1
      BY <1>2, <1>4, <2>1, <3>1
    <3> QED
      BY <1>4, <2>1, <2>3, <3>2, <3>3 DEF Queue
  <2> QED
    BY <2>2, <2>3
<1>9. fi2.v1 = fi.v1 /\ fi2.v2 = fi.v2
  BY DEF Writes
<1>10. a2 > 0 => time >= RdMin * (a2 - 1) + 0
  <2> HIDE DEF a2
  <2>1. SUFFICES ASSUME a2 > 0 PROVE time >= RdMin * (a2 - 1) + 0
    OBVIOUS
  <2>2. PICK n \in Nat : n = a2 - 1
    BY <1>5, <2>1
  <2>3. time >= RdMin * n /\ RdMin * n \in Nat
    BY <1>2, <1>6, <2>1, <2>2, Clocks
  <2>4. RdMin * n + 0 = RdMin * n
    BY <2>3
  <2> QED
    BY <2>2, <2>3, <2>4
<1> QED
  BY <1>1, <1>4, <1>5, <1>8, <1>9, <1>10 DEF Drains

LEMMA QueueMoves ==
  ASSUME Unhurried, NEW c, NEW ch, NEW f, NEW i, NEW drdy, NEW ch2, NEW f2, NEW i2, NEW b, NEW b2,
         NEW r, NEW fi, NEW fi2, NEW g, Ticks(ch, f, i, drdy, ch2, f2, i2, b, b2, r),
         Writes(c, ch, fi, f, i, fi2), Queue(c, fi, g, 0, f, i), ~ch.flagHp
  PROVE  Queue(c, fi2, g, 0, f2, i2)
<1>1. Local(ch, f, i) /\ i \in Nat /\ f2 = f /\ i2 = (IF ch.wen THEN i + 1 ELSE i)
  BY DEF Ticks, Edge, Local, IndexInv
<1>2. fi.v1 \in Nat /\ fi.v2 \in Nat /\ fi.v1 <= i /\ fi.v2 <= fi.v1 /\ fi.q = Piece(c, f, 0, i)
  BY DEF Queue
<1>3. fi2.q = Piece(c, f, 0, i2)
  BY <1>1, <1>2, QueueWrites
<1>4. fi2.v1 = fi.v1 /\ fi2.v2 = fi.v2
  BY DEF Writes
<1>5. fi2.v1 <= i2 /\ fi2.v2 <= fi2.v1
  BY <1>1, <1>2, <1>4
<1> QED
  BY <1>1, <1>2, <1>3, <1>4, <1>5 DEF Queue

\* The chain has its frame, whole, in the FIFO.
LEMMA FrameIsIn ==
  ASSUME Unhurried, NEW c, NEW ch, NEW f, NEW i, NEW drdy, NEW ch2, NEW f2, NEW i2, NEW b, NEW b2,
         NEW r, NEW fi, NEW fi2, NEW g, Ticks(ch, f, i, drdy, ch2, f2, i2, b, b2, r),
         Writes(c, ch, fi, f, i, fi2), Queue(c, fi, g, 0, f, i), ch.flagHp
  PROVE  /\ Idle(ch2) /\ ch2.flag /\ f2 = NextFrame(f) /\ ch2.frameDep = Bytes(f)
         /\ fi2.q = Piece(c, f, 0, 4 * Words(f))
         /\ fi2.v1 \in Nat /\ fi2.v2 \in Nat /\ fi2.v1 <= 4 * Words(f) /\ fi2.v2 <= fi2.v1
<1>0. Edge(ch, f, i, drdy, b[3], ch2, f2, i2) /\ Local(ch, f, i)
  BY DEF Ticks
<1>1. ch.state \in Between /\ Tailing(ch) /\ i \in Nat /\ ch.wen \in BOOLEAN
  BY <1>0 DEF Local, TailInv, IndexInv, Tailing
<1>2. /\ ch2.state = ch.state /\ ~Tailing(ch2)
      /\ i + One(ch.wen) = Bytes(f) + 6 + Supplement(ch)
  BY <1>0, <1>1, TailGoesOn
<1>3. ch.frameDep = Bytes(f)
  BY <1>0, <1>1 DEF Local, DepInv
<1>4. i + One(ch.wen) = 4 * Words(f)
  BY <1>2, <1>3, FrameCounted
<1>5. ch2.frameDep = Bytes(f)
  BY <1>0, <1>1, <1>3, BetweenMoves DEF Edge, Local
<1>6. ch2.flag
  BY <1>0, ChainFields DEF Edge
<1>7. f2 = NextFrame(f) /\ Idle(ch2)
  BY <1>0, <1>1, <1>2 DEF Edge, Idle
<1>8. fi.v1 \in Nat /\ fi.v2 \in Nat /\ fi.v1 <= i /\ fi.v2 <= fi.v1 /\ fi.q = Piece(c, f, 0, i)
  BY DEF Queue
<1>9. fi2.q = Piece(c, f, 0, IF ch.wen THEN i + 1 ELSE i)
  BY <1>0, <1>8, QueueWrites
<1>10. (IF ch.wen THEN i + 1 ELSE i) = 4 * Words(f)
  BY <1>1, <1>4 DEF One
<1>11. fi2.v1 = fi.v1 /\ fi2.v2 = fi.v2 /\ i <= 4 * Words(f)
  <2>1. fi2.v1 = fi.v1 /\ fi2.v2 = fi.v2
    BY DEF Writes
  <2> DEFINE n == 4 * Words(f)
  <2>2. i + One(ch.wen) = n /\ One(ch.wen) \in {0, 1}
    BY <1>4 DEF One
  <2> HIDE DEF n
  <2>3. i <= n
    BY <1>1, <2>2
  <2> QED
    BY <2>1, <2>3 DEF n
<1>12. fi2.v1 <= 4 * Words(f)
  <2> DEFINE n == 4 * Words(f)
  <2>1. i <= n /\ n \in Nat
    BY <1>11, WordsType
  <2> HIDE DEF n
  <2>2. fi2.v1 <= n
    BY <1>1, <1>8, <1>11, <2>1
  <2> QED
    BY <2>2 DEF n
<1> QED
  BY <1>5, <1>6, <1>7, <1>8, <1>9, <1>10, <1>11, <1>12

LEMMA GathersMoves ==
  ASSUME Unhurried, NEW c, NEW ch, NEW f, NEW i, NEW drdy, NEW ch2, NEW f2, NEW i2, NEW b, NEW b2,
         NEW r, NEW e \in Nat \ {0}, NEW fi, NEW fi2, NEW g,
         Ticks(ch, f, i, drdy, ch2, f2, i2, b, b2, r), Writes(c, ch, fi, f, i, fi2),
         Gathers(c, ch, fi, r, b, e, f, i, g)
  PROVE  Gathers(c, ch2, fi2, r, b2, 0, f2, i2, g) \/ Ready(c, ch2, fi2, r, b2, f2, g)
<1>0. Edge(ch, f, i, drdy, b[3], ch2, f2, i2) /\ Local(ch, f, i)
  BY DEF Ticks
<1>1. /\ f = g /\ Queue(c, fi, g, 0, f, i) /\ ~r.fin[c]
      /\ Held(c, ch, r, b) \/ Fallen(c, ch, i, r, b, e)
  BY DEF Gathers
<1>2. CASE ~ch.flagHp
  <2>1. f2 = g /\ Queue(c, fi2, g, 0, f2, i2)
    <3>1. f2 = f
      BY <1>0, <1>2 DEF Edge
    <3> QED
      BY <1>1, <1>2, <3>1, QueueMoves
  <2>2. Held(c, ch2, r, b2) \/ Fallen(c, ch2, i2, r, b2, 0)
    <3>1. CASE Held(c, ch, r, b)
      BY <3>1, HeldMoves
    <3>2. CASE Fallen(c, ch, i, r, b, e)
      BY <1>2, <3>2, FallenMoves
    <3> QED
      BY <1>1, <3>1, <3>2
  <2> QED
    BY <1>1, <2>1, <2>2 DEF Gathers
<1>3. CASE ch.flagHp
  <2>1. ~Held(c, ch, r, b)
    BY <1>0, <1>3, IdleGoesOn DEF Held
  <2>2. Fallen(c, ch, i, r, b, e)
    BY <1>1, <2>1
  <2>3. ~ch.flag /\ NoFall(ch.finish0, b, r.finish)
    BY <2>2, Zenon DEF Fallen
  <2> DEFINE a == Age(ch, i, b)
  <2>4. a >= 30 + ByteTime /\ a \in Nat /\ ByteTime \in Nat
    BY <1>0, <1>3, <2>3, RisesLate, AgeValue, ByteTimeAssumption
  <2>5. ~r.s0[c] /\ ~r.s1[c] /\ ~r.s2[c]
    <3>1. /\ r.s0[c] => a = 4
          /\ r.s1[c] => a = 4 \/ a = 5
          /\ r.s2[c] => a \in {4, 5} \/ a = 6
      BY <2>2 DEF Fallen
    <3> HIDE DEF a
    <3> QED
      BY <2>4, <3>1
  <2>6. NoFall(ch2.finish0, b2, r.finish)
    <3>1. b2[1] = r.finish /\ b2[2] = b[1] /\ b2[3] = b[2]
      BY DEF Ticks
    <3>2. ch2.finish0 <=> b[3]
      BY <1>0, ChainFields DEF Edge
    <3> QED
      BY <2>3, <3>1, <3>2 DEF NoFall
  <2>7. /\ Idle(ch2) /\ ch2.flag /\ f2 = NextFrame(g) /\ ch2.frameDep = Bytes(g)
        /\ fi2.q = Piece(c, g, 0, 4 * Words(g))
        /\ fi2.v1 \in Nat /\ fi2.v2 \in Nat /\ fi2.v1 <= 4 * Words(g) /\ fi2.v2 <= fi2.v1
    BY <1>1, <1>3, FrameIsIn
  <2> QED
    BY <1>1, <2>5, <2>6, <2>7 DEF Ready
<1> QED
  BY <1>2, <1>3

LEMMA ReadyMoves ==
  ASSUME Unhurried, NEW c, NEW ch, NEW f, NEW i, NEW drdy, NEW ch2, NEW f2, NEW i2, NEW b, NEW b2,
         NEW r, NEW fi, NEW fi2, NEW g, Ticks(ch, f, i, drdy, ch2, f2, i2, b, b2, r),
         Writes(c, ch, fi, f, i, fi2), Ready(c, ch, fi, r, b, f, g)
  PROVE  Ready(c, ch2, fi2, r, b2, f2, g)
<1>0. Edge(ch, f, i, drdy, b[3], ch2, f2, i2) /\ Local(ch, f, i)
  BY DEF Ticks
<1>1. Idle(ch) /\ ch.flag /\ NoFall(ch.finish0, b, r.finish) /\ f = NextFrame(g) /\ ch.frameDep = Bytes(g)
  BY DEF Ready
<1>2. Idle(ch2) /\ f2 = f /\ ch2.frameDep = ch.frameDep /\ ~ch.wen /\ ~ch.flagHp
  BY <1>0, <1>1, IdleGoesOn
<1>3. ch2.flag /\ NoFall(ch2.finish0, b2, r.finish)
  <2>1. b2[1] = r.finish /\ b2[2] = b[1] /\ b2[3] = b[2]
    BY DEF Ticks
  <2>2. (ch2.finish0 <=> b[3]) /\ (ch2.flag <=> ~(ch.finish0 /\ ~b[3]))
    BY <1>0, <1>1, <1>2, ChainFields DEF Edge
  <2> QED
    BY <1>1, <2>1, <2>2 DEF NoFall
<1>4. fi2.q = fi.q /\ fi2.v1 = fi.v1 /\ fi2.v2 = fi.v2
  BY <1>2 DEF Writes
<1> QED
  BY <1>1, <1>2, <1>3, <1>4 DEF Ready

-----------------------------------------------------------------------------
\* How late the reader can be: its turn of chain h among M chains of w words,
\* late the time the next frame's first byte takes.
LEMMA TurnTimes ==
  ASSUME NEW w \in Nat \ {0}, NEW h \in Chains, NEW late \in Nat, M * (w + 2) <= late + 4
  PROVE  /\ (h - 1) * (w + 2) \in Nat
         /\ (h - 1) * (w + 2) + w + 2 <= late + 4
         /\ h < M => (h - 1) * (w + 2) + w + 2 <= late + 4 - (w + 2)
         /\ h >= 2 => (h - 1) * (w + 2) >= w + 2
         /\ h = 1 => (h - 1) * (w + 2) = 0
<1>1. M \in 1 .. 8 /\ h \in 1 .. M
  BY MAssumption DEF Chains
<1>2. PICK r \in Nat \ {0} : r = w + 2
  OBVIOUS
<1>3. PICK n \in Nat : n = h - 1
  BY <1>1
<1>4. r * n \in Nat /\ r * (n + 1) = r * n + r /\ r * (n + 2) = r * (n + 1) + r
  <2>1. n + 2 = (n + 1) + 1 /\ n + 1 \in Nat
    OBVIOUS
  <2> QED
    BY <2>1, Clocks
<1>5. r * (n + 1) <= r * M
  BY <1>1, <1>3, Clocks
<1>6. h < M => r * (n + 2) <= r * M
  <2>1. h < M => n + 2 <= M /\ n + 2 \in Nat /\ M \in Nat
    BY <1>1, <1>3
  <2> QED
    BY <2>1, Clocks
<1>7. h >= 2 => r <= r * n
  <2>1. h >= 2 => 1 <= n
    BY <1>1, <1>3
  <2>2. r * 1 = r
    OBVIOUS
  <2> QED
    BY <2>1, <2>2, Clocks
<1>8. h = 1 => r * n = 0
  BY <1>3
<1>9. r * M <= late + 4 /\ r * M \in Nat
  <2>1. r * M = M * r /\ r * M \in Nat
    BY <1>1
  <2> QED
    BY <1>2, <2>1
<1> DEFINE x == r * n
           y == r * (n + 1)
           z == r * (n + 2)
           m == r * M
<1>10. (h - 1) * (w + 2) = x
  BY <1>2, <1>3
<1>11. /\ x \in Nat /\ y = x + r /\ z = y + r /\ m \in Nat /\ m <= late + 4 /\ y <= m
       /\ (h < M => z <= m) /\ (h >= 2 => r <= x) /\ (h = 1 => x = 0)
  BY <1>4, <1>5, <1>6, <1>7, <1>8, <1>9
<1> DEFINE t == (h - 1) * (w + 2)
<1>12. t = x
  BY <1>10
<1> HIDE DEF x, y, z, m, t
<1>13. /\ t \in Nat /\ t + w + 2 <= late + 4
       /\ h < M => t + w + 2 <= late + 4 - (w + 2)
       /\ (h >= 2 => t >= w + 2) /\ (h = 1 => t = 0)
  BY <1>2, <1>11, <1>12
<1> QED
  BY <1>13 DEF t

LEMMA Hurry ==
  ASSUME Unhurried, NEW f
  PROVE  /\ RdMin * (8 + ByteTime) \in Nat
         /\ M * (Words(f) + 2) <= RdMin * (8 + ByteTime) + 4
         /\ M * (Words(f) + 2) \in Nat /\ Words(f) \in Nat \ {0} /\ M \in 1 .. 8
<1>1. RdMin \in Nat \ {0} /\ ByteTime \in Nat /\ M \in 1 .. 8
  BY RatioAssumption, ByteTimeAssumption, MAssumption
<1>2. PICK n \in Nat : n = 8 + ByteTime /\ n = ByteTime + 8
  BY <1>1
<1>3. RdMin * n \in Nat
  BY <1>1, <1>2, Clocks
<1>4. M * (Words(f) + 2) <= RdMin * n + 4
  <2>1. f = 0 \/ Words(f) = Words(1)
    BY DEF Words
  <2> QED
    BY <1>2, <2>1 DEF Unhurried
<1>5. Words(f) \in Nat \ {0}
  BY WordsType
<1>6. M * (Words(f) + 2) \in Nat
  <2>1. PICK k \in Nat : k = Words(f) + 2
    BY <1>5
  <2>2. M * k \in Nat
    BY <1>1
  <2> QED
    BY <2>1, <2>2
<1> QED
  BY <1>1, <1>2, <1>3, <1>4, <1>5, <1>6

\* In every phase of a turn the reader is in time.
LEMMA ReadsInTime ==
  ASSUME Unhurried, NEW r, NEW fi, NEW g, NEW k, NEW h \in Chains, NEW l \in 0 .. Words(g) + 1,
         NEW c \in Chains, Reads(r, fi, g, k, h, l)
  PROVE  /\ (h - 1) * (Words(g) + 2) + l - 2 \in Int
         /\ Left(h, l, c, Words(g)) \in Nat
         /\ InTime(r, (h - 1) * (Words(g) + 2) + l - 2, Left(h, l, c, Words(g)))
<1> DEFINE w == Words(g)
           late == RdMin * (8 + ByteTime)
           t == (h - 1) * (w + 2)
<1>1. w \in Nat \ {0} /\ late \in Nat /\ M * (w + 2) <= late + 4 /\ M \in 1 .. 8
  BY Hurry
<1>2. l \in 0 .. w + 1
  OBVIOUS
<1>3. h \in 1 .. M /\ c \in 1 .. M
  BY DEF Chains
<1>4. r.finish <=> h = 1 /\ l < 2
  BY DEF Reads
<1>5. /\ t \in Nat /\ t + w + 2 <= late + 4
      /\ h < M => t + w + 2 <= late + 4 - (w + 2)
      /\ (h >= 2 => t >= w + 2) /\ (h = 1 => t = 0)
  <2> HIDE DEF w, late
  <2> QED
    BY <1>1, TurnTimes
<1> DEFINE left == Left(h, l, c, w)
<1>6. left = IF c < h THEN 0 ELSE IF c > h \/ l = 0 THEN 4 * w ELSE IF l >= w THEN 0 ELSE 4 * (w - l)
  BY DEF Left
<1> SUFFICES /\ t + l - 2 \in Int /\ left \in Nat
             /\ left > 0 => t + l - 2 < late
             /\ t + l - 2 < late + 14
             /\ ~r.finish => t + l - 2 >= 0
  BY DEF InTime
<1> HIDE DEF w, late, t, left
<1>7. t + l - 2 \in Int /\ left \in Nat /\ t + l - 2 < late + 14
  BY <1>1, <1>2, <1>3, <1>5, <1>6
<1>8. left > 0 => t + l - 2 < late
  BY <1>1, <1>2, <1>3, <1>5, <1>6
<1>9. ~r.finish => t + l - 2 >= 0
  BY <1>1, <1>2, <1>3, <1>4, <1>5
<1> QED
  BY <1>7, <1>8, <1>9

LEMMA EndInTime ==
  ASSUME Unhurried, NEW r, NEW g, NEW n \in 0 .. M + 2, ~r.finish
  PROVE  /\ M * (Words(g) + 2) - 2 + n \in Int
         /\ InTime(r, M * (Words(g) + 2) - 2 + n, 0)
<1> DEFINE w == Words(g)
           late == RdMin * (8 + ByteTime)
           t == M * (w + 2)
<1>1. w \in Nat \ {0} /\ late \in Nat /\ t <= late + 4 /\ t \in Nat /\ M \in 1 .. 8
  BY Hurry
<1>2. t >= w + 2
  <2>1. PICK k \in Nat \ {0} : k = w + 2
    BY <1>1
  <2>2. k * 1 <= k * M /\ k * 1 = k /\ k * M = M * k
    BY <1>1, <2>1, Clocks
  <2> QED
    BY <2>1, <2>2
<1> SUFFICES t - 2 + n \in Int /\ t - 2 + n < late + 14 /\ t - 2 + n >= 0
  BY DEF InTime
<1> HIDE DEF w, late, t
<1> QED
  BY <1>1, <1>2

-----------------------------------------------------------------------------
\* An edge of sys_clk as chain c sees it.
LEMMA ChainTicks ==
  ASSUME ShapeInv, LocalInv, NEW D \in SUBSET Awaiting, WrEdge(D), NEW c \in Chains
  PROVE  /\ Ticks(chain[c], frame[c], index[c], c \in D,
                  chain'[c], frame'[c], index'[c], back, back', reader)
         /\ Writes(c, chain[c], fifo[c], frame[c], index[c], fifo'[c])
         /\ fifo'[c].valid = fifo[c].valid /\ fifo'[c].dout = fifo[c].dout
         /\ DOMAIN fifo'[c] = FifoFields
<1>1. /\ chain'[c] = ChainEdge(chain[c], c \in D, back[3])
      /\ fifo'[c] = Write(c)
      /\ back' = <<reader.finish, back[1], back[2]>>
      /\ index'[c] = IF chain[c].flagHp THEN 0
                     ELSE IF chain[c].wen THEN index[c] + 1 ELSE index[c]
      /\ frame'[c] = IF chain[c].flagHp THEN NextFrame(frame[c]) ELSE frame[c]
  BY DEF WrEdge
<1>2. c \in D => chain[c].state \notin Reading \cup {"IDEL"} /\ ~Tailing(chain[c])
  BY DEF Awaiting
<1>3. Ticks(chain[c], frame[c], index[c], c \in D,
            chain'[c], frame'[c], index'[c], back, back', reader)
  <2>1. Local(chain[c], frame[c], index[c])
    BY DEF LocalInv
  <2> QED
    BY <1>1, <1>2, <2>1 DEF Ticks, Edge
<1>4. DOMAIN fifo[c] = FifoFields
  BY DEF ShapeInv
<1>5. Write(c) = IF chain[c].wen /\ Len(fifo[c].q) < Depth
                   THEN [fifo[c] EXCEPT !.q = Append(fifo[c].q, <<c, frame[c], index[c]>>)]
                   ELSE fifo[c]
  BY DEF Write
<1> QED
  BY <1>1, <1>3, <1>4, <1>5 DEF Writes, FifoFields

\* An edge of sys_clk keeps the invariant.
LEMMA WrEdgeKeeps ==
  ASSUME Unhurried, IInv, NEW D \in SUBSET Awaiting, WrEdge(D)
  PROVE  IInv'
<1>1. ShapeInv /\ LocalInv /\ PhaseInv
  BY DEF IInv
<1>2. reader' = reader /\ turn' = turn /\ at' = at /\ rdEdges' = 0
  BY DEF WrEdge
<1>3. rdEdges \in Nat \ {0} /\ rdEdges >= RdMin
  BY <1>1, RatioAssumption DEF ShapeInv, WrEdge
<1>4. ASSUME NEW c \in Chains
      PROVE  /\ Ticks(chain[c], frame[c], index[c], c \in D,
                      chain'[c], frame'[c], index'[c], back, back', reader)
             /\ Writes(c, chain[c], fifo[c], frame[c], index[c], fifo'[c])
             /\ fifo'[c].valid = fifo[c].valid /\ fifo'[c].dout = fifo[c].dout
             /\ DOMAIN fifo'[c] = FifoFields
  BY <1>1, ChainTicks
<1>5. ShapeInv'
  BY <1>1, <1>2, <1>4 DEF ShapeInv
<1>6. LocalInv'
  <2>1. ASSUME NEW c \in Chains PROVE Local(chain'[c], frame'[c], index'[c])
    BY <1>4, LocalKept DEF Ticks
  <2> QED
    BY <2>1 DEF LocalInv
<1>7. ASSUME NEW c \in Chains, Coming(c) PROVE Coming(c)' \/ There(c)'
  <2>1. Gathers(c, chain[c], fifo[c], reader, back, rdEdges, frame[c], index[c], turn)
    BY <1>7 DEF Coming
  <2>2. \/ Gathers(c, chain'[c], fifo'[c], reader, back', 0, frame'[c], index'[c], turn)
        \/ Ready(c, chain'[c], fifo'[c], reader, back', frame'[c], turn)
    BY <1>3, <1>4, <2>1, GathersMoves
  <2> QED
    BY <1>2, <2>2 DEF Coming, There
<1>8. ASSUME NEW c \in Chains, There(c) PROVE There(c)'
  <2>1. Ready(c, chain[c], fifo[c], reader, back, frame[c], turn)
    BY <1>8 DEF There
  <2>2. Ready(c, chain'[c], fifo'[c], reader, back', frame'[c], turn)
    BY <1>4, <2>1, ReadyMoves
  <2> QED
    BY <1>2, <2>2 DEF There
<1>9. ASSUME NEW c \in Chains, NEW time \in Int, NEW left \in Nat, Going(c, time, left),
             InTime(reader, time, left)
      PROVE  Drains(c, chain'[c], fifo'[c], reader', back', rdEdges', frame'[c], index'[c], turn',
                    time, left)
  <2>1. Drains(c, chain[c], fifo[c], reader, back, rdEdges, frame[c], index[c], turn, time, left)
    BY <1>9 DEF Going
  <2>2. Drains(c, chain'[c], fifo'[c], reader, back', 0, frame'[c], index'[c], turn, time, left)
    BY <1>3, <1>4, <1>9, <2>1, DrainsMoves
  <2> QED
    BY <1>2, <2>2
<1>10. PhaseInv'
  <2>1. CASE Awaits(reader, turn, at) /\ \A c \in Chains : Coming(c) \/ There(c)
    <3>1. Awaits(reader, turn, at)'
      BY <1>2, <2>1
    <3>2. \A c \in Chains : Coming(c)' \/ There(c)'
      BY <1>7, <1>8, <2>1
    <3> QED
      BY <3>1, <3>2 DEF PhaseInv
  <2>2. CASE Starts(reader, at) /\ \A c \in Chains : There(c)
    <3>1. Starts(reader, at)'
      BY <1>2, <2>2
    <3>2. \A c \in Chains : There(c)'
      BY <1>8, <2>2
    <3> QED
      BY <3>1, <3>2 DEF PhaseInv
  <2>3. CASE \E h \in 1 .. M, l \in 0 .. Words(turn) + 1 :
               /\ Reads(reader, fifo[h], turn, at, h, l)
               /\ \A c \in Chains :
                    Going(c, (h - 1) * (Words(turn) + 2) + l - 2, Left(h, l, c, Words(turn)))
    <3>1. PICK h \in 1 .. M, l \in 0 .. Words(turn) + 1 :
               /\ Reads(reader, fifo[h], turn, at, h, l)
               /\ \A c \in Chains :
                    Going(c, (h - 1) * (Words(turn) + 2) + l - 2, Left(h, l, c, Words(turn)))
      BY <2>3
    <3>2. h \in Chains
      BY DEF Chains
    <3>3. Reads(reader', fifo'[h], turn', at', h, l)
      BY <1>2, <1>4, <3>1, <3>2 DEF Reads
    <3>4. ASSUME NEW c \in Chains
          PROVE  Drains(c, chain'[c], fifo'[c], reader', back', rdEdges', frame'[c], index'[c], turn',
                        (h - 1) * (Words(turn') + 2) + l - 2, Left(h, l, c, Words(turn')))
      <4> DEFINE time == (h - 1) * (Words(turn) + 2) + l - 2
                 left == Left(h, l, c, Words(turn))
      <4>1. time \in Int /\ left \in Nat /\ InTime(reader, time, left)
        BY <3>1, <3>2, ReadsInTime
      <4>2. Going(c, time, left)
        BY <3>1
      <4> HIDE DEF time, left
      <4>3. Drains(c, chain'[c], fifo'[c], reader', back', rdEdges', frame'[c], index'[c], turn',
                   time, left)
        BY <1>9, <4>1, <4>2
      <4> QED
        BY <1>2, <4>3 DEF time, left
    <3> QED
      BY <1>2, <3>1, <3>3, <3>4 DEF PhaseInv, Going
  <2>4. CASE Ended(reader, turn, at) /\ \A c \in Chains : Going(c, M * (Words(turn) + 2) - 2, 0)
    <3>1. Ended(reader, turn, at)'
      BY <1>2, <2>4
    <3>2. ASSUME NEW c \in Chains PROVE Going(c, M * (Words(turn) + 2) - 2, 0)'
      <4> DEFINE time == M * (Words(turn) + 2) - 2
      <4>1. time \in Int /\ InTime(reader, time, 0)
        <5>1. ~reader.finish /\ 0 \in 0 .. M + 2
          BY <2>4, MAssumption DEF Ended
        <5>2. PICK n \in 0 .. M + 2 : n = 0
          BY <5>1
        <5>3. M * (Words(turn) + 2) - 2 + n \in Int /\ InTime(reader, M * (Words(turn) + 2) - 2 + n, 0)
          BY <5>1, EndInTime
        <5>4. M * (Words(turn) + 2) \in Nat
          BY Hurry
        <5>5. M * (Words(turn) + 2) - 2 + n = time
          BY <5>2, <5>4
        <5> QED
          BY <5>3, <5>5
      <4>2. Going(c, time, 0)
        BY <2>4
      <4> HIDE DEF time
      <4>3. Drains(c, chain'[c], fifo'[c], reader', back', rdEdges', frame'[c], index'[c], turn', time, 0)
        BY <1>9, <4>1, <4>2
      <4> QED
        BY <1>2, <4>3 DEF time, Going
    <3> QED
      BY <3>1, <3>2 DEF PhaseInv
  <2>5. CASE \E a \in 0 .. M + 1 :
               /\ Stamps(reader, turn, at, a)
               /\ \A c \in Chains : Going(c, M * (Words(turn) + 2) - 1 + a, 0)
    <3>1. PICK a \in 0 .. M + 1 :
               /\ Stamps(reader, turn, at, a)
               /\ \A c \in Chains : Going(c, M * (Words(turn) + 2) - 1 + a, 0)
      BY <2>5
    <3>2. Stamps(reader', turn', at', a)
      BY <1>2, <3>1
    <3>3. ASSUME NEW c \in Chains
          PROVE  Drains(c, chain'[c], fifo'[c], reader', back', rdEdges', frame'[c], index'[c], turn',
                        M * (Words(turn') + 2) - 1 + a, 0)
      <4> DEFINE time == M * (Words(turn) + 2) - 1 + a
      <4>1. time \in Int /\ InTime(reader, time, 0)
        <5>1. ~reader.finish
          BY <3>1 DEF Stamps
        <5>2. PICK n \in 0 .. M + 2 : n = a + 1
          BY MAssumption
        <5>3. M * (Words(turn) + 2) - 2 + n \in Int /\ InTime(reader, M * (Words(turn) + 2) - 2 + n, 0)
          BY <5>1, EndInTime
        <5>4. M * (Words(turn) + 2) \in Nat
          BY Hurry
        <5>5. M * (Words(turn) + 2) - 2 + n = time
          BY <5>2, <5>4
        <5> QED
          BY <5>3, <5>5
      <4>2. Going(c, time, 0)
        BY <3>1
      <4> HIDE DEF time
      <4>3. Drains(c, chain'[c], fifo'[c], reader', back', rdEdges', frame'[c], index'[c], turn', time, 0)
        BY <1>9, <4>1, <4>2
      <4> QED
        BY <1>2, <4>3 DEF time
    <3> QED
      BY <1>2, <3>2, <3>3 DEF PhaseInv, Going
  <2> QED
    BY <1>1, <2>1, <2>2, <2>3, <2>4, <2>5 DEF PhaseInv
<1> QED
  BY <1>5, <1>6, <1>10 DEF IInv

-----------------------------------------------------------------------------
\* An edge of rd_clk for the reader: its output half, field by field,
ReaderTicks(r, flag, count, valid, dout, r2) ==
  DOMAIN r = ReaderFields /\ r2 = ReaderEdge(r, flag, count, valid, dout)
OutputHalf(r, valid, dout, r2) ==
  /\ r.or0 => LET take == r.dep < WordCount(r) /\ valid
              IN  /\ r2.addT = 0 /\ r2.finish = FALSE
                  /\ r2.dep = (IF take THEN r.dep + 1 ELSE 0)
                  /\ r2.valid = take /\ r2.out = dout
  /\ ~r.or0 /\ r.addT <= M =>
       /\ r2.addT = r.addT + 1 /\ r2.finish = r.finish /\ r2.dep = r.dep
       /\ r2.valid = (r.addT > 0)
       /\ r2.out = (IF r.addT > 0 THEN <<"time", r.addT>> ELSE r.out)
  /\ ~r.or0 /\ ~(r.addT <= M) =>
       /\ r2.addT = r.addT /\ r2.finish = TRUE /\ r2.dep = r.dep /\ r2.valid = FALSE

\* and its control half.
ControlHalf(r, flag, count, r2) ==
  /\ r2.s0 = flag /\ r2.s1 = r.s0 /\ r2.s2 = r.s1
  /\ r2.start = Start(r) /\ r2.start0 = r.start /\ r2.finish0 = r.finish
  /\ r2.hot = Hot(r) /\ r2.or0 = (r.hot # 0)
  /\ \A c \in Chains :
       /\ r2.fin[c] = Fin(r, c)
       /\ r2.cnt[c] = (IF Flagged(r, c) /\ ~r.timed[c] THEN count[c] ELSE r.cnt[c])
       /\ r2.timed[c] = (IF r.fin[c] THEN TRUE ELSE r.timed[c] /\ ~Finished(r))

LEMMA OutFields ==
  ASSUME NEW r, DOMAIN r = ReaderFields, NEW valid, NEW dout, NEW o, o = Out(r, valid, dout)
  PROVE  DOMAIN o = ReaderFields /\ OutputHalf(r, valid, dout, o)
<1>1. CASE r.or0
  <2> DEFINE take == r.dep < WordCount(r) /\ valid
  <2>1. o = [r EXCEPT !.addT = 0, !.finish = FALSE,
                      !.dep = IF take THEN r.dep + 1 ELSE 0, !.valid = take, !.out = dout]
    BY <1>1 DEF Out
  <2> HIDE DEF take
  <2>2. DOMAIN o = ReaderFields /\ o.addT = 0 /\ o.finish = FALSE
        /\ o.dep = (IF take THEN r.dep + 1 ELSE 0) /\ o.valid = take /\ o.out = dout
    BY <2>1 DEF ReaderFields
  <2> QED
    BY <1>1, <2>2 DEF take, OutputHalf
<1>2. CASE ~r.or0 /\ r.addT <= M
  <2> DEFINE up == r.addT > 0
             stamp == IF r.addT > 0 THEN <<"time", r.addT>> ELSE r.out
  <2>1. o = [r EXCEPT !.addT = r.addT + 1, !.valid = up, !.out = stamp]
    BY <1>2 DEF Out
  <2> HIDE DEF up, stamp
  <2>2. DOMAIN o = ReaderFields /\ o.addT = r.addT + 1 /\ o.finish = r.finish /\ o.dep = r.dep
        /\ o.valid = up /\ o.out = stamp
    BY <2>1 DEF ReaderFields
  <2> QED
    BY <1>2, <2>2 DEF up, stamp, OutputHalf
<1>3. CASE ~r.or0 /\ ~(r.addT <= M)
  <2>1. o = [r EXCEPT !.finish = TRUE, !.valid = FALSE]
    BY <1>3 DEF Out
  <2>2. DOMAIN o = ReaderFields /\ o.addT = r.addT /\ o.finish = TRUE /\ o.dep = r.dep
        /\ o.valid = FALSE
    BY <2>1 DEF ReaderFields
  <2> QED
    BY <1>3, <2>2 DEF OutputHalf
<1> QED
  BY <1>1, <1>2, <1>3

LEMMA ReaderMoves ==
  ASSUME NEW r, NEW flag, NEW count, NEW valid, NEW dout, NEW r2,
         ReaderTicks(r, flag, count, valid, dout, r2)
  PROVE  /\ DOMAIN r2 = ReaderFields
         /\ OutputHalf(r, valid, dout, r2) /\ ControlHalf(r, flag, count, r2)
<1> DEFINE o == Out(r, valid, dout)
           cnt == [c \in Chains |-> IF Flagged(r, c) /\ ~r.timed[c] THEN count[c] ELSE r.cnt[c]]
           fin == [c \in Chains |-> Fin(r, c)]
           timed == [c \in Chains |-> IF r.fin[c] THEN TRUE ELSE r.timed[c] /\ ~Finished(r)]
           any == r.hot # 0
<1>2. r2 = [o EXCEPT !.s0 = flag, !.s1 = r.s0, !.s2 = r.s1, !.cnt = cnt, !.fin = fin,
                     !.timed = timed, !.start = Start(r), !.start0 = r.start, !.finish0 = r.finish,
                     !.hot = Hot(r), !.or0 = any, !.words = WordCount(r)]
  BY DEF ReaderTicks, ReaderEdge
<1>3. \A c \in Chains :
        /\ fin[c] = Fin(r, c)
        /\ cnt[c] = (IF Flagged(r, c) /\ ~r.timed[c] THEN count[c] ELSE r.cnt[c])
        /\ timed[c] = (IF r.fin[c] THEN TRUE ELSE r.timed[c] /\ ~Finished(r))
  OBVIOUS
<1>7. o = Out(r, valid, dout)
  OBVIOUS
<1> HIDE DEF o, cnt, fin, timed, any
<1>1. DOMAIN o = ReaderFields /\ OutputHalf(r, valid, dout, o)
  BY <1>7, OutFields DEF ReaderTicks
<1>4. /\ DOMAIN r2 = ReaderFields
      /\ r2.s0 = flag /\ r2.s1 = r.s0 /\ r2.s2 = r.s1
      /\ r2.start = Start(r) /\ r2.start0 = r.start /\ r2.finish0 = r.finish
  BY <1>1, <1>2 DEF ReaderFields
<1>5. /\ r2.hot = Hot(r) /\ r2.or0 = any
      /\ r2.cnt = cnt /\ r2.fin = fin /\ r2.timed = timed
  BY <1>1, <1>2 DEF ReaderFields
<1>6. /\ r2.addT = o.addT /\ r2.finish = o.finish /\ r2.dep = o.dep
      /\ r2.valid = o.valid /\ r2.out = o.out
  BY <1>1, <1>2 DEF ReaderFields
<1>8. OutputHalf(r, valid, dout, r2)
  BY <1>1, <1>6 DEF OutputHalf
<1>9. ControlHalf(r, flag, count, r2)
  BY <1>3, <1>4, <1>5 DEF ControlHalf, any
<1> QED
  BY <1>4, <1>8, <1>9

-----------------------------------------------------------------------------
\* An edge of rd_clk for a chain's frame flag
Syncs(c, ch, r, r2) ==
  (r2.s0[c] <=> ch.flag) /\ (r2.s1[c] <=> r.s0[c]) /\ (r2.s2[c] <=> r.s1[c])

\* and for its FIFO, of which n bytes are read.
Pops(fi, n, fi2) ==
  /\ fi2.q = SubSeq(fi.q, n + 1, Len(fi.q))
  /\ fi2.v1 = Less(Len(fi.q), n) /\ fi2.v2 = Less(fi.v1, n)

LEMMA HeldReads ==
  ASSUME NEW c, NEW ch, NEW r, NEW r2, NEW b, Held(c, ch, r, b), Syncs(c, ch, r, r2),
         OneFall(ch.finish0, b, r2.finish)
  PROVE  Held(c, ch, r2, b) /\ ~Flagged(r, c)
BY DEF Held, Syncs, Flagged

LEMMA FallenReads ==
  ASSUME NEW c, NEW ch, NEW i, NEW r, NEW r2, NEW b, NEW e \in Nat, Fallen(c, ch, i, r, b, e),
         Syncs(c, ch, r, r2), NoFall(ch.finish0, b, r2.finish)
  PROVE  Fallen(c, ch, i, r2, b, e + 1) /\ ~Flagged(r, c)
<1> DEFINE a == Age(ch, i, b)
<1>1. /\ ~ch.flag
      /\ r.s0[c] => r.s1[c] /\ a = 4
      /\ r.s1[c] => r.s2[c] /\ (a = 4 \/ a = 5)
  BY DEF Fallen
<1> HIDE DEF a
<1>2. /\ ~r2.s0[c]
      /\ r2.s1[c] => r2.s2[c] /\ a = 4
      /\ r2.s2[c] => a \in {4, 5}
  BY <1>1 DEF Syncs
<1>3. ~Flagged(r, c)
  BY <1>1 DEF Flagged
<1> QED
  BY <1>1, <1>2, <1>3 DEF Fallen, a

LEMMA QueueStays ==
  ASSUME NEW c, NEW fi, NEW fi2, NEW g, NEW f, NEW i \in Nat, Queue(c, fi, g, 0, f, i),
         Pops(fi, 0, fi2)
  PROVE  Queue(c, fi2, g, 0, f, i) /\ fi2.v1 = i /\ fi2.v2 = fi.v1
<1>1. fi.v1 \in Nat /\ fi.v1 <= i /\ fi.q = Piece(c, f, 0, i)
  BY DEF Queue
<1>2. Len(fi.q) = i
  BY <1>1, PieceSeq
<1>3. fi2.q = SubSeq(fi.q, 1, i) /\ fi2.v1 = Less(i, 0) /\ fi2.v2 = Less(fi.v1, 0)
  BY <1>2 DEF Pops
<1>4. fi2.q = Piece(c, f, 0, i)
  BY <1>1, <1>3, PieceWhole
<1>5. fi2.v1 = i /\ fi2.v2 = fi.v1
  BY <1>1, <1>3 DEF Less
<1> QED
  BY <1>1, <1>4, <1>5 DEF Queue

LEMMA QueueWaits ==
  ASSUME NEW c, NEW fi, NEW fi2, NEW g, NEW f, NEW i, NEW left \in Nat \ {0},
         Queue(c, fi, g, left, f, i), Pops(fi, 0, fi2)
  PROVE  Queue(c, fi2, g, left, f, i)
<1> DEFINE lo == 4 * Words(g) - left
<1>1. lo \in Int
  BY WordsType
<1>2. i = 0 /\ fi.v1 = left /\ fi.v2 = left /\ fi.q = Piece(c, g, lo, left)
  BY DEF Queue
<1> HIDE DEF lo
<1>3. Len(fi.q) = left
  BY <1>1, <1>2, PieceSeq
<1>4. fi2.q = SubSeq(fi.q, 1, left) /\ fi2.v1 = Less(left, 0) /\ fi2.v2 = Less(left, 0)
  BY <1>2, <1>3 DEF Pops
<1>5. fi2.q = Piece(c, g, lo, left)
  BY <1>1, <1>2, <1>4, PieceWhole
<1>6. fi2.v1 = left /\ fi2.v2 = left
  BY <1>4 DEF Less
<1> QED
  BY <1>2, <1>5, <1>6 DEF Queue, lo

LEMMA QueuePops ==
  ASSUME NEW c, NEW fi, NEW fi2, NEW g, NEW f, NEW i, NEW left \in Nat \ {0}, left >= 4,
         Queue(c, fi, g, left, f, i), Pops(fi, 4, fi2)
  PROVE  /\ Queue(c, fi2, g, left - 4, f, i)
         /\ left = 4 => fi2.v1 = 0 /\ fi2.v2 = 0
         /\ SubSeq(fi.q, 1, 4) = [k \in 1 .. 4 |-> <<c, g, 4 * Words(g) - left + k - 1>>]
<1> DEFINE lo == 4 * Words(g) - left
<1>1. lo \in Int /\ 4 * Words(g) - (left - 4) = lo + 4 /\ left - 4 \in Nat
  BY WordsType
<1>2. i = 0 /\ fi.v1 = left /\ fi.v2 = left /\ fi.q = Piece(c, g, lo, left)
  BY DEF Queue
<1>3. SubSeq(fi.q, 1, 4) = [k \in 1 .. 4 |-> <<c, g, lo + k - 1>>]
  BY <1>1, <1>2, PieceWord
<1>4. 4 * Words(g) - (left - 4) = lo + 4
  BY <1>1
<1> HIDE DEF lo
<1>5. Len(fi.q) = left
  BY <1>1, <1>2, PieceSeq
<1>6. fi2.q = SubSeq(fi.q, 5, left) /\ fi2.v1 = Less(left, 4) /\ fi2.v2 = Less(left, 4)
  BY <1>2, <1>5 DEF Pops
<1>7. fi2.q = Piece(c, g, lo + 4, left - 4)
  BY <1>1, <1>2, <1>6, PieceWord
<1>8. fi2.v1 = left - 4 /\ fi2.v2 = left - 4
  BY <1>6 DEF Less
<1>9. CASE left = 4
  <2>1. fi2.q = Piece(c, f, 0, i)
    BY <1>2, <1>7, <1>9 DEF Piece
  <2>2. left - 4 = 0 /\ fi2.v1 = 0 /\ fi2.v2 = 0
    BY <1>8, <1>9
  <2>3. Queue(c, fi2, g, 0, f, i)
    BY <1>2, <2>1, <2>2 DEF Queue
  <2> QED
    BY <1>3, <2>2, <2>3 DEF lo
<1>10. CASE left > 4
  <2>1. left - 4 \in Nat /\ left - 4 > 0
    BY <1>10
  <2>2. fi2.q = Piece(c, g, 4 * Words(g) - (left - 4), left - 4)
    BY <1>4, <1>7
  <2>3. Queue(c, fi2, g, left - 4, f, i)
    BY <1>2, <1>8, <2>1, <2>2 DEF Queue
  <2> QED
    BY <1>3, <1>10, <2>3 DEF lo
<1> QED
  BY <1>9, <1>10

\* A frame that comes in: nothing of it is read.
LEMMA GathersReads ==
  ASSUME NEW c, NEW ch, NEW f, NEW i, NEW r, NEW r2, NEW b, NEW e \in Nat, NEW fi, NEW fi2, NEW g,
         Local(ch, f, i), Gathers(c, ch, fi, r, b, e, f, i, g), Syncs(c, ch, r, r2),
         Pops(fi, 0, fi2), r.finish, r2.finish, r2.fin[c] <=> Fin(r, c)
  PROVE  Gathers(c, ch, fi2, r2, b, e + 1, f, i, g)
<1>1. /\ f = g /\ Queue(c, fi, g, 0, f, i) /\ ~r.fin[c]
      /\ Held(c, ch, r, b) \/ Fallen(c, ch, i, r, b, e)
  BY DEF Gathers
<1>2. Queue(c, fi2, g, 0, f, i)
  BY <1>1, QueueStays DEF Local, IndexInv
<1>3. (Held(c, ch, r2, b) \/ Fallen(c, ch, i, r2, b, e + 1)) /\ ~Flagged(r, c)
  <2>1. CASE Held(c, ch, r, b)
    <3>1. OneFall(ch.finish0, b, r2.finish)
      BY <2>1 DEF Held, OneFall
    <3> QED
      BY <2>1, <3>1, HeldReads
  <2>2. CASE Fallen(c, ch, i, r, b, e)
    <3>1. NoFall(ch.finish0, b, r.finish)
      BY <2>2, Zenon DEF Fallen
    <3>2. NoFall(ch.finish0, b, r2.finish)
      BY <3>1 DEF NoFall
    <3> QED
      BY <2>2, <3>2, FallenReads
  <2> QED
    BY <1>1, <2>1, <2>2
<1>4. ~r2.fin[c]
  BY <1>1, <1>3 DEF Fin
<1> QED
  BY <1>1, <1>2, <1>3, <1>4 DEF Gathers

\* A frame that is there, and that the reader comes to know of.
LEMMA ReadyReads ==
  ASSUME NEW c, NEW ch, NEW f, NEW r, NEW r2, NEW b, NEW fi, NEW fi2, NEW g,
         Ready(c, ch, fi, r, b, f, g), Syncs(c, ch, r, r2), Pops(fi, 0, fi2),
         r.finish, r2.finish, r2.finish0, ~r.start, r2.fin[c] <=> Fin(r, c),
         r2.cnt[c] = IF Flagged(r, c) /\ ~r.timed[c] THEN Count(ch) ELSE r.cnt[c],
         r.finish0 /\ r.timed[c] => r.fin[c]
  PROVE  Ready(c, ch, fi2, r2, b, f, g)
<1> DEFINE n == 4 * Words(g)
<1>1. /\ Idle(ch) /\ ch.flag /\ f = NextFrame(g) /\ ch.frameDep = Bytes(g)
      /\ NoFall(ch.finish0, b, r.finish)
      /\ fi.v1 \in Nat /\ fi.v2 \in Nat /\ fi.v1 <= n /\ fi.v2 <= fi.v1
      /\ fi.q = Piece(c, g, 0, n)
      /\ r.s0[c] => fi.v1 = n
      /\ r.s1[c] => r.s0[c] /\ fi.v2 = n
      /\ r.s2[c] => r.s1[c]
      /\ r.fin[c] => r.s2[c] /\ r.cnt[c] = n
      /\ ~r.finish0 => ~r.s0[c]
  BY DEF Ready
<1>2. n \in Nat /\ Count(ch) = n
  BY <1>1, WordsType, FrameCounted
<1> HIDE DEF n
<1>3. Len(fi.q) = n
  BY <1>1, <1>2, PieceSeq
<1>4. fi2.q = SubSeq(fi.q, 1, n) /\ fi2.v1 = Less(n, 0) /\ fi2.v2 = Less(fi.v1, 0)
  BY <1>3 DEF Pops
<1>5. fi2.q = Piece(c, g, 0, n)
  BY <1>1, <1>2, <1>4, PieceWhole
<1>6. fi2.v1 = n /\ fi2.v2 = fi.v1
  BY <1>1, <1>2, <1>4 DEF Less
<1>7. r2.s0[c] /\ (r2.s1[c] <=> r.s0[c]) /\ (r2.s2[c] <=> r.s1[c])
  BY <1>1 DEF Syncs
<1>8. r2.fin[c] => r2.s2[c] /\ r2.cnt[c] = n
  <2>1. CASE Flagged(r, c)
    <3>1. r.s1[c] /\ ~r.s2[c]
      BY <2>1 DEF Flagged
    <3>2. ~r.timed[c]
      BY <1>1, <3>1
    <3> QED
      BY <1>2, <1>7, <2>1, <3>1, <3>2
  <2>2. CASE ~Flagged(r, c)
    <3>1. r2.fin[c] => r.fin[c]
      BY <2>2 DEF Fin
    <3>2. r2.cnt[c] = r.cnt[c]
      BY <2>2
    <3> QED
      BY <1>1, <1>7, <3>1, <3>2
  <2> QED
    BY <2>1, <2>2
<1>9. NoFall(ch.finish0, b, r2.finish)
  BY <1>1 DEF NoFall
<1>10. n <= n /\ fi2.v1 \in Nat /\ fi2.v2 \in Nat /\ fi2.v2 <= fi2.v1
  BY <1>1, <1>2, <1>6
<1>11. /\ r2.s0[c] => fi2.v1 = n
       /\ r2.s1[c] => r2.s0[c] /\ fi2.v2 = n
       /\ r2.s2[c] => r2.s1[c]
  BY <1>1, <1>6, <1>7
<1> SUFFICES /\ fi2.v1 \in Nat /\ fi2.v2 \in Nat /\ fi2.v1 <= n /\ fi2.v2 <= fi2.v1
             /\ fi2.q = Piece(c, g, 0, n)
             /\ r2.s0[c] => fi2.v1 = n
             /\ r2.s1[c] => r2.s0[c] /\ fi2.v2 = n
             /\ r2.s2[c] => r2.s1[c]
             /\ r2.fin[c] => r2.s2[c] /\ r2.cnt[c] = n
  BY <1>1, <1>9 DEF Ready, n
<1> QED
  BY <1>5, <1>6, <1>8, <1>10, <1>11

\* A frame that all chains' frames have joined: it is about to be read.
LEMMA ReadyStarts ==
  ASSUME NEW c, NEW ch, NEW f, NEW i, NEW r, NEW r2, NEW b, NEW e, NEW fi, NEW fi2, NEW g,
         Local(ch, f, i), Ready(c, ch, fi, r, b, f, g), Syncs(c, ch, r, r2), Pops(fi, 0, fi2),
         r.fin[c], r.finish, r2.finish, NEW time
  PROVE  Drains(c, ch, fi2, r2, b, e, f, i, g, time, 4 * Words(g))
<1> DEFINE n == 4 * Words(g)
<1>1. /\ Idle(ch) /\ ch.flag /\ f = NextFrame(g)
      /\ NoFall(ch.finish0, b, r.finish)
      /\ fi.q = Piece(c, g, 0, n)
      /\ r.s0[c] /\ fi.v1 = n /\ r.s1[c] /\ r.s2[c]
  BY DEF Ready
<1>2. n \in Nat \ {0} /\ n - n = 0
  BY WordsType
<1>3. i = 0
  BY <1>1 DEF Local, IndexInv, Idle
<1> HIDE DEF n
<1>4. Len(fi.q) = n
  BY <1>1, <1>2, PieceSeq
<1>5. fi2.q = SubSeq(fi.q, 1, n) /\ fi2.v1 = Less(n, 0) /\ fi2.v2 = Less(n, 0)
  BY <1>1, <1>4 DEF Pops
<1>6. fi2.q = Piece(c, g, n - n, n)
  BY <1>1, <1>2, <1>5, PieceWhole
<1>7. fi2.v1 = n /\ fi2.v2 = n
  BY <1>2, <1>5 DEF Less
<1>8. Queue(c, fi2, g, n, f, i)
  BY <1>2, <1>3, <1>6, <1>7 DEF Queue, n
<1>9. NoFall(ch.finish0, b, r2.finish) /\ OneFall(ch.finish0, b, r2.finish)
  BY <1>1 DEF NoFall, OneFall
<1>10. Held(c, ch, r2, b)
  BY <1>1, <1>9 DEF Held, Syncs
<1>11. Age(ch, i, b) = 0
  BY <1>1 DEF Age, NoFall
<1> DEFINE a == Age(ch, i, b)
<1>12. ~(a > 0) /\ ~(n = 0)
  BY <1>2, <1>11
<1> HIDE DEF a
<1> SUFFICES /\ a > 0 => time >= RdMin * (a - 1) + e
             /\ n = 0 /\ fi2.v1 > 0 => time >= RdMin * (8 + ByteTime) + 1
             /\ n = 0 /\ fi2.v2 > 0 => time >= RdMin * (8 + ByteTime) + 2
  BY <1>1, <1>8, <1>9, <1>10 DEF Drains, n, a
<1> QED
  BY <1>12

\* The flag's side of a chain that is read, or has been.
LEMMA TurnReads ==
  ASSUME NEW c, NEW ch, NEW i, NEW r, NEW r2, NEW b, NEW e \in Nat,
         Held(c, ch, r, b) \/ Fallen(c, ch, i, r, b, e), Syncs(c, ch, r, r2),
         r.finish => ch.flag /\ NoFall(ch.finish0, b, r.finish), r2.finish => r.finish
  PROVE  /\ Held(c, ch, r2, b) \/ Fallen(c, ch, i, r2, b, e + 1)
         /\ r2.finish => ch.flag /\ NoFall(ch.finish0, b, r2.finish)
         /\ ~Flagged(r, c)
<1>1. CASE Held(c, ch, r, b)
  <2>1. OneFall(ch.finish0, b, r.finish)
    BY <1>1 DEF Held
  <2>2. OneFall(ch.finish0, b, r2.finish)
    BY <2>1 DEF OneFall, NoFall
  <2> QED
    BY <1>1, <2>2, HeldReads DEF NoFall
<1>2. CASE Fallen(c, ch, i, r, b, e)
  <2>1. ~ch.flag /\ NoFall(ch.finish0, b, r.finish)
    BY <1>2, Zenon DEF Fallen
  <2>2. ~r.finish /\ ~r2.finish
    BY <2>1
  <2>3. NoFall(ch.finish0, b, r2.finish)
    BY <2>1, <2>2 DEF NoFall
  <2> QED
    BY <1>2, <2>2, <2>3, FallenReads
<1> QED
  BY <1>1, <1>2

\* One edge later there is one edge more, and what was read is gone.
LEMMA DrainsReads ==
  ASSUME NEW c, NEW ch, NEW f, NEW i, NEW r, NEW r2, NEW b, NEW e \in Nat, NEW fi, NEW fi2, NEW g,
         NEW time \in Int, NEW left \in Nat, NEW n \in {0, 4}, n <= left, Local(ch, f, i),
         Drains(c, ch, fi, r, b, e, f, i, g, time, left), Syncs(c, ch, r, r2), Pops(fi, n, fi2),
         r2.finish => r.finish
  PROVE  Drains(c, ch, fi2, r2, b, e + 1, f, i, g, time + 1, left - n) /\ ~Flagged(r, c)
<1> DEFINE a == Age(ch, i, b)
           late == RdMin * (8 + ByteTime)
<1>1. /\ f = NextFrame(g) /\ Queue(c, fi, g, left, f, i)
      /\ (Held(c, ch, r, b) \/ Fallen(c, ch, i, r, b, e))
      /\ r.finish => ch.flag /\ NoFall(ch.finish0, b, r.finish)
      /\ a > 0 => time >= RdMin * (a - 1) + e
      /\ left = 0 /\ fi.v1 > 0 => time >= late + 1
      /\ left = 0 /\ fi.v2 > 0 => time >= late + 2
  BY DEF Drains
<1>2. RdMin \in Nat \ {0} /\ ByteTime \in Nat \ {0} /\ late \in Nat /\ i \in Nat
  <2>1. RdMin \in Nat \ {0} /\ ByteTime \in Nat \ {0} /\ 8 + ByteTime \in Nat
    BY RatioAssumption, ByteTimeAssumption
  <2>2. i \in Nat
    BY DEF Local, IndexInv
  <2> QED
    BY <2>1, <2>2, Clocks
<1>3. /\ Held(c, ch, r2, b) \/ Fallen(c, ch, i, r2, b, e + 1)
      /\ r2.finish => ch.flag /\ NoFall(ch.finish0, b, r2.finish)
      /\ ~Flagged(r, c)
  <2>1. /\ Held(c, ch, r, b) \/ Fallen(c, ch, i, r, b, e)
        /\ r.finish => ch.flag /\ NoFall(ch.finish0, b, r.finish)
    BY <1>1
  <2> QED
    BY <2>1, TurnReads
<1>4. a \in Nat /\ (i > 0 => a >= 9 + ByteTime)
  <2>1. CASE ch.flag
    <3>1. Held(c, ch, r, b)
      BY <1>1, <2>1, Zenon DEF Fallen
    <3>2. i = 0
      BY <3>1 DEF Held, Local, IndexInv, Idle
    <3>3. a \in Nat
      BY <2>1 DEF Age
    <3> QED
      BY <3>2, <3>3
  <2>2. CASE ~ch.flag
    BY <2>2, AgeValue
  <2> QED
    BY <2>1, <2>2
<1>5. a > 0 => time + 1 >= RdMin * (a - 1) + (e + 1)
  <2> HIDE DEF a
  <2>1. SUFFICES ASSUME a > 0 PROVE time + 1 >= RdMin * (a - 1) + (e + 1)
    OBVIOUS
  <2>2. PICK m \in Nat : m = a - 1
    BY <1>4, <2>1
  <2>3. time >= RdMin * m + e /\ RdMin * m \in Nat
    BY <1>1, <1>2, <2>1, <2>2, Clocks
  <2> DEFINE x == RdMin * m
  <2>4. time >= x + e /\ x \in Nat
    BY <2>3
  <2> HIDE DEF x
  <2>5. time + 1 >= x + (e + 1)
    BY <2>4
  <2> QED
    BY <2>2, <2>5 DEF x
<1>6. i > 0 => time >= late
  <2> HIDE DEF a
  <2>1. SUFFICES ASSUME i > 0 PROVE time >= late
    OBVIOUS
  <2>2. PICK m \in Nat : m = a - 1 /\ 8 + ByteTime <= m
    BY <1>2, <1>4, <2>1
  <2>3. time >= RdMin * m + e /\ RdMin * m \in Nat
    BY <1>1, <1>2, <1>4, <2>1, <2>2, Clocks
  <2>4. late <= RdMin * m
    <3>1. 8 + ByteTime \in Nat
      BY <1>2
    <3> QED
      BY <1>2, <2>2, <3>1, Clocks
  <2> DEFINE x == RdMin * m
  <2>5. time >= x + e /\ x \in Nat /\ late <= x
    BY <2>3, <2>4
  <2> HIDE DEF x, late
  <2> QED
    BY <1>2, <2>5
<1> HIDE DEF a, late
<1>7. CASE left = 0
  <2>1. n = 0 /\ left - n = 0
    BY <1>7
  <2>2. Queue(c, fi, g, 0, f, i) /\ Pops(fi, 0, fi2)
    BY <1>1, <1>7, <2>1
  <2>3. Queue(c, fi2, g, 0, f, i) /\ fi2.v1 = i /\ fi2.v2 = fi.v1
    BY <1>2, <2>2, QueueStays
  <2>4. fi.v1 > 0 => time >= late + 1
    BY <1>1, <1>7
  <2>5. /\ fi2.v1 > 0 => time + 1 >= late + 1
        /\ fi2.v2 > 0 => time + 1 >= late + 2
    BY <1>2, <1>6, <2>3, <2>4
  <2> QED
    BY <1>1, <1>3, <1>5, <2>1, <2>3, <2>5 DEF Drains, a, late
<1>8. CASE left > 0 /\ n = 0
  <2>1. Queue(c, fi2, g, left, f, i)
    BY <1>1, <1>8, QueueWaits
  <2>2. left - n = left /\ left # 0
    BY <1>8
  <2>3. Drains(c, ch, fi2, r2, b, e + 1, f, i, g, time + 1, left)
    BY <1>1, <1>3, <1>5, <2>1, <2>2 DEF Drains, a
  <2> QED
    BY <1>3, <2>2, <2>3
<1>9. CASE n = 4
  <2> DEFINE l2 == left - 4
  <2>1. left \in Nat \ {0} /\ left >= 4 /\ Pops(fi, 4, fi2) /\ left - n = l2
    BY <1>9
  <2>2. Queue(c, fi2, g, l2, f, i) /\ (left = 4 => fi2.v1 = 0 /\ fi2.v2 = 0)
    BY <1>1, <2>1, QueuePops
  <2>3. l2 = 0 => fi2.v1 = 0 /\ fi2.v2 = 0
    BY <2>1, <2>2
  <2> HIDE DEF l2
  <2>4. ~(l2 = 0 /\ fi2.v1 > 0) /\ ~(l2 = 0 /\ fi2.v2 > 0)
    BY <2>3
  <2>5. Drains(c, ch, fi2, r2, b, e + 1, f, i, g, time + 1, l2)
    BY <1>1, <1>3, <1>5, <2>2, <2>4 DEF Drains, a
  <2> QED
    BY <1>3, <2>1, <2>5
<1> QED
  BY <1>7, <1>8, <1>9

\* The reader's turn ends: the next frame is what comes in.
LEMMA DrainsEnd ==
  ASSUME NEW c, NEW ch, NEW f, NEW i, NEW r, NEW r2, NEW b, NEW e \in Nat, NEW fi, NEW fi2, NEW g,
         NEW time, Local(ch, f, i), Drains(c, ch, fi, r, b, e, f, i, g, time, 0),
         Syncs(c, ch, r, r2), Pops(fi, 0, fi2), ~r.finish, r2.finish, ~r.fin[c],
         r2.fin[c] <=> Fin(r, c)
  PROVE  Gathers(c, ch, fi2, r2, b, e + 1, f, i, NextFrame(g))
<1>1. /\ f = NextFrame(g) /\ Queue(c, fi, g, 0, f, i)
      /\ (Held(c, ch, r, b) \/ Fallen(c, ch, i, r, b, e))
  BY DEF Drains
<1>2. Queue(c, fi2, NextFrame(g), 0, f, i)
  <2>1. i \in Nat
    BY DEF Local, IndexInv
  <2>2. Queue(c, fi2, g, 0, f, i)
    BY <1>1, <2>1, QueueStays
  <2> QED
    BY <2>2 DEF Queue
<1>3. Held(c, ch, r2, b) \/ Fallen(c, ch, i, r2, b, e + 1)
  <2>1. CASE Held(c, ch, r, b)
    <3>1. OneFall(ch.finish0, b, r2.finish)
      BY <2>1 DEF Held, OneFall
    <3> QED
      BY <2>1, <3>1, HeldReads
  <2>2. CASE Fallen(c, ch, i, r, b, e)
    <3>1. NoFall(ch.finish0, b, r.finish)
      BY <2>2, Zenon DEF Fallen
    <3>2. NoFall(ch.finish0, b, r2.finish)
      BY <3>1 DEF NoFall
    <3> QED
      BY <2>2, <3>2, FallenReads
  <2> QED
    BY <1>1, <2>1, <2>2
<1>4. ~r2.fin[c]
  BY DEF Fin
<1> QED
  BY <1>1, <1>2, <1>3, <1>4 DEF Gathers

-----------------------------------------------------------------------------
\* The words that have left, k of them in turn g.
Counts(r, g, k, k2, g2) ==
  /\ k2 = IF ~r.valid THEN k ELSE IF k = M * Words(g) + M - 1 THEN 0 ELSE k + 1
  /\ g2 = IF r.valid /\ k = M * Words(g) + M - 1 THEN NextFrame(g) ELSE g

\* Between two frames no output register moves but the time stamps'.
LEMMA Stamping ==
  ASSUME NEW r, NEW flag, NEW count, NEW valid, NEW dout, NEW r2,
         ReaderTicks(r, flag, count, valid, dout, r2), ~r.or0, r.addT \in Nat
  PROVE  /\ r2.dep = r.dep
         /\ r2.valid <=> r.addT \in 1 .. M
         /\ r2.addT = IF r.addT <= M THEN r.addT + 1 ELSE r.addT
         /\ r2.finish <=> r.addT > M \/ r.finish
         /\ r2.valid => r2.out = <<"time", r.addT>>
<1>2. M \in Nat
  BY MAssumption
<1>1. OutputHalf(r, valid, dout, r2)
  BY ReaderMoves
<1>3. CASE r.addT <= M
  <2>1. /\ r2.addT = r.addT + 1 /\ r2.finish = r.finish /\ r2.dep = r.dep
        /\ r2.valid = (r.addT > 0)
        /\ r2.out = (IF r.addT > 0 THEN <<"time", r.addT>> ELSE r.out)
    BY <1>1, <1>3 DEF OutputHalf
  <2>2. (r2.valid <=> r.addT > 0) /\ (r2.finish <=> r.finish)
    BY <2>1, Zenon
  <2> QED
    BY <1>2, <1>3, <2>1, <2>2
<1>4. CASE ~(r.addT <= M)
  <2>1. r2.addT = r.addT /\ r2.finish = TRUE /\ r2.dep = r.dep /\ r2.valid = FALSE
    BY <1>1, <1>4 DEF OutputHalf
  <2> QED
    BY <1>2, <1>4, <2>1
<1> QED
  BY <1>3, <1>4

\* The control half.
LEMMA Controls ==
  ASSUME NEW r, NEW flag, NEW count, NEW valid, NEW dout, NEW r2,
         ReaderTicks(r, flag, count, valid, dout, r2)
  PROVE  /\ r2.s0 = flag /\ r2.s1 = r.s0 /\ r2.s2 = r.s1
         /\ (r2.start <=> Start(r)) /\ (r2.start0 <=> r.start) /\ (r2.finish0 <=> r.finish)
         /\ r2.hot = Hot(r) /\ (r2.or0 <=> r.hot # 0)
         /\ \A c \in Chains :
              /\ r2.fin[c] <=> Fin(r, c)
              /\ r2.cnt[c] = (IF Flagged(r, c) /\ ~r.timed[c] THEN count[c] ELSE r.cnt[c])
              /\ r2.timed[c] <=> r.fin[c] \/ (r.timed[c] /\ ~Finished(r))
<1>0. ControlHalf(r, flag, count, r2)
  BY ReaderMoves
<1>1. /\ r2.s0 = flag /\ r2.s1 = r.s0 /\ r2.s2 = r.s1
      /\ r2.start = Start(r) /\ r2.start0 = r.start /\ r2.finish0 = r.finish
      /\ r2.hot = Hot(r) /\ r2.or0 = (r.hot # 0)
      /\ \A c \in Chains :
           /\ r2.fin[c] = Fin(r, c)
           /\ r2.cnt[c] = (IF Flagged(r, c) /\ ~r.timed[c] THEN count[c] ELSE r.cnt[c])
           /\ r2.timed[c] = (IF r.fin[c] THEN TRUE ELSE r.timed[c] /\ ~Finished(r))
  BY <1>0 DEF ControlHalf
<1>2. (r2.start <=> Start(r)) /\ (r2.start0 <=> r.start) /\ (r2.finish0 <=> r.finish)
      /\ (r2.or0 <=> r.hot # 0)
  BY <1>1, Zenon
<1>3. ASSUME NEW c \in Chains
      PROVE  /\ r2.fin[c] <=> Fin(r, c)
             /\ r2.cnt[c] = (IF Flagged(r, c) /\ ~r.timed[c] THEN count[c] ELSE r.cnt[c])
             /\ r2.timed[c] <=> r.fin[c] \/ (r.timed[c] /\ ~Finished(r))
  <2>1. r2.fin[c] <=> Fin(r, c)
    BY <1>1, Zenon
  <2>2. r2.cnt[c] = (IF Flagged(r, c) /\ ~r.timed[c] THEN count[c] ELSE r.cnt[c])
    BY <1>1
  <2>3. r2.timed[c] = (IF r.fin[c] THEN TRUE ELSE r.timed[c] /\ ~Finished(r))
    BY <1>1
  <2>4. r2.timed[c] <=> r.fin[c] \/ (r.timed[c] /\ ~Finished(r))
    <3>1. CASE r.fin[c]
      BY <2>3, <3>1
    <3>2. CASE ~r.fin[c]
      <4>1. r2.timed[c] = (r.timed[c] /\ ~Finished(r))
        BY <2>3, <3>2
      <4> QED
        BY <3>2, <4>1, Zenon
    <3> QED
      BY <3>1, <3>2
  <2> QED
    BY <2>1, <2>2, <2>4
<1> QED
  BY <1>1, <1>2, <1>3

\* Waiting for all chains.
LEMMA AwaitsMoves ==
  ASSUME NEW r, NEW flag, NEW count, NEW valid, NEW dout, NEW r2, NEW g, NEW k, NEW k2, NEW g2,
         ReaderTicks(r, flag, count, valid, dout, r2), Counts(r, g, k, k2, g2), Awaits(r, g, k)
  PROVE  /\ g2 = g /\ r2.finish /\ r2.finish0
         /\ Awaits(r2, g2, k2) \/ (Starts(r2, k2) /\ \A c \in Chains : r.fin[c])
<1>1. /\ ~r.start /\ r.hot = 0 /\ ~r.or0 /\ r.finish /\ r.dep = 0
      /\ \/ /\ k = -1 /\ g = 0
            /\ \/ r.addT = M /\ ~r.valid /\ ~r.finish0
               \/ r.addT = M + 1 /\ r.valid /\ r.out = <<"time", M>>
         \/ k = 0 /\ r.addT = M + 1 /\ ~r.valid
      /\ \A c \in Chains : /\ r.fin[c] => r.finish0
                           /\ r.finish0 /\ r.timed[c] => r.fin[c]
  BY DEF Awaits
<1>2. M \in 1 .. 8 /\ M * Words(g) \in Nat
  <2>1. M \in 1 .. 8 /\ Words(g) \in Nat
    BY MAssumption, WordsType
  <2> QED
    BY <2>1
<1>3. r.addT \in Nat
  BY <1>1, <1>2
<1>4. /\ r2.dep = 0 /\ r2.finish
      /\ r2.valid <=> r.addT \in 1 .. M
      /\ r2.addT = IF r.addT <= M THEN r.addT + 1 ELSE r.addT
      /\ r2.valid => r2.out = <<"time", r.addT>>
  BY <1>1, <1>3, Stamping
<1>5. /\ (r2.start <=> Start(r)) /\ ~r2.start0 /\ r2.finish0 /\ r2.hot = Hot(r) /\ ~r2.or0
      /\ \A c \in Chains :
           /\ r2.fin[c] <=> Fin(r, c)
           /\ r2.timed[c] <=> r.fin[c] \/ (r.timed[c] /\ ~Finished(r))
  BY <1>1, Controls
<1>6. r2.hot = 0
  BY <1>1, <1>5 DEF Hot
<1>7. g2 = g /\ k2 = (IF r.valid THEN 0 ELSE k)
  <2> DEFINE n == M * Words(g)
  <2>1. n \in Nat /\ k2 = (IF ~r.valid THEN k ELSE IF k = n + M - 1 THEN 0 ELSE k + 1)
        /\ g2 = IF r.valid /\ k = n + M - 1 THEN NextFrame(g) ELSE g
    BY <1>2 DEF Counts
  <2> HIDE DEF n
  <2>2. r.valid => k = -1 /\ k # n + M - 1 /\ k + 1 = 0
    BY <1>1, <1>2, <2>1
  <2> QED
    BY <2>1, <2>2
<1>8. \A c \in Chains : (r.fin[c] => r2.fin[c]) /\ (r2.timed[c] => r2.fin[c])
  BY <1>1, <1>5 DEF Fin, Finished
<1>9. CASE \A c \in Chains : r.fin[c]
  <2>1. r2.start
    BY <1>5, <1>9 DEF Start
  <2>2. r.finish0
    <3>1. 1 \in Chains
      BY <1>2 DEF Chains
    <3> QED
      BY <1>1, <1>9, <3>1
  <2>3. r2.addT = M + 1 /\ ~r2.valid /\ k2 = 0
    BY <1>1, <1>2, <1>4, <1>7, <2>2
  <2>4. \A c \in Chains : r2.fin[c]
    BY <1>8, <1>9
  <2>5. Starts(r2, k2)
    BY <1>4, <1>5, <1>6, <2>1, <2>3, <2>4 DEF Starts
  <2> QED
    BY <1>4, <1>5, <1>7, <1>9, <2>5
<1>10. CASE ~ \A c \in Chains : r.fin[c]
  <2>1. ~r2.start
    BY <1>1, <1>5, <1>10 DEF Start
  <2>2. \/ /\ k2 = -1 /\ g2 = 0
           /\ r2.addT = M + 1 /\ r2.valid /\ r2.out = <<"time", M>>
        \/ k2 = 0 /\ r2.addT = M + 1 /\ ~r2.valid
    BY <1>1, <1>2, <1>4, <1>7
  <2>3. Awaits(r2, g2, k2)
    BY <1>4, <1>5, <1>6, <1>8, <2>1, <2>2 DEF Awaits
  <2> QED
    BY <1>4, <1>5, <1>7, <2>3
<1> QED
  BY <1>9, <1>10

LEMMA Fourths == \A n \in Nat : (4 * n) \div 4 = n
<1> TAKE n \in Nat
<1> QED
  BY Z3

LEMMA TurnWords ==
  ASSUME NEW w \in Nat, NEW h \in Chains
  PROVE  /\ (h - 1) * w \in Nat /\ h * w = (h - 1) * w + w /\ h * w <= M * w
         /\ ((h + 1) - 1) * w = h * w /\ M * w \in Nat
<1>1. M \in 1 .. 8 /\ h \in 1 .. M
  BY MAssumption DEF Chains
<1>2. PICK n \in Nat : n = h - 1 /\ h = n + 1 /\ (h + 1) - 1 = n + 1
  BY <1>1
<1>3. CASE w = 0
  <2>1. n * w = 0 /\ h * w = 0 /\ M * w = 0
    BY <1>1, <1>3
  <2> QED
    BY <1>2, <1>3, <2>1
<1>4. CASE w # 0
  <2>1. w * n \in Nat /\ w * (n + 1) = w * n + w /\ w * (n + 1) <= w * M /\ w * M \in Nat
    BY <1>1, <1>2, <1>4, Clocks
  <2>2. n * w = w * n /\ (n + 1) * w = w * (n + 1) /\ M * w = w * M
    BY <1>1
  <2> DEFINE x == w * n
             y == w * (n + 1)
             z == w * M
  <2>3. (h - 1) * w = x /\ h * w = y /\ M * w = z /\ ((h + 1) - 1) * w = y
    BY <1>2, <2>2
  <2>4. x \in Nat /\ y = x + w /\ y <= z /\ z \in Nat
    BY <2>1
  <2> QED
    BY <2>3, <2>4
<1> QED
  BY <1>3, <1>4

\* All chains noted: the first is strobed.
LEMMA StartsMoves ==
  ASSUME NEW r, NEW flag, NEW count, NEW valid, NEW dout, NEW r2, NEW g, NEW k, NEW k2, NEW g2,
         NEW fi2, ReaderTicks(r, flag, count, valid, dout, r2), Counts(r, g, k, k2, g2),
         Starts(r, k), ~fi2.valid, \A c \in Chains : r.cnt[c] = 4 * Words(g) /\ ~Flagged(r, c)
  PROVE  g2 = g /\ r2.finish /\ Reads(r2, fi2, g2, k2, 1, 0)
<1>1. /\ r.start /\ ~r.start0 /\ r.hot = 0 /\ ~r.or0 /\ r.finish /\ r.finish0 /\ r.dep = 0
      /\ r.addT = M + 1 /\ ~r.valid /\ k = 0 /\ (\A c \in Chains : r.fin[c])
  BY DEF Starts
<1>2. M \in 1 .. 8 /\ r.addT \in Nat
  BY <1>1, MAssumption
<1>3. r2.dep = 0 /\ r2.finish /\ ~r2.valid /\ r2.addT = M + 1
  BY <1>1, <1>2, Stamping
<1>4. /\ r2.start /\ r2.start0 /\ r2.finish0 /\ r2.hot = 1 /\ ~r2.or0
      /\ \A c \in Chains : ~r2.fin[c] /\ r2.cnt[c] = 4 * Words(g)
  <2>1. /\ (r2.start <=> Start(r)) /\ (r2.start0 <=> r.start) /\ (r2.finish0 <=> r.finish)
        /\ r2.hot = Hot(r) /\ (r2.or0 <=> r.hot # 0)
    BY Controls
  <2>2. ASSUME NEW c \in Chains
        PROVE  /\ r2.fin[c] <=> Fin(r, c)
               /\ r2.cnt[c] = (IF Flagged(r, c) /\ ~r.timed[c] THEN count[c] ELSE r.cnt[c])
    BY Controls
  <2>3. Start(r) /\ Hot(r) = 1
    BY <1>1 DEF Start, Hot
  <2>4. ASSUME NEW c \in Chains PROVE ~r2.fin[c] /\ r2.cnt[c] = 4 * Words(g)
    BY <1>1, <2>2 DEF Fin
  <2> QED
    BY <1>1, <2>1, <2>3, <2>4
<1>5. g2 = g /\ k2 = 0
  BY <1>1 DEF Counts
<1>6. k2 = (1 - 1) * Words(g) + 0
  <2>1. Words(g) \in Nat
    BY WordsType
  <2> QED
    BY <1>5, <2>1
<1>7. 0 \notin 1 .. Words(g)
  OBVIOUS
<1> QED
  BY <1>3, <1>4, <1>5, <1>6, <1>7 DEF Reads

\* A chain is strobed: its FIFO is fi, and afterwards fi2; fi3 is the next
\* chain's.
ReadsSees(r, valid, dout, fi, fi2, fi3, g, h, l) ==
  /\ (valid <=> fi.valid) /\ dout = fi.dout
  /\ \A c \in Chains : ~Flagged(r, c)
  /\ fi2.valid <=> l < Words(g)
  /\ fi2.valid => fi2.dout = Word(h, g, l)
  /\ ~fi3.valid
ReadsNext(r, r2, g, g2, k2, fi2, fi3, h, l) ==
  /\ g2 = g /\ (r2.finish => r.finish)
  /\ l <= Words(g) => Reads(r2, fi2, g2, k2, h, l + 1)
  /\ l = Words(g) + 1 /\ h < M => Reads(r2, fi3, g2, k2, h + 1, 0)
  /\ l = Words(g) + 1 /\ h = M => Ended(r2, g2, k2)

LEMMA ReadsMoves ==
  ASSUME NEW r, NEW flag, NEW count, NEW valid, NEW dout, NEW r2, NEW g, NEW k, NEW k2, NEW g2,
         NEW fi, NEW fi2, NEW fi3, NEW h \in Chains, NEW l \in 0 .. Words(g) + 1,
         ReaderTicks(r, flag, count, valid, dout, r2), Counts(r, g, k, k2, g2),
         Reads(r, fi, g, k, h, l), ReadsSees(r, valid, dout, fi, fi2, fi3, g, h, l)
  PROVE  ReadsNext(r, r2, g, g2, k2, fi2, fi3, h, l)
<1> DEFINE w == Words(g)
           t == (h - 1) * w
           u == h * w
           m == M * w
<1>0. /\ (valid <=> fi.valid) /\ dout = fi.dout
      /\ \A c \in Chains : ~Flagged(r, c)
      /\ fi2.valid <=> l < Words(g)
      /\ fi2.valid => fi2.dout = Word(h, g, l)
      /\ ~fi3.valid
  BY DEF ReadsSees
<1>1. /\ r.start /\ r.start0 /\ r.hot = h /\ (r.or0 <=> ~(h = 1 /\ l = 0))
      /\ \A c \in Chains : r.cnt[c] = 4 * w /\ ~r.fin[c]
      /\ r.finish <=> h = 1 /\ l < 2
      /\ r.finish => r.finish0
      /\ r.dep = (IF l = 0 THEN 0 ELSE l - 1)
      /\ r.addT = (IF h = 1 /\ l < 2 THEN M + 1 ELSE 0)
      /\ fi.valid <=> l \in 1 .. w
      /\ fi.valid => fi.dout = Word(h, g, l - 1)
      /\ r.valid <=> l >= 2
      /\ k = t + (IF l >= 2 THEN l - 2 ELSE 0)
  BY DEF Reads
<1>2. w \in Nat \ {0} /\ w >= 2 /\ M \in 1 .. 8 /\ h \in 1 .. M /\ l \in 0 .. w + 1
  <2>1. w \in Nat \ {0} /\ Bytes(g) + 7 <= 4 * w /\ Bytes(g) \in Nat
    BY WordsType, BytesType
  <2>2. w >= 2
    <3> DEFINE n == Bytes(g)
    <3>1. n + 7 <= 4 * w /\ n \in Nat /\ w \in Nat
      BY <2>1
    <3> HIDE DEF n, w
    <3> QED
      BY <3>1
  <2> QED
    BY <2>1, <2>2, MAssumption DEF Chains
<1>3. t \in Nat /\ u = t + w /\ u <= m /\ m \in Nat /\ ((h + 1) - 1) * w = u /\ (h = M => u = m)
  BY <1>2, TurnWords
<1>4. WordCount(r) = w
  <2>1. WordCount(r) = r.cnt[h] \div 4
    BY <1>1, <1>2 DEF WordCount
  <2>2. (4 * w) \div 4 = w
    BY <1>2, Fourths
  <2> QED
    BY <1>1, <2>1, <2>2
<1>5. /\ r2.start /\ r2.start0 /\ (r2.finish0 <=> r.finish) /\ r2.or0
      /\ r2.hot = IF l = w + 1 THEN (IF h = M THEN 0 ELSE h + 1) ELSE h
      /\ \A c \in Chains : ~r2.fin[c] /\ r2.cnt[c] = 4 * w
  <2>1. /\ (r2.start <=> Start(r)) /\ (r2.start0 <=> r.start) /\ (r2.finish0 <=> r.finish)
        /\ r2.hot = Hot(r) /\ (r2.or0 <=> r.hot # 0)
    BY Controls
  <2>2. ASSUME NEW c \in Chains
        PROVE  /\ r2.fin[c] <=> Fin(r, c)
               /\ r2.cnt[c] = (IF Flagged(r, c) /\ ~r.timed[c] THEN count[c] ELSE r.cnt[c])
    BY Controls
  <2>3. ASSUME NEW c \in Chains PROVE ~r2.fin[c] /\ r2.cnt[c] = 4 * w
    BY <1>0, <1>1, <2>2 DEF Fin
  <2>4. Start(r) /\ r.hot # 0
    BY <1>1, <1>2 DEF Start
  <2>5. r.dep = w <=> l = w + 1
    <3> HIDE DEF w
    <3> QED
      BY <1>1, <1>2
  <2>6. Hot(r) = IF l = w + 1 THEN (IF h = M THEN 0 ELSE h + 1) ELSE h
    <3>1. ~(r.start /\ ~r.start0) /\ ~Finished(r)
      BY <1>1 DEF Finished
    <3>2. Hot(r) = IF r.dep = w THEN (IF r.hot \in {0, M} THEN 0 ELSE r.hot + 1) ELSE r.hot
      BY <1>4, <3>1 DEF Hot
    <3> HIDE DEF w
    <3> QED
      BY <1>1, <1>2, <2>5, <3>2
  <2> QED
    BY <1>1, <2>1, <2>3, <2>4, <2>6
<1>6. /\ r2.finish <=> h = 1 /\ l = 0
      /\ r2.dep = (IF l = w + 1 THEN 0 ELSE l)
      /\ r2.addT = (IF h = 1 /\ l = 0 THEN M + 1 ELSE 0)
      /\ r2.valid <=> l \in 1 .. w
      /\ r2.valid => r2.out = Word(h, g, l - 1)
  <2>1. CASE h = 1 /\ l = 0
    <3>1. ~r.or0 /\ r.addT = M + 1 /\ r.addT \in Nat /\ r.dep = 0 /\ r.finish
      BY <1>1, <1>2, <2>1
    <3>2. r2.dep = 0 /\ r2.finish /\ ~r2.valid /\ r2.addT = M + 1
      BY <1>2, <3>1, Stamping
    <3> QED
      BY <1>2, <2>1, <3>2
  <2>2. CASE ~(h = 1 /\ l = 0)
    <3> DEFINE take == r.dep < w /\ valid
    <3>1. /\ r2.addT = 0 /\ r2.finish = FALSE
          /\ r2.dep = (IF take THEN r.dep + 1 ELSE 0) /\ r2.valid = take /\ r2.out = dout
      <4>1. r.or0
        BY <1>1, <2>2
      <4>2. OutputHalf(r, valid, dout, r2)
        BY ReaderMoves
      <4> QED
        BY <1>4, <4>1, <4>2 DEF OutputHalf
    <3>2. take <=> l \in 1 .. w
      <4> HIDE DEF w
      <4> QED
        BY <1>0, <1>1, <1>2
    <3>3. r2.valid <=> take
      <4> HIDE DEF take
      <4> QED
        BY <3>1, Zenon
    <3> HIDE DEF take, w
    <3>4. r2.dep = (IF l = w + 1 THEN 0 ELSE l)
      BY <1>1, <1>2, <3>1, <3>2
    <3>5. take => dout = Word(h, g, l - 1)
      BY <1>0, <1>1, <3>2
    <3> QED
      BY <2>2, <3>1, <3>2, <3>3, <3>4, <3>5
  <2> QED
    BY <2>1, <2>2
<1>7. g2 = g /\ k2 = t + (IF l >= 1 THEN l - 1 ELSE 0)
  <2>1. /\ k2 = IF ~r.valid THEN k ELSE IF k = m + M - 1 THEN 0 ELSE k + 1
        /\ g2 = IF r.valid /\ k = m + M - 1 THEN NextFrame(g) ELSE g
    BY DEF Counts
  <2> HIDE DEF w, t, u, m
  <2>2. k # m + M - 1
    BY <1>1, <1>2, <1>3
  <2>3. g2 = g
    BY <2>1, <2>2
  <2>4. k2 = IF l >= 2 THEN k + 1 ELSE k
    BY <1>1, <2>1, <2>2
  <2>5. k2 = t + (IF l >= 1 THEN l - 1 ELSE 0)
    BY <1>1, <1>2, <1>3, <2>4
  <2> QED
    BY <2>3, <2>5
<1>8. r2.finish => r.finish
  BY <1>1, <1>6
<1>9. ASSUME l <= w PROVE Reads(r2, fi2, g2, k2, h, l + 1)
  <2> HIDE DEF w, t, u, m
  <2>1. /\ r2.hot = h /\ (r2.or0 <=> ~(h = 1 /\ l + 1 = 0))
        /\ r2.finish <=> h = 1 /\ l + 1 < 2
        /\ r2.finish => r2.finish0
        /\ r2.dep = (IF l + 1 = 0 THEN 0 ELSE (l + 1) - 1)
        /\ r2.addT = (IF h = 1 /\ l + 1 < 2 THEN M + 1 ELSE 0)
    BY <1>1, <1>2, <1>5, <1>6, <1>9
  <2>2. /\ fi2.valid <=> l + 1 \in 1 .. w
        /\ r2.valid <=> l + 1 >= 2
        /\ (l + 1) - 1 = l /\ (l + 1) - 2 = l - 1
    BY <1>0, <1>2, <1>6, <1>9 DEF w
  <2>3. k2 = t + (IF l + 1 >= 2 THEN (l + 1) - 2 ELSE 0)
    BY <1>2, <1>3, <1>7
  <2>4. fi2.valid => fi2.dout = Word(h, g, (l + 1) - 1)
    BY <1>0, <2>2
  <2>5. r2.valid => r2.out = Word(h, g, (l + 1) - 2)
    BY <1>6, <2>2
  <2> QED
    BY <1>5, <1>7, <2>1, <2>2, <2>3, <2>4, <2>5 DEF Reads, w, t
<1>10. ASSUME l = w + 1, h < M PROVE Reads(r2, fi3, g2, k2, h + 1, 0)
  <2> HIDE DEF w, t, u, m
  <2>1. /\ r2.hot = h + 1 /\ (r2.or0 <=> ~(h + 1 = 1 /\ 0 = 0))
        /\ r2.finish <=> h + 1 = 1 /\ 0 < 2
        /\ r2.finish => r2.finish0
        /\ r2.dep = 0
        /\ r2.addT = (IF h + 1 = 1 /\ 0 < 2 THEN M + 1 ELSE 0)
    BY <1>1, <1>2, <1>5, <1>6, <1>10
  <2>2. ~r2.valid /\ ~(0 >= 2) /\ 0 \notin 1 .. w
    BY <1>2, <1>6, <1>10
  <2>3. k2 = u + 0
    BY <1>2, <1>3, <1>7, <1>10
  <2>4. k2 = ((h + 1) - 1) * Words(g) + 0
    BY <1>3, <2>3 DEF w
  <2> QED
    BY <1>0, <1>5, <1>7, <2>1, <2>2, <2>4 DEF Reads, w
<1>11. ASSUME l = w + 1, h = M PROVE Ended(r2, g2, k2)
  <2> HIDE DEF w, t, u, m
  <2>1. r2.hot = 0 /\ ~r2.finish /\ r2.dep = 0 /\ r2.addT = 0 /\ ~r2.valid
    BY <1>2, <1>5, <1>6, <1>11
  <2>2. k2 = m
    BY <1>2, <1>3, <1>7, <1>11
  <2> QED
    BY <1>5, <1>7, <2>1, <2>2 DEF Ended, m, w
<1> QED
  BY <1>7, <1>8, <1>9, <1>10, <1>11 DEF ReadsNext

\* All chains are read.
LEMMA EndedMoves ==
  ASSUME NEW r, NEW flag, NEW count, NEW valid, NEW dout, NEW r2, NEW g, NEW k, NEW k2, NEW g2,
         ReaderTicks(r, flag, count, valid, dout, r2), Counts(r, g, k, k2, g2), Ended(r, g, k),
         ~valid
  PROVE  g2 = g /\ ~r2.finish /\ Stamps(r2, g2, k2, 0)
<1>1. /\ r.start /\ r.start0 /\ r.hot = 0 /\ r.or0 /\ ~r.finish /\ r.dep = 0 /\ r.addT = 0
      /\ ~r.valid /\ k = M * Words(g) /\ (\A c \in Chains : ~r.fin[c])
  BY DEF Ended
<1>2. 1 \in Chains
  BY MAssumption DEF Chains
<1>3. /\ ~r2.start /\ r2.hot = 0 /\ ~r2.or0
      /\ \A c \in Chains : ~r2.fin[c]
  <2>1. /\ (r2.start <=> Start(r)) /\ r2.hot = Hot(r) /\ (r2.or0 <=> r.hot # 0)
        /\ \A c \in Chains : r2.fin[c] <=> Fin(r, c)
    BY Controls
  <2>2. ~Start(r)
    BY <1>1, <1>2 DEF Start
  <2>3. Hot(r) = 0
    BY <1>1 DEF Hot
  <2>4. ASSUME NEW c \in Chains PROVE ~Fin(r, c)
    BY <1>1 DEF Fin
  <2> QED
    BY <1>1, <2>1, <2>2, <2>3, <2>4
<1>4. r2.addT = 0 /\ ~r2.finish /\ r2.dep = 0 /\ ~r2.valid
  <2>1. OutputHalf(r, valid, dout, r2)
    BY ReaderMoves
  <2> DEFINE take == r.dep < WordCount(r) /\ valid
  <2>2. ~take
    OBVIOUS
  <2>3. /\ r2.addT = 0 /\ r2.finish = FALSE
        /\ r2.dep = (IF take THEN r.dep + 1 ELSE 0) /\ r2.valid = take
    BY <1>1, <2>1 DEF OutputHalf
  <2> HIDE DEF take
  <2>4. ~r2.valid
    BY <2>2, <2>3
  <2> QED
    BY <2>2, <2>3, <2>4
<1>5. g2 = g /\ k2 = M * Words(g)
  BY <1>1 DEF Counts
<1>6. k2 = M * Words(g) + 0
  <2>1. M * Words(g) \in Nat
    <3>1. Words(g) \in Nat
      BY WordsType
    <3>2. M \in Nat
      BY MAssumption
    <3> QED
      BY <3>1, <3>2
  <2> QED
    BY <1>5, <2>1
<1> QED
  BY <1>3, <1>4, <1>5, <1>6 DEF Stamps

\* One time stamp per chain, and it is the next frame's turn.
LEMMA StampsMoves ==
  ASSUME NEW r, NEW flag, NEW count, NEW valid, NEW dout, NEW r2, NEW g, NEW k, NEW k2, NEW g2,
         NEW a \in 0 .. M + 1, ReaderTicks(r, flag, count, valid, dout, r2),
         Counts(r, g, k, k2, g2), Stamps(r, g, k, a), \A c \in Chains : ~Flagged(r, c)
  PROVE  /\ a <= M => g2 = g /\ ~r2.finish /\ Stamps(r2, g2, k2, a + 1)
         /\ a = M + 1 => g2 = NextFrame(g) /\ r2.finish /\ Awaits(r2, g2, k2)
<1> DEFINE m == M * Words(g)
<1>1. /\ ~r.start /\ r.hot = 0 /\ ~r.or0 /\ ~r.finish /\ r.dep = 0 /\ r.addT = a
      /\ r.valid <=> a >= 2
      /\ k = m + (IF a >= 2 THEN a - 2 ELSE 0)
      /\ \A c \in Chains : ~r.fin[c]
  BY DEF Stamps
<1>2. M \in 1 .. 8 /\ m \in Nat /\ a \in 0 .. M + 1 /\ 1 \in Chains
  <2>1. M \in 1 .. 8 /\ 1 \in Chains
    BY MAssumption DEF Chains
  <2>2. m \in Nat
    BY <2>1, TurnWords, WordsType
  <2> QED
    BY <2>1, <2>2
<1>3. /\ r2.dep = 0
      /\ r2.valid <=> a \in 1 .. M
      /\ r2.addT = IF a <= M THEN a + 1 ELSE a
      /\ r2.finish <=> a > M
      /\ r2.valid => r2.out = <<"time", a>>
  <2>1. r.addT \in Nat
    BY <1>1, <1>2
  <2> QED
    BY <1>1, <2>1, Stamping
<1>4. /\ ~r2.start /\ ~r2.finish0 /\ r2.hot = 0 /\ ~r2.or0
      /\ \A c \in Chains : ~r2.fin[c]
  <2>1. /\ (r2.start <=> Start(r)) /\ r2.hot = Hot(r) /\ (r2.or0 <=> r.hot # 0)
        /\ (r2.finish0 <=> r.finish)
        /\ \A c \in Chains : r2.fin[c] <=> Fin(r, c)
    BY Controls
  <2>2. ~Start(r)
    BY <1>1, <1>2 DEF Start
  <2>3. Hot(r) = 0
    BY <1>1 DEF Hot
  <2>4. ASSUME NEW c \in Chains PROVE ~Fin(r, c)
    BY <1>1 DEF Fin
  <2> QED
    BY <1>1, <2>1, <2>2, <2>3, <2>4
<1>5. /\ k2 = IF ~r.valid THEN k ELSE IF k = m + M - 1 THEN 0 ELSE k + 1
      /\ g2 = IF r.valid /\ k = m + M - 1 THEN NextFrame(g) ELSE g
  BY DEF Counts
<1>6. ASSUME a <= M PROVE g2 = g /\ ~r2.finish /\ Stamps(r2, g2, k2, a + 1)
  <2> HIDE DEF m
  <2>1. ~r.valid \/ k # m + M - 1
    BY <1>1, <1>2, <1>6
  <2>2. g2 = g /\ k2 = IF a >= 2 THEN k + 1 ELSE k
    BY <1>1, <1>5, <2>1
  <2>3. /\ k2 = m + (IF a + 1 >= 2 THEN (a + 1) - 2 ELSE 0)
        /\ ~r2.finish /\ r2.addT = a + 1 /\ (r2.valid <=> a + 1 >= 2) /\ (a + 1) - 1 = a
    BY <1>1, <1>2, <1>3, <1>6, <2>2
  <2>4. r2.valid => r2.out = <<"time", (a + 1) - 1>>
    BY <1>3, <2>3
  <2> QED
    BY <1>3, <1>4, <2>2, <2>3, <2>4 DEF Stamps, m
<1>7. ASSUME a = M + 1 PROVE g2 = NextFrame(g) /\ r2.finish /\ Awaits(r2, g2, k2)
  <2> HIDE DEF m
  <2>1. r.valid /\ k = m + M - 1
    BY <1>1, <1>2, <1>7
  <2>2. g2 = NextFrame(g) /\ k2 = 0
    BY <1>5, <2>1
  <2>3. r2.finish /\ r2.addT = M + 1 /\ ~r2.valid
    BY <1>2, <1>3, <1>7
  <2> QED
    BY <1>3, <1>4, <2>2, <2>3 DEF Awaits
<1> QED
  BY <1>6, <1>7

-----------------------------------------------------------------------------
\* An edge of rd_clk in the state: what the reader finds,
LEMMA ReaderSees ==
  ASSUME ShapeInv, RdEdge
  PROVE  \E flag, count, valid, dout :
           /\ ReaderTicks(reader, flag, count, valid, dout, reader')
           /\ \A c \in Chains : flag[c] = chain[c].flag /\ count[c] = Count(chain[c])
           /\ valid <=> reader.hot # 0 /\ fifo[reader.hot].valid
           /\ reader.hot # 0 => dout = fifo[reader.hot].dout
<1> DEFINE flag == [c \in Chains |-> chain[c].flag]
           count == [c \in Chains |-> Count(chain[c])]
           valid == reader.hot # 0 /\ fifo[reader.hot].valid
           dout == IF reader.hot = 0 THEN reader.out ELSE fifo[reader.hot].dout
<1>1. ReaderTicks(reader, flag, count, valid, dout, reader')
  BY DEF ReaderTicks, ShapeInv, RdEdge
<1>2. \A c \in Chains : flag[c] = chain[c].flag /\ count[c] = Count(chain[c])
  OBVIOUS
<1>3. valid <=> reader.hot # 0 /\ fifo[reader.hot].valid
  OBVIOUS
<1>4. reader.hot # 0 => dout = fifo[reader.hot].dout
  OBVIOUS
<1> HIDE DEF flag, count, valid, dout
<1> QED
  BY <1>1, <1>2, <1>3, <1>4

\* and what it is for a chain and its FIFO, of which n bytes are read.
Strobed(c) == IF reader.hot = c /\ fifo[c].v2 > 0 THEN 4 ELSE 0
LEMMA ChainSees ==
  ASSUME ShapeInv, RdEdge, NEW c \in Chains
  PROVE  /\ Syncs(c, chain[c], reader, reader')
         /\ reader'.fin[c] <=> Fin(reader, c)
         /\ reader'.cnt[c] = IF Flagged(reader, c) /\ ~reader.timed[c] THEN Count(chain[c])
                             ELSE reader.cnt[c]
         /\ Pops(fifo[c], Strobed(c), fifo'[c])
         /\ fifo'[c].valid <=> Strobed(c) = 4
         /\ fifo'[c].dout = SubSeq(fifo[c].q, 1, Strobed(c))
         /\ DOMAIN fifo'[c] = FifoFields
<1>1. PICK flag, count, valid, dout :
           /\ ReaderTicks(reader, flag, count, valid, dout, reader')
           /\ \A d \in Chains : flag[d] = chain[d].flag /\ count[d] = Count(chain[d])
  BY ReaderSees
<1>2. /\ reader'.s0 = flag /\ reader'.s1 = reader.s0 /\ reader'.s2 = reader.s1
      /\ reader'.fin[c] <=> Fin(reader, c)
      /\ reader'.cnt[c] = (IF Flagged(reader, c) /\ ~reader.timed[c] THEN count[c] ELSE reader.cnt[c])
  BY <1>1, Controls
<1>3. fifo'[c] = Read(c)
  BY DEF RdEdge
<1>4. Syncs(c, chain[c], reader, reader')
  BY <1>1, <1>2 DEF Syncs
<1>5. Pops(fifo[c], Strobed(c), fifo'[c])
  BY <1>3 DEF Pops, Read, Strobed
<1>6. (fifo'[c].valid <=> Strobed(c) = 4) /\ fifo'[c].dout = SubSeq(fifo[c].q, 1, Strobed(c))
  <2> DEFINE pop == reader.hot = c /\ fifo[c].v2 > 0
  <2>1. /\ fifo'[c].valid = pop
        /\ fifo'[c].dout = SubSeq(fifo[c].q, 1, IF pop THEN 4 ELSE 0)
    BY <1>3 DEF Read
  <2>2. Strobed(c) = IF pop THEN 4 ELSE 0
    BY DEF Strobed
  <2> HIDE DEF pop
  <2>3. Strobed(c) = 4 <=> pop
    BY <2>2
  <2>4. fifo'[c].valid <=> Strobed(c) = 4
    BY <2>1, <2>3, Zenon
  <2> QED
    BY <2>1, <2>2, <2>4
<1>7. DOMAIN fifo'[c] = FifoFields
  BY <1>3 DEF Read, FifoFields
<1> QED
  BY <1>1, <1>2, <1>4, <1>5, <1>6, <1>7

\* The bytes left from one clock to the next.
LEMMA LeftMoves ==
  ASSUME NEW w \in Nat \ {0}, NEW h \in Chains, NEW l \in 0 .. w + 1, NEW c \in Chains,
         NEW n, n = IF c = h /\ Left(h, l, c, w) > 0 THEN 4 ELSE 0
  PROVE  /\ n \in {0, 4} /\ Left(h, l, c, w) \in Nat /\ n <= Left(h, l, c, w)
         /\ l <= w => Left(h, l, c, w) - n = Left(h, l + 1, c, w)
         /\ l = w + 1 => Left(h, l, c, w) - n = Left(h + 1, 0, c, w)
         /\ c = h => (Left(h, l, c, w) > 0 <=> l < w)
         /\ c = h /\ l < w => 4 * w - Left(h, l, c, w) = 4 * l
<1>1. M \in 1 .. 8 /\ h \in 1 .. M /\ c \in 1 .. M /\ l \in Nat /\ l <= w + 1
  BY MAssumption DEF Chains
<1>2. CASE c < h
  BY <1>1, <1>2 DEF Left
<1>3. CASE c > h
  BY <1>1, <1>3 DEF Left
<1>4. CASE c = h
  <2>1. CASE l = 0
    BY <1>1, <1>4, <2>1 DEF Left
  <2>2. CASE l > 0 /\ l < w
    BY <1>1, <1>4, <2>2 DEF Left
  <2>3. CASE l >= w
    BY <1>1, <1>4, <2>3 DEF Left
  <2> QED
    BY <1>1, <2>1, <2>2, <2>3
<1> QED
  BY <1>1, <1>2, <1>3, <1>4

\* The strobed FIFO shows what is left of its frame: a strobe's last clocks
\* come before any byte of the next frame is seen.
LEMMA StrobedShows ==
  ASSUME Unhurried, NEW h \in Chains, NEW l \in 0 .. Words(turn) + 1,
         Going(h, (h - 1) * (Words(turn) + 2) + l - 2, Left(h, l, h, Words(turn)))
  PROVE  fifo[h].v2 = Left(h, l, h, Words(turn))
<1> DEFINE late == RdMin * (8 + ByteTime)
           p == (h - 1) * (Words(turn) + 2)
           w == Words(turn)
           left == Left(h, l, h, w)
<1>1. late \in Nat /\ M * (w + 2) <= late + 4 /\ w \in Nat \ {0}
  BY Hurry
<1>2. p \in Nat /\ p + w + 2 <= late + 4
  <2> HIDE DEF late, w
  <2> QED
    BY <1>1, TurnTimes DEF w
<1>3. /\ fifo[h].v1 \in Nat /\ fifo[h].v2 \in Nat
      /\ left > 0 => fifo[h].v2 = left
      /\ left = 0 /\ fifo[h].v2 > 0 => p + l - 2 >= late + 2
  BY DEF Going, Drains, Queue
<1>4. left \in Nat
  BY <1>1, LeftMoves
<1> HIDE DEF late, p, w, left
<1>5. l \in Nat /\ l <= w + 1
  BY <1>1 DEF w
<1>6. fifo[h].v2 = left
  BY <1>1, <1>2, <1>3, <1>4, <1>5
<1> QED
  BY <1>6 DEF left, w

-----------------------------------------------------------------------------
\* The reader waits: the chains' frames come in, and it notes them.
LEMMA AwaitsReads ==
  ASSUME ShapeInv, LocalInv, RdEdge, Awaits(reader, turn, at), \A c \in Chains : Coming(c) \/ There(c)
  PROVE  PhaseInv'
<1>1. /\ reader.hot = 0 /\ reader.finish /\ ~reader.start
      /\ \A c \in Chains : reader.finish0 /\ reader.timed[c] => reader.fin[c]
  BY DEF Awaits
<1>2. /\ turn' = turn /\ reader'.finish /\ reader'.finish0
      /\ \/ Awaits(reader', turn', at')
         \/ Starts(reader', at') /\ \A c \in Chains : reader.fin[c]
  <2>1. PICK flag, count, valid, dout : ReaderTicks(reader, flag, count, valid, dout, reader')
    BY ReaderSees
  <2>2. Counts(reader, turn, at, at', turn')
    BY DEF RdEdge, Counts
  <2> QED
    BY <2>1, <2>2, AwaitsMoves
<1>3. rdEdges' = rdEdges + 1 /\ rdEdges \in Nat /\ UNCHANGED <<chain, back, frame, index>>
  BY DEF RdEdge, ShapeInv
<1>4. ASSUME NEW c \in Chains
      PROVE  /\ Local(chain[c], frame[c], index[c]) /\ Syncs(c, chain[c], reader, reader')
             /\ Pops(fifo[c], 0, fifo'[c]) /\ (reader'.fin[c] <=> Fin(reader, c))
             /\ reader'.cnt[c] = IF Flagged(reader, c) /\ ~reader.timed[c] THEN Count(chain[c])
                                 ELSE reader.cnt[c]
  <2>1. Strobed(c) = 0
    BY <1>1, MAssumption DEF Strobed, Chains
  <2> QED
    BY <2>1, ChainSees DEF LocalInv
<1>5. ASSUME NEW c \in Chains, Coming(c) PROVE Coming(c)'
  <2>1. Gathers(c, chain[c], fifo[c], reader, back, rdEdges, frame[c], index[c], turn)
    BY <1>5 DEF Coming
  <2>2. Gathers(c, chain[c], fifo'[c], reader', back, rdEdges + 1, frame[c], index[c], turn)
    BY <1>1, <1>2, <1>3, <1>4, <2>1, GathersReads
  <2> QED
    BY <1>2, <1>3, <2>2 DEF Coming
<1>6. ASSUME NEW c \in Chains, There(c) PROVE There(c)'
  <2>1. Ready(c, chain[c], fifo[c], reader, back, frame[c], turn)
    BY <1>6 DEF There
  <2>2. Ready(c, chain[c], fifo'[c], reader', back, frame[c], turn)
    BY <1>1, <1>2, <1>4, <2>1, ReadyReads
  <2> QED
    BY <1>2, <1>3, <2>2 DEF There
<1>7. CASE Awaits(reader', turn', at')
  BY <1>5, <1>6, <1>7 DEF PhaseInv
<1>8. CASE Starts(reader', at') /\ \A c \in Chains : reader.fin[c]
  <2>1. \A c \in Chains : There(c)
    BY <1>8 DEF Coming, Gathers
  <2> QED
    BY <1>6, <1>8, <2>1 DEF PhaseInv
<1> QED
  BY <1>2, <1>7, <1>8

\* It begins to read.
LEMMA StartsReads ==
  ASSUME ShapeInv, LocalInv, RdEdge, Starts(reader, at), \A c \in Chains : There(c)
  PROVE  PhaseInv'
<1>1. reader.hot = 0 /\ reader.finish /\ \A c \in Chains : reader.fin[c]
  BY DEF Starts
<1>2. ASSUME NEW c \in Chains
      PROVE  /\ Ready(c, chain[c], fifo[c], reader, back, frame[c], turn)
             /\ reader.cnt[c] = 4 * Words(turn) /\ ~Flagged(reader, c)
  BY <1>1 DEF There, Ready, Flagged
<1>3. ASSUME NEW c \in Chains
      PROVE  /\ Local(chain[c], frame[c], index[c]) /\ Syncs(c, chain[c], reader, reader')
             /\ Pops(fifo[c], 0, fifo'[c]) /\ ~fifo'[c].valid
  <2>1. Strobed(c) = 0
    BY <1>1, MAssumption DEF Strobed, Chains
  <2> QED
    BY <2>1, ChainSees DEF LocalInv
<1>4. 1 \in Chains
  BY MAssumption DEF Chains
<1>5. turn' = turn /\ reader'.finish /\ Reads(reader', fifo'[1], turn', at', 1, 0)
  <2>1. PICK flag, count, valid, dout : ReaderTicks(reader, flag, count, valid, dout, reader')
    BY ReaderSees
  <2>2. Counts(reader, turn, at, at', turn')
    BY DEF RdEdge, Counts
  <2>3. \A c \in Chains : reader.cnt[c] = 4 * Words(turn) /\ ~Flagged(reader, c)
    BY <1>2
  <2>4. ~fifo'[1].valid
    BY <1>3, <1>4
  <2> QED
    BY <2>1, <2>2, <2>3, <2>4, StartsMoves
<1>6. UNCHANGED <<chain, back, frame, index>>
  BY DEF RdEdge
<1>7. ASSUME NEW c \in Chains
      PROVE  Drains(c, chain'[c], fifo'[c], reader', back', rdEdges', frame'[c], index'[c], turn',
                    (1 - 1) * (Words(turn') + 2) + 0 - 2, Left(1, 0, c, Words(turn')))
  <2>1. Left(1, 0, c, Words(turn)) = 4 * Words(turn)
    BY DEF Left, Chains
  <2> DEFINE time == (1 - 1) * (Words(turn) + 2) + 0 - 2
  <2> HIDE DEF time
  <2>2. Drains(c, chain[c], fifo'[c], reader', back, rdEdges', frame[c], index[c], turn, time,
               4 * Words(turn))
    BY <1>1, <1>2, <1>3, <1>5, ReadyStarts
  <2> QED
    BY <1>5, <1>6, <2>1, <2>2 DEF time
<1>8. 1 \in 1 .. M /\ 0 \in 0 .. Words(turn') + 1
  BY <1>4, WordsType DEF Chains
<1> QED
  BY <1>5, <1>7, <1>8 DEF PhaseInv, Going

\* It reads chain h, or goes on to the next.
LEMMA ReadsGoOn ==
  ASSUME Unhurried, ShapeInv, LocalInv, RdEdge, NEW h \in Chains, NEW l \in 0 .. Words(turn) + 1,
         Reads(reader, fifo[h], turn, at, h, l),
         \A c \in Chains :
           Going(c, (h - 1) * (Words(turn) + 2) + l - 2, Left(h, l, c, Words(turn)))
  PROVE  PhaseInv'
<1> DEFINE w == Words(turn)
           time == (h - 1) * (w + 2) + l - 2
           left(c) == Left(h, l, c, w)
<1>1. reader.hot = h /\ h # 0 /\ h \in 1 .. M /\ w \in Nat \ {0} /\ M \in 1 .. 8
  BY MAssumption, WordsType DEF Reads, Chains
<1>2. /\ rdEdges' = rdEdges + 1 /\ rdEdges \in Nat
      /\ chain' = chain /\ back' = back /\ frame' = frame /\ index' = index
  BY DEF RdEdge, ShapeInv
<1>3. /\ time \in Int
      /\ (h - 1) * (w + 2) + (l + 1) - 2 = time + 1
      /\ l = w + 1 => ((h + 1) - 1) * (w + 2) + 0 - 2 = time + 1
      /\ l = w + 1 /\ h = M => M * (w + 2) - 2 = time + 1
  <2> DEFINE p == (h - 1) * (w + 2)
             q == h * (w + 2)
  <2>1. w + 2 \in Nat
    BY <1>1
  <2>2. p \in Nat /\ q = p + (w + 2) /\ ((h + 1) - 1) * (w + 2) = q
    <3> HIDE DEF w
    <3> QED
      BY <2>1, TurnWords
  <2>3. h = M => M * (w + 2) = q
    OBVIOUS
  <2>4. l \in Nat /\ time = p + l - 2
    BY <1>1
  <2> HIDE DEF p, q, time, w
  <2>5. /\ time \in Int
        /\ p + (l + 1) - 2 = time + 1
        /\ l = w + 1 => q + 0 - 2 = time + 1
    BY <1>1, <2>2, <2>4
  <2> QED
    BY <2>2, <2>3, <2>5 DEF p
<1>4. fifo[h].v2 = left(h)
  BY StrobedShows
<1>5. ASSUME NEW c \in Chains
      PROVE  Strobed(c) = IF c = h /\ left(c) > 0 THEN 4 ELSE 0
  BY <1>1, <1>4 DEF Strobed
<1>6. ASSUME NEW c \in Chains
      PROVE  /\ Strobed(c) \in {0, 4} /\ left(c) \in Nat /\ Strobed(c) <= left(c)
             /\ l <= w => left(c) - Strobed(c) = Left(h, l + 1, c, w)
             /\ l = w + 1 => left(c) - Strobed(c) = Left(h + 1, 0, c, w)
             /\ c = h => (left(c) > 0 <=> l < w)
             /\ c = h /\ l < w => 4 * w - left(c) = 4 * l
  BY <1>1, <1>5, LeftMoves, SMTT(40)
<1>7. ASSUME NEW c \in Chains
      PROVE  /\ Local(chain[c], frame[c], index[c]) /\ Syncs(c, chain[c], reader, reader')
             /\ Pops(fifo[c], Strobed(c), fifo'[c]) /\ (fifo'[c].valid <=> Strobed(c) = 4)
             /\ fifo'[c].dout = SubSeq(fifo[c].q, 1, Strobed(c))
  BY ChainSees DEF LocalInv
<1>8. ASSUME NEW c \in Chains
      PROVE  Drains(c, chain[c], fifo[c], reader, back, rdEdges, frame[c], index[c], turn, time,
                    left(c))
  BY DEF Going
<1>9. ASSUME NEW c \in Chains PROVE ~Flagged(reader, c)
  <2>1. /\ Held(c, chain[c], reader, back) \/ Fallen(c, chain[c], index[c], reader, back, rdEdges)
        /\ reader.finish => chain[c].flag /\ NoFall(chain[c].finish0, back, reader.finish)
    BY <1>8 DEF Drains
  <2>2. PICK r2 : Syncs(c, chain[c], reader, r2) /\ ~r2.finish
    <3> DEFINE r3 == [s0 |-> [d \in Chains |-> chain[d].flag], s1 |-> reader.s0, s2 |-> reader.s1,
                      finish |-> FALSE]
    <3>1. Syncs(c, chain[c], reader, r3) /\ ~r3.finish
      BY DEF Syncs
    <3> QED
      BY <3>1
  <2> QED
    BY <1>2, <2>1, <2>2, TurnReads
<1> HIDE DEF left, time
<1>10. fifo'[h].valid <=> l < w
  BY <1>5, <1>6, <1>7
<1>11. ASSUME l < w PROVE fifo'[h].dout = Word(h, turn, l)
  <2>1. left(h) \in Nat \ {0} /\ 4 <= left(h) /\ 4 * w - left(h) = 4 * l /\ Strobed(h) = 4
    BY <1>5, <1>6, <1>11
  <2>2. Queue(h, fifo[h], turn, left(h), frame[h], index[h])
    BY <1>8 DEF Drains
  <2>3. SubSeq(fifo[h].q, 1, 4) = [k \in 1 .. 4 |-> <<h, turn, 4 * w - left(h) + k - 1>>]
    BY <1>7, <2>1, <2>2, QueuePops
  <2>4. fifo'[h].dout = SubSeq(fifo[h].q, 1, 4)
    BY <1>7, <2>1
  <2> QED
    BY <2>1, <2>3, <2>4 DEF Word
<1>12. PICK fi3 : ~fi3.valid /\ (h < M => fi3 = fifo'[h + 1])
  <2>1. CASE h < M
    <3>1. h + 1 \in Chains /\ h + 1 # h
      BY <1>1, <2>1 DEF Chains
    <3>2. ~fifo'[h + 1].valid
      BY <1>5, <1>7, <3>1
    <3> QED
      BY <3>2
  <2>2. CASE ~(h < M)
    <3> DEFINE none == [valid |-> FALSE]
    <3>1. ~none.valid
      OBVIOUS
    <3> QED
      BY <2>2, <3>1
  <2> QED
    BY <2>1, <2>2
<1>13. /\ turn' = turn /\ (reader'.finish => reader.finish)
       /\ l <= w => Reads(reader', fifo'[h], turn', at', h, l + 1)
       /\ l = w + 1 /\ h < M => Reads(reader', fifo'[h + 1], turn', at', h + 1, 0)
       /\ l = w + 1 /\ h = M => Ended(reader', turn', at')
  <2>1. PICK flag, count, valid, dout :
          /\ ReaderTicks(reader, flag, count, valid, dout, reader')
          /\ valid <=> reader.hot # 0 /\ fifo[reader.hot].valid
          /\ reader.hot # 0 => dout = fifo[reader.hot].dout
    BY ReaderSees
  <2>2. (valid <=> fifo[h].valid) /\ dout = fifo[h].dout
    BY <1>1, <2>1
  <2>3. Counts(reader, turn, at, at', turn')
    BY DEF RdEdge, Counts
  <2>4. (fifo'[h].valid <=> l < Words(turn)) /\ (fifo'[h].valid => fifo'[h].dout = Word(h, turn, l))
    BY <1>10, <1>11
  <2>5. /\ turn' = turn /\ (reader'.finish => reader.finish)
        /\ l <= Words(turn) => Reads(reader', fifo'[h], turn', at', h, l + 1)
        /\ l = Words(turn) + 1 /\ h < M => Reads(reader', fi3, turn', at', h + 1, 0)
        /\ l = Words(turn) + 1 /\ h = M => Ended(reader', turn', at')
    <3>1. Reads(reader, fifo[h], turn, at, h, l) /\ l \in 0 .. Words(turn) + 1
      OBVIOUS
    <3>2. PICK fi, fi2 : fi = fifo[h] /\ fi2 = fifo'[h]
      OBVIOUS
    <3>3. ReadsSees(reader, valid, dout, fi, fi2, fi3, turn, h, l) /\ Reads(reader, fi, turn, at, h, l)
      BY <1>9, <1>12, <2>2, <2>4, <3>1, <3>2 DEF ReadsSees
    <3>4. ReadsNext(reader, reader', turn, turn', at', fi2, fi3, h, l)
      BY <2>1, <2>3, <3>1, <3>3, ReadsMoves
    <3> QED
      BY <3>2, <3>4 DEF ReadsNext
  <2> QED
    BY <1>12, <2>5
<1>14. ASSUME NEW c \in Chains
       PROVE  Drains(c, chain[c], fifo'[c], reader', back, rdEdges + 1, frame[c], index[c], turn,
                     time + 1, left(c) - Strobed(c))
  BY <1>2, <1>3, <1>6, <1>7, <1>8, <1>13, DrainsReads, ZenonT(60)
<1>15. CASE l <= w
  <2>1. h \in 1 .. M /\ l + 1 \in 0 .. Words(turn') + 1
    BY <1>1, <1>13, <1>15
  <2>2. ASSUME NEW c \in Chains
        PROVE  Drains(c, chain'[c], fifo'[c], reader', back', rdEdges', frame'[c], index'[c], turn',
                      (h - 1) * (Words(turn') + 2) + (l + 1) - 2, Left(h, l + 1, c, Words(turn')))
    BY <1>2, <1>3, <1>6, <1>13, <1>14, <1>15
  <2> QED
    BY <1>13, <1>15, <2>1, <2>2 DEF PhaseInv, Going
<1>16. CASE l = w + 1 /\ h < M
  <2>1. h + 1 \in 1 .. M /\ 0 \in 0 .. Words(turn') + 1
    BY <1>1, <1>13, <1>16
  <2>2. ASSUME NEW c \in Chains
        PROVE  Drains(c, chain'[c], fifo'[c], reader', back', rdEdges', frame'[c], index'[c], turn',
                      ((h + 1) - 1) * (Words(turn') + 2) + 0 - 2, Left(h + 1, 0, c, Words(turn')))
    BY <1>2, <1>3, <1>6, <1>13, <1>14, <1>16
  <2> QED
    BY <1>13, <1>16, <2>1, <2>2 DEF PhaseInv, Going
<1>17. CASE l = w + 1 /\ h = M
  <2>1. ASSUME NEW c \in Chains
        PROVE  Drains(c, chain'[c], fifo'[c], reader', back', rdEdges', frame'[c], index'[c], turn',
                      M * (Words(turn') + 2) - 2, 0)
    <3>1. left(c) - Strobed(c) = 0
      BY <1>1, <1>6, <1>17 DEF Left, Chains
    <3> QED
      BY <1>2, <1>3, <1>13, <1>14, <1>17, <3>1
  <2> QED
    BY <1>13, <1>17, <2>1 DEF PhaseInv, Going
<1> QED
  BY <1>1, <1>15, <1>16, <1>17

\* It has read all chains,
LEMMA EndedReads ==
  ASSUME Unhurried, ShapeInv, LocalInv, RdEdge, Ended(reader, turn, at),
         \A c \in Chains : Going(c, M * (Words(turn) + 2) - 2, 0)
  PROVE  PhaseInv'
<1> DEFINE time == M * (Words(turn) + 2) - 2
<1>1. reader.hot = 0 /\ ~reader.finish
  BY DEF Ended
<1>2. /\ rdEdges' = rdEdges + 1 /\ rdEdges \in Nat
      /\ chain' = chain /\ back' = back /\ frame' = frame /\ index' = index
  BY DEF RdEdge, ShapeInv
<1>3. turn' = turn /\ ~reader'.finish /\ Stamps(reader', turn', at', 0)
  <2>1. PICK flag, count, valid, dout :
          /\ ReaderTicks(reader, flag, count, valid, dout, reader')
          /\ valid <=> reader.hot # 0 /\ fifo[reader.hot].valid
    BY ReaderSees
  <2>2. ~valid
    BY <1>1, <2>1
  <2>3. Counts(reader, turn, at, at', turn')
    BY DEF RdEdge, Counts
  <2> QED
    BY <2>1, <2>2, <2>3, EndedMoves
<1>4. time \in Int /\ M * (Words(turn) + 2) - 1 + 0 = time + 1
  <2>1. M * (Words(turn) + 2) \in Nat
    BY Hurry
  <2> QED
    BY <2>1
<1>5. ASSUME NEW c \in Chains
      PROVE  Drains(c, chain[c], fifo[c], reader, back, rdEdges, frame[c], index[c], turn, time, 0)
  BY DEF Going
<1> HIDE DEF time
<1>6. ASSUME NEW c \in Chains
      PROVE  Drains(c, chain[c], fifo'[c], reader', back, rdEdges + 1, frame[c], index[c], turn,
                    time + 1, 0)
  <2>1. Strobed(c) = 0
    BY <1>1, MAssumption DEF Strobed, Chains
  <2>2. /\ Local(chain[c], frame[c], index[c]) /\ Syncs(c, chain[c], reader, reader')
        /\ Pops(fifo[c], 0, fifo'[c])
    BY <2>1, ChainSees DEF LocalInv
  <2>3. PICK left \in Nat, n \in {0, 4} : left = 0 /\ n = 0 /\ n <= left /\ left - n = 0
    OBVIOUS
  <2>4. Drains(c, chain[c], fifo'[c], reader', back, rdEdges + 1, frame[c], index[c], turn,
               time + 1, left - n)
    BY <1>2, <1>3, <1>4, <1>5, <2>2, <2>3, DrainsReads
  <2> QED
    BY <2>3, <2>4
<1>7. 0 \in 0 .. M + 1
  BY MAssumption
<1>8. ASSUME NEW c \in Chains
      PROVE  Drains(c, chain'[c], fifo'[c], reader', back', rdEdges', frame'[c], index'[c], turn',
                    M * (Words(turn') + 2) - 1 + 0, 0)
  BY <1>2, <1>3, <1>4, <1>6
<1> QED
  BY <1>3, <1>7, <1>8 DEF PhaseInv, Going

\* and gives out the time stamps; then it is the next frame's turn.
LEMMA StampsReads ==
  ASSUME Unhurried, ShapeInv, LocalInv, RdEdge, NEW a \in 0 .. M + 1, Stamps(reader, turn, at, a),
         \A c \in Chains : Going(c, M * (Words(turn) + 2) - 1 + a, 0)
  PROVE  PhaseInv'
<1> DEFINE time == M * (Words(turn) + 2) - 1 + a
<1>1. reader.hot = 0 /\ ~reader.finish /\ (\A c \in Chains : ~reader.fin[c])
  BY DEF Stamps
<1>2. /\ rdEdges' = rdEdges + 1 /\ rdEdges \in Nat
      /\ chain' = chain /\ back' = back /\ frame' = frame /\ index' = index
  BY DEF RdEdge, ShapeInv
<1>3. time \in Int /\ M * (Words(turn) + 2) - 1 + (a + 1) = time + 1
  <2>1. M * (Words(turn) + 2) \in Nat
    BY Hurry
  <2> QED
    BY <2>1, MAssumption
<1>4. ASSUME NEW c \in Chains
      PROVE  Drains(c, chain[c], fifo[c], reader, back, rdEdges, frame[c], index[c], turn, time, 0)
  BY DEF Going
<1> HIDE DEF time
<1>5. ASSUME NEW c \in Chains
      PROVE  /\ Local(chain[c], frame[c], index[c]) /\ Syncs(c, chain[c], reader, reader')
             /\ Pops(fifo[c], 0, fifo'[c]) /\ (reader'.fin[c] <=> Fin(reader, c))
  <2>1. Strobed(c) = 0
    BY <1>1, MAssumption DEF Strobed, Chains
  <2> QED
    BY <2>1, ChainSees DEF LocalInv
<1>6. PICK left \in Nat, n \in {0, 4} : left = 0 /\ n = 0 /\ n <= left /\ left - n = 0
  OBVIOUS
<1>7. ASSUME NEW c \in Chains PROVE ~Flagged(reader, c)
  <2>1. /\ Held(c, chain[c], reader, back) \/ Fallen(c, chain[c], index[c], reader, back, rdEdges)
        /\ reader.finish => chain[c].flag /\ NoFall(chain[c].finish0, back, reader.finish)
    BY <1>4 DEF Drains
  <2>2. PICK r2 : Syncs(c, chain[c], reader, r2) /\ ~r2.finish
    <3> DEFINE r3 == [s0 |-> [d \in Chains |-> chain[d].flag], s1 |-> reader.s0, s2 |-> reader.s1,
                      finish |-> FALSE]
    <3>1. Syncs(c, chain[c], reader, r3) /\ ~r3.finish
      BY DEF Syncs
    <3> QED
      BY <3>1
  <2> QED
    BY <1>2, <2>1, <2>2, TurnReads
<1>8. /\ a <= M => turn' = turn /\ ~reader'.finish /\ Stamps(reader', turn', at', a + 1)
      /\ a = M + 1 => /\ turn' = NextFrame(turn) /\ reader'.finish
                      /\ Awaits(reader', turn', at')
  <2>1. PICK flag, count, valid, dout : ReaderTicks(reader, flag, count, valid, dout, reader')
    BY ReaderSees
  <2>2. Counts(reader, turn, at, at', turn')
    BY DEF RdEdge, Counts
  <2> QED
    BY <1>7, <2>1, <2>2, StampsMoves
<1>9. CASE a <= M
  <2>1. ASSUME NEW c \in Chains
        PROVE  Drains(c, chain[c], fifo'[c], reader', back, rdEdges + 1, frame[c], index[c], turn,
                      time + 1, 0)
    <3>1. Drains(c, chain[c], fifo'[c], reader', back, rdEdges + 1, frame[c], index[c], turn,
                 time + 1, left - n)
      BY <1>2, <1>3, <1>4, <1>5, <1>6, <1>8, <1>9, DrainsReads
    <3> QED
      BY <1>6, <3>1
  <2>2. a + 1 \in 0 .. M + 1
    BY <1>9, MAssumption
  <2>3. ASSUME NEW c \in Chains
        PROVE  Drains(c, chain'[c], fifo'[c], reader', back', rdEdges', frame'[c], index'[c], turn',
                      M * (Words(turn') + 2) - 1 + (a + 1), 0)
    BY <1>2, <1>3, <1>8, <1>9, <2>1
  <2> QED
    BY <1>8, <1>9, <2>2, <2>3 DEF PhaseInv, Going
<1>10. CASE a = M + 1
  <2>1. ASSUME NEW c \in Chains PROVE Coming(c)'
    <3>1. Gathers(c, chain[c], fifo'[c], reader', back, rdEdges + 1, frame[c], index[c],
                  NextFrame(turn))
      BY <1>1, <1>2, <1>4, <1>5, <1>8, <1>10, DrainsEnd
    <3> QED
      BY <1>2, <1>8, <1>10, <3>1 DEF Coming
  <2> QED
    BY <1>8, <1>10, <2>1 DEF PhaseInv
<1> QED
  BY <1>9, <1>10, MAssumption

\* The invariant is kept by an edge of rd_clk,
LEMMA RdEdgeKeeps ==
  ASSUME Unhurried, IInv, RdEdge
  PROVE  IInv'
<1>1. ShapeInv /\ LocalInv /\ PhaseInv
  BY DEF IInv
<1>2. ShapeInv'
  <2>1. rdEdges' \in Nat
    BY <1>1 DEF ShapeInv, RdEdge
  <2>2. DOMAIN reader' = ReaderFields
    BY <1>1, ReaderSees, ReaderMoves
  <2>3. \A c \in Chains : DOMAIN fifo'[c] = FifoFields
    BY <1>1, ChainSees
  <2> QED
    BY <2>1, <2>2, <2>3 DEF ShapeInv
<1>3. LocalInv'
  BY <1>1 DEF LocalInv, RdEdge
<1>4. PhaseInv'
  <2>1. CASE Awaits(reader, turn, at) /\ \A c \in Chains : Coming(c) \/ There(c)
    BY <1>1, <2>1, AwaitsReads
  <2>2. CASE Starts(reader, at) /\ \A c \in Chains : There(c)
    BY <1>1, <2>2, StartsReads
  <2>3. CASE \E h \in 1 .. M, l \in 0 .. Words(turn) + 1 :
               /\ Reads(reader, fifo[h], turn, at, h, l)
               /\ \A c \in Chains :
                    Going(c, (h - 1) * (Words(turn) + 2) + l - 2, Left(h, l, c, Words(turn)))
    BY <1>1, <2>3, ReadsGoOn DEF Chains
  <2>4. CASE Ended(reader, turn, at) /\ \A c \in Chains : Going(c, M * (Words(turn) + 2) - 2, 0)
    BY <1>1, <2>4, EndedReads
  <2>5. CASE \E a \in 0 .. M + 1 :
               /\ Stamps(reader, turn, at, a)
               /\ \A c \in Chains : Going(c, M * (Words(turn) + 2) - 1 + a, 0)
    BY <1>1, <2>5, StampsReads
  <2> QED
    BY <1>1, <2>1, <2>2, <2>3, <2>4, <2>5 DEF PhaseInv
<1> QED
  BY <1>2, <1>3, <1>4 DEF IInv

\* and holds at reset.
LEMMA InitKeeps ==
  ASSUME Init
  PROVE  IInv
<1>1. /\ reader = ReaderInit /\ back = <<FALSE, FALSE, FALSE>> /\ rdEdges = 0
      /\ turn = 0 /\ at = -1
  BY DEF Init
<1>2. ASSUME NEW c \in Chains
      PROVE  /\ chain[c] = ChainInit /\ frame[c] = 0 /\ index[c] = 0
             /\ fifo[c] = [q |-> <<>>, v1 |-> 0, v2 |-> 0, valid |-> FALSE, dout |-> <<>>]
  BY DEF Init
<1>3. ShapeInv
  BY <1>1, <1>2 DEF ShapeInv, ReaderInit, ReaderFields, FifoFields
<1>4. LocalInv
  <2>1. Local(ChainInit, 0, 0)
    BY DEF Local, ChainInit, TransferInv, DepInv, TailInv, IndexInv, FrameInv, Early, Pause,
           Reading, Between, Before, One
  <2> QED
    BY <1>2, <2>1 DEF LocalInv
<1>5. Awaits(reader, turn, at)
  BY <1>1 DEF Awaits, ReaderInit, Low
<1>6. ASSUME NEW c \in Chains PROVE Coming(c)
  <2>1. Queue(c, fifo[c], 0, 0, 0, 0)
    <3>1. Piece(c, 0, 0, 0) = <<>>
      <4>1. Piece(c, 0, 0, 0) \in Seq(PieceBytes(c, 0)) /\ Len(Piece(c, 0, 0, 0)) = 0
        BY PieceSeq
      <4> QED
        BY <4>1, EmptySeq
    <3> QED
      BY <1>2, <3>1 DEF Queue
  <2>2. Fallen(c, chain[c], 0, reader, back, rdEdges)
    BY <1>1, <1>2 DEF Fallen, ChainInit, ReaderInit, Low, NoFall
  <2>3. ~reader.fin[c]
    BY <1>1 DEF ReaderInit, Low
  <2> QED
    BY <1>1, <1>2, <2>1, <2>2, <2>3 DEF Coming, Gathers
<1> QED
  BY <1>3, <1>4, <1>5, <1>6 DEF IInv, PhaseInv

\* Each chain's counters agree with what it has written (LocalInv), and in
\* each phase of the reader every chain's frame is where it can be: coming,
\* there, or going while the next comes (PhaseInv; WrEdge and RdEdge).
THEOREM Invariance == Unhurried => (Spec => []IInv)
<1> SUFFICES ASSUME Unhurried PROVE Spec => []IInv
  OBVIOUS
<1>1. Init => IInv
  BY InitKeeps
<1>2. IInv /\ [Next]_vars => IInv'
  <2> SUFFICES ASSUME IInv, [Next]_vars PROVE IInv'
    OBVIOUS
  <2>1. CASE \E D \in SUBSET Awaiting : WrEdge(D)
    BY <2>1, WrEdgeKeeps
  <2>2. CASE RdEdge
    BY <2>2, RdEdgeKeeps
  <2>3. CASE UNCHANGED vars
    BY <2>3 DEF vars, IInv, ShapeInv, LocalInv, PhaseInv, Coming, There, Going
  <2> QED
    BY <2>1, <2>2, <2>3 DEF Next
<1> QED
  BY <1>1, <1>2, PTL DEF Spec

-----------------------------------------------------------------------------
LEMMA DivModOf ==
  ASSUME NEW w \in Nat \ {0}, NEW a \in Nat, NEW b \in 0 .. w - 1
  PROVE  (a * w + b) \div w = a /\ (a * w + b) % w = b
<1> DEFINE n == a * w + b
<1>1. n \in Nat
  OBVIOUS
<1> HIDE DEF n
<1>2. n % w \in 0 .. w - 1
  BY <1>1, Z3
<1>3. n \div w \in Nat
  BY <1>1, Z3
<1>4. PICK q \in Nat : q = n \div w
  BY <1>3
<1>5. n % w = n - q * w
  BY <1>1, <1>4, Z3
<1>6. PICK m \in 0 .. w - 1 : m = n % w
  BY <1>2
<1>7. a * w + b = q * w + m
  <2>1. n = q * w + m
    <3> DEFINE p == q * w
    <3>1. p \in Nat
      OBVIOUS
    <3>2. m = n - p
      BY <1>5, <1>6
    <3> HIDE DEF p
    <3>3. n = p + m
      BY <1>1, <1>6, <3>1, <3>2
    <3> QED
      BY <3>3 DEF p
  <2> QED
    BY <2>1 DEF n
<1>8. q = a
  <2>1. CASE q > a
    <3>1. PICK d \in Nat \ {0} : q = a + d
      BY <2>1
    <3>2. d * w >= w /\ d * w \in Nat /\ q * w = a * w + d * w
      BY <3>1
    <3> DEFINE x == a * w
               y == d * w
    <3>3. x \in Nat /\ y \in Nat /\ y >= w /\ x + b = x + y + m
      BY <1>7, <3>2
    <3> HIDE DEF x, y
    <3> QED
      BY <3>3
  <2>2. CASE q < a
    <3>1. PICK d \in Nat \ {0} : a = q + d
      BY <2>2
    <3>2. d * w >= w /\ d * w \in Nat /\ a * w = q * w + d * w
      BY <3>1
    <3> DEFINE x == q * w
               y == d * w
    <3>3. x \in Nat /\ y \in Nat /\ y >= w /\ x + y + b = x + m
      BY <1>7, <3>2
    <3> HIDE DEF x, y
    <3> QED
      BY <3>3
  <2> QED
    BY <2>1, <2>2
<1>9. m = b
  <2> DEFINE x == a * w
  <2>1. x \in Nat /\ x + b = x + m
    BY <1>7, <1>8
  <2> HIDE DEF x
  <2> QED
    BY <2>1
<1> QED
  BY <1>4, <1>6, <1>8, <1>9 DEF n

LEMMA NoRest == \A n \in Nat : (4 * n) % 4 = 0
<1> SUFFICES ASSUME NEW n \in Nat PROVE (4 * n) % 4 = 0
  OBVIOUS
<1>1. 4 * n \in Nat
  OBVIOUS
<1>2. (4 * n) \div 4 = n
  BY Fourths
<1> DEFINE m == 4 * n
<1>3. m = 4 * (m \div 4) + (m % 4) /\ m % 4 \in 0 .. 3
  BY <1>1, Quarter
<1> QED
  BY <1>2, <1>3

LEMMA InOrder ==
  ASSUME IInv, reader.valid
  PROVE  reader.out = Leaving(at)
<1> DEFINE w == Words(turn)
<1>1. PhaseInv /\ w \in Nat \ {0} /\ M \in 1 .. 8
  BY WordsType, MAssumption DEF IInv
<1>2. M * w \in Nat
  BY <1>1
<1>3. CASE Awaits(reader, turn, at)
  BY <1>3 DEF Awaits, Leaving
<1>4. CASE Starts(reader, at)
  BY <1>4 DEF Starts
<1>5. CASE \E h \in 1 .. M, l \in 0 .. Words(turn) + 1 : Reads(reader, fifo[h], turn, at, h, l)
  <2>1. PICK h \in 1 .. M, l \in 0 .. Words(turn) + 1 : Reads(reader, fifo[h], turn, at, h, l)
    BY <1>5
  <2>2. l >= 2 /\ reader.out = Word(h, turn, l - 2) /\ at = (h - 1) * w + (l - 2)
    BY <2>1 DEF Reads
  <2>3. PICK a \in Nat, b \in 0 .. w - 1 : a = h - 1 /\ b = l - 2
    BY <1>1, <2>2
  <2>4. at = a * w + b
    BY <2>2, <2>3
  <2>5. at \div w = a /\ at % w = b
    BY <1>1, <2>3, <2>4, DivModOf
  <2>6. at >= 0 /\ at < M * w
    <3>1. h \in Chains
      BY DEF Chains
    <3>2. (h - 1) * w \in Nat /\ h * w = (h - 1) * w + w /\ h * w <= M * w
      <4> HIDE DEF w
      <4> QED
        BY <1>1, <3>1, TurnWords
    <3> DEFINE x == (h - 1) * w
               y == h * w
               z == M * w
    <3>3. x \in Nat /\ y = x + w /\ y <= z /\ z \in Nat /\ at = x + b
      BY <1>2, <2>2, <2>3, <3>2
    <3> HIDE DEF x, y, z, w
    <3>4. at >= 0 /\ at < z
      BY <1>1, <2>3, <3>3
    <3> QED
      BY <3>4 DEF z
  <2>7. Leaving(at) = [i \in 1 .. 4 |-> <<a + 1, turn, 4 * b + i - 1>>]
    <3>1. Leaving(at) = IF at < 0 THEN <<"time", M>>
                        ELSE IF at < M * w
                          THEN [i \in 1 .. 4 |-> <<(at \div w) + 1, turn, 4 * (at % w) + i - 1>>]
                        ELSE <<"time", at - M * w + 1>>
      BY DEF Leaving
    <3>2. ~(at < 0)
      <4>1. a * w \in Nat
        BY <1>1, <2>3
      <4>2. at \in Int
        BY <2>3, <2>4, <4>1
      <4> QED
        BY <2>6, <4>2
    <3>3. Leaving(at) = [i \in 1 .. 4 |-> <<(at \div w) + 1, turn, 4 * (at % w) + i - 1>>]
      BY <2>6, <3>1, <3>2, Zenon
    <3> QED
      BY <2>5, <3>3, Zenon
  <2>8. a + 1 = h
    BY <2>3
  <2> QED
    BY <2>2, <2>3, <2>7, <2>8 DEF Word
<1>6. CASE Ended(reader, turn, at)
  BY <1>6 DEF Ended
<1>7. CASE \E a \in 0 .. M + 1 : Stamps(reader, turn, at, a)
  <2>1. PICK a \in 0 .. M + 1 : Stamps(reader, turn, at, a)
    BY <1>7
  <2> DEFINE z == M * w
  <2>2. a >= 2 /\ reader.out = <<"time", a - 1>> /\ at = z + (a - 2)
    BY <2>1 DEF Stamps
  <2>3. z \in Nat /\ a \in Nat
    BY <1>1, <1>2
  <2>4. Leaving(at) = IF at < 0 THEN <<"time", M>>
                      ELSE IF at < z
                        THEN [i \in 1 .. 4 |-> <<(at \div w) + 1, turn, 4 * (at % w) + i - 1>>]
                      ELSE <<"time", at - z + 1>>
    BY DEF Leaving
  <2>5. ~(at < 0) /\ ~(at < z) /\ at - z + 1 = a - 1
    <3> HIDE DEF z
    <3> QED
      BY <2>2, <2>3
  <2>6. Leaving(at) = <<"time", at - z + 1>>
    BY <2>4, <2>5, Zenon
  <2> HIDE DEF z
  <2> QED
    BY <2>2, <2>5, <2>6
<1> QED
  BY <1>1, <1>3, <1>4, <1>5, <1>6, <1>7 DEF PhaseInv

\* What the reader gives out is, word for word, chain 1's frame, chain 2's
\* and so on, one time stamp per chain, and then the next frame
\* (read_fifo_to_external_module.v: adc_chain_one_hot, m_fifo_out_*).
THEOREM FramesDelivered == Unhurried => (Spec => []FramesInOrder)
<1>1. IInv => FramesInOrder
  BY InOrder DEF FramesInOrder
<1> QED
  BY <1>1, Invariance, PTL

LEMMA WholeFrame ==
  ASSUME IInv, NEW c \in Chains, reader.fin[c]
  PROVE  /\ reader.cnt[c] = 4 * Words(turn)
         /\ fifo[c].v2 = 4 * Words(turn) /\ Len(fifo[c].q) = fifo[c].v2
<1>1. PhaseInv
  BY DEF IInv
<1>2. There(c)
  <2>1. CASE Awaits(reader, turn, at) /\ \A d \in Chains : Coming(d) \/ There(d)
    BY <2>1 DEF Coming, Gathers
  <2>2. CASE Starts(reader, at) /\ \A d \in Chains : There(d)
    BY <2>2
  <2>3. CASE \E h \in 1 .. M, l \in 0 .. Words(turn) + 1 :
               /\ Reads(reader, fifo[h], turn, at, h, l)
               /\ \A d \in Chains :
                    Going(d, (h - 1) * (Words(turn) + 2) + l - 2, Left(h, l, d, Words(turn)))
    BY <2>3 DEF Reads
  <2>4. CASE Ended(reader, turn, at) /\ \A d \in Chains : Going(d, M * (Words(turn) + 2) - 2, 0)
    BY <2>4 DEF Ended
  <2>5. CASE \E a \in 0 .. M + 1 :
               /\ Stamps(reader, turn, at, a)
               /\ \A d \in Chains : Going(d, M * (Words(turn) + 2) - 1 + a, 0)
    BY <2>5 DEF Stamps
  <2> QED
    BY <1>1, <2>1, <2>2, <2>3, <2>4, <2>5 DEF PhaseInv
<1>3. /\ reader.cnt[c] = 4 * Words(turn) /\ fifo[c].v2 = 4 * Words(turn)
      /\ fifo[c].q = Piece(c, turn, 0, 4 * Words(turn))
  BY <1>2 DEF There, Ready
<1>4. Len(fifo[c].q) = 4 * Words(turn)
  <2>1. Words(turn) \in Nat
    BY WordsType
  <2>2. PICK n \in Nat : n = 4 * Words(turn)
    BY <2>1
  <2>3. Len(Piece(c, turn, 0, n)) = n
    BY PieceSeq
  <2> QED
    BY <1>3, <2>2, <2>3
<1> QED
  BY <1>3, <1>4

\* When the reader has noted that a chain is done, that chain's FIFO holds
\* one whole frame, the reader sees all of it, and the count it took from the
\* other clock without a handshake is the frame's length
\* (read_fifo_to_external_module.v: adc_fifo_module_frame_finish, the count's
\* capture).
THEOREM FramesWhole == Unhurried => (Spec => []FrameReady)
<1>1. IInv => FrameReady
  BY WholeFrame DEF FrameReady
<1> QED
  BY <1>1, Invariance, PTL

LEMMA Aligned ==
  ASSUME Unhurried, IInv, NEW c \in Chains, reader.hot = c
  PROVE  fifo[c].v2 % 4 = 0
<1>1. PhaseInv /\ c \in 1 .. M /\ M \in 1 .. 8 /\ c # 0
  BY MAssumption DEF IInv, Chains
<1>2. PICK h \in 1 .. M, l \in 0 .. Words(turn) + 1 :
         /\ Reads(reader, fifo[h], turn, at, h, l)
         /\ \A d \in Chains :
              Going(d, (h - 1) * (Words(turn) + 2) + l - 2, Left(h, l, d, Words(turn)))
  BY <1>1 DEF PhaseInv, Awaits, Starts, Ended, Stamps
<1>3. h = c
  BY <1>2 DEF Reads
<1>4. fifo[c].v2 = Left(c, l, c, Words(turn))
  BY <1>2, <1>3, StrobedShows
<1>5. PICK w \in Nat \ {0} : w = Words(turn)
  BY WordsType
<1>6. PICK n \in Nat : Left(c, l, c, w) = 4 * n
  <2>1. CASE l = 0
    BY <2>1 DEF Left
  <2>2. CASE l > 0 /\ l < w
    <3>1. w - l \in Nat /\ Left(c, l, c, w) = 4 * (w - l)
      BY <1>5, <2>2, <1>1 DEF Left
    <3> QED
      BY <3>1
  <2>3. CASE l >= w
    <3>1. Left(c, l, c, w) = 4 * 0
      BY <1>1, <1>5, <2>3 DEF Left
    <3> QED
      BY <3>1
  <2> QED
    BY <1>5, <2>1, <2>2, <2>3
<1> QED
  BY <1>4, <1>5, <1>6, NoRest

\* The strobe never meets a part of a word, although it lasts two clocks
\* longer than the frame (read_fifo_to_external_module.v: rd_en is one-hot
\* until dep reaches the word count; fifo_async.v reads whole words): what
\* AsyncFifo assumes as Aligned.
THEOREM StrobesWhole == Unhurried => (Spec => []StrobesAligned)
<1> SUFFICES ASSUME Unhurried PROVE Spec => []StrobesAligned
  OBVIOUS
<1>1. IInv => StrobesAligned
  BY Aligned DEF StrobesAligned
<1> QED
  BY <1>1, Invariance, PTL

-----------------------------------------------------------------------------
\* Ranges.  Only the types that IInv does not know of need an induction.
TypeInv ==
  /\ \A c \in Chains : chain[c] \in Chain
  /\ back \in BOOLEAN \X BOOLEAN \X BOOLEAN
  /\ reader.finish \in BOOLEAN
  /\ rdEdges \in 0 .. RdMax

LEMMA ChainTyped ==
  ASSUME Unhurried, NEW ch \in Chain, NEW drdy, NEW fin \in BOOLEAN, NEW ch2,
         ch2 = ChainEdge(ch, drdy, fin), NEW f, NEW i, Local(ch2, f, i)
  PROVE  ch2 \in Chain
<1>1. /\ ch2.state \in {"IDEL"} \cup Pause \cup Reading
      /\ TransferInv(ch2) /\ DepInv(ch2, f) /\ TailInv(ch2) /\ ch2.wen \in BOOLEAN
  BY DEF Local, IndexInv
<1>2. ch2.state \in {"IDEL"} \cup DOMAIN After
  BY <1>1 DEF After, Pause, Reading
<1>3. ch2.byteCnt \in 0 .. 255
  <2>1. CASE ch2.state \in Reading
    <3>1. RegByte[ch2.state] \in Nat /\ RegByte[ch2.state] <= 248
      <4>1. /\ Before(ch2.state) \in Nat /\ RegByte[ch2.state] \in Nat \ {0}
            /\ Before(ch2.state) + RegByte[ch2.state] <= 248
        BY <2>1, BeforeFits
      <4> QED
        BY <4>1
    <3>2. ch2.byteCnt \in 0 .. RegByte[ch2.state] + 1
      BY <1>1, <2>1 DEF TransferInv
    <3> QED
      BY <3>1, <3>2
  <2>2. CASE ch2.state \notin Reading
    BY <1>1, <2>2 DEF TransferInv
  <2> QED
    BY <2>1, <2>2
<1>4. ch2.tail \in 0 .. 24
  <2>1. TailEnd(ch2) \in 20 .. 23
    <3>1. ch2.frameDep \in Nat
      BY <1>1 DEF DepInv
    <3> QED
      BY <3>1, Supplements
  <2>2. ch2.state \in Early \/ ch2.state = "RDRDATA" \/ ch2.state \in Between
    BY <1>1 DEF Early, Between, Pause, Reading
  <2> QED
    BY <1>1, <2>1, <2>2 DEF TailInv
<1>5. /\ ch.depCnt \in 0 .. 255 /\ ch.frameDep \in 0 .. 255 /\ ch.byteDue \in 0 .. ByteTime
      /\ ch.sel \in BOOLEAN /\ ch.sel0 \in BOOLEAN /\ ch.flag \in BOOLEAN
  BY DEF Chain
<1>6. ch2.depCnt \in 0 .. 255
  <2> DEFINE x == (ch.depCnt + 1) % 256
  <2>1. x \in 0 .. 255
    <3>1. ch.depCnt + 1 \in Nat
      BY <1>5
    <3> QED
      BY <3>1, Z3
  <2>2. ch2.depCnt = IF ch.flagHp THEN 0 ELSE IF ch.sel /\ ch.byteDue = 1 THEN x ELSE ch.depCnt
    BY ChainFields
  <2> HIDE DEF x
  <2> QED
    BY <1>5, <2>1, <2>2
<1>7. ch2.frameDep \in 0 .. 255
  <2>1. ch2.frameDep = FrameDep(ch, ch2.state)
    BY ChainFields
  <2> QED
    BY <1>5, <2>1 DEF FrameDep
<1>8. ch2.byteDue \in 0 .. ByteTime
  <2>1. ch2.byteDue = IF ch.en THEN ByteTime ELSE IF ch.byteDue > 0 THEN ch.byteDue - 1 ELSE 0
    BY ChainFields
  <2> QED
    BY <1>5, <2>1, ByteTimeAssumption
<1>9. /\ ch2.sel \in BOOLEAN /\ ch2.sel0 \in BOOLEAN /\ ch2.sel1 \in BOOLEAN
      /\ ch2.flagHp \in BOOLEAN /\ ch2.flag \in BOOLEAN /\ ch2.finish0 \in BOOLEAN
  <2> DEFINE next == NextState(ch, drdy)
             at1 == ch.tail = TailEnd(ch)
             up == IF ch.flagHp THEN TRUE ELSE ch.flag /\ ~(ch.finish0 /\ ~fin)
             reads == next \in Reading
  <2>1. /\ ch2.sel = reads /\ ch2.sel0 = ch.sel /\ ch2.sel1 = ch.sel0
        /\ ch2.flagHp = at1 /\ ch2.flag = up /\ ch2.finish0 = fin
    BY DEF ChainEdge, ChainStep, Flag
  <2>2. reads \in BOOLEAN /\ at1 \in BOOLEAN
    <3>1. (reads = TRUE \/ reads = FALSE) /\ (at1 = TRUE \/ at1 = FALSE)
      OBVIOUS
    <3> HIDE DEF reads, at1
    <3> QED
      BY <3>1
  <2>3. up \in BOOLEAN
    <3>1. CASE ch.flagHp
      BY <3>1
    <3>2. CASE ~ch.flagHp
      <4>1. up = (ch.flag /\ ~(ch.finish0 /\ ~fin))
        BY <3>2
      <4> HIDE DEF up
      <4> QED
        BY <4>1, Zenon
    <3> QED
      BY <3>1, <3>2
  <2> HIDE DEF reads, at1, up
  <2> QED
    BY <1>5, <2>1, <2>2, <2>3
<1>10. ch2.en \in BOOLEAN
  <2> DEFINE next == NextState(ch, drdy)
             cnt == ByteCnt(ch, next, ByteIn(ch), RegByte)
  <2>1. ch2.en = cnt[2]
    BY DEF ChainEdge, ChainStep
  <2>2. \E n : \E b \in BOOLEAN : cnt = <<n, b>>
    <3> HIDE DEF next
    <3> QED
      BY DEF ByteCnt
  <2> HIDE DEF cnt
  <2>3. cnt[2] \in BOOLEAN
    BY <2>2
  <2> QED
    BY <2>1, <2>3
<1>11. ch2 = [state |-> ch2.state, sel |-> ch2.sel, sel0 |-> ch2.sel0, sel1 |-> ch2.sel1,
              byteCnt |-> ch2.byteCnt, en |-> ch2.en, byteDue |-> ch2.byteDue, wen |-> ch2.wen,
              tail |-> ch2.tail, depCnt |-> ch2.depCnt, frameDep |-> ch2.frameDep,
              flagHp |-> ch2.flagHp, flag |-> ch2.flag, finish0 |-> ch2.finish0]
  BY DEF ChainEdge, ChainStep
<1> QED
  BY <1>1, <1>2, <1>3, <1>4, <1>6, <1>7, <1>8, <1>9, <1>10, <1>11 DEF Chain

\* An edge of either clock keeps the types.
LEMMA TypesKept ==
  ASSUME Unhurried, IInv, IInv', TypeInv, [Next]_vars
  PROVE  TypeInv'
<1>1. /\ \A c \in Chains : chain[c] \in Chain
      /\ back \in BOOLEAN \X BOOLEAN \X BOOLEAN
      /\ reader.finish \in BOOLEAN
      /\ rdEdges \in 0 .. RdMax
  BY DEF TypeInv
<1>2. ASSUME NEW D \in SUBSET Awaiting, WrEdge(D) PROVE TypeInv'
  <2>1. /\ reader' = reader /\ rdEdges' = 0 /\ back' = <<reader.finish, back[1], back[2]>>
        /\ \A c \in Chains : chain'[c] = ChainEdge(chain[c], c \in D, back[3])
    BY <1>2 DEF WrEdge
  <2>2. back[1] \in BOOLEAN /\ back[2] \in BOOLEAN /\ back[3] \in BOOLEAN
    BY <1>1
  <2>3. ASSUME NEW c \in Chains PROVE chain'[c] \in Chain
    <3>1. Local(chain'[c], frame'[c], index'[c])
      BY DEF IInv, LocalInv
    <3>2. PICK ch \in Chain : ch = chain[c]
      BY <1>1
    <3>3. PICK fin \in BOOLEAN : fin = back[3]
      BY <2>2
    <3>4. chain'[c] = ChainEdge(ch, c \in D, fin)
      BY <2>1, <3>2, <3>3
    <3> QED
      BY <3>1, <3>4, ChainTyped
  <2>4. back' \in BOOLEAN \X BOOLEAN \X BOOLEAN
    BY <1>1, <2>1, <2>2
  <2>5. reader'.finish \in BOOLEAN /\ rdEdges' \in 0 .. RdMax
    BY <1>1, <2>1, RatioAssumption
  <2> QED
    BY <2>3, <2>4, <2>5 DEF TypeInv
<1>3. ASSUME RdEdge PROVE TypeInv'
  <2>1. chain' = chain /\ back' = back /\ rdEdges < RdMax /\ rdEdges' = rdEdges + 1
    BY <1>3 DEF RdEdge
  <2>2. reader'.finish \in BOOLEAN
    <3>1. ShapeInv
      BY DEF IInv
    <3>2. PICK flag, count, valid, dout : ReaderTicks(reader, flag, count, valid, dout, reader')
      BY <1>3, <3>1, ReaderSees
    <3>3. OutputHalf(reader, valid, dout, reader')
      BY <3>2, ReaderMoves
    <3> QED
      BY <1>1, <3>3 DEF OutputHalf
  <2>3. rdEdges' \in 0 .. RdMax
    BY <1>1, <2>1, RatioAssumption
  <2> QED
    BY <1>1, <2>1, <2>2, <2>3 DEF TypeInv
<1>4. CASE UNCHANGED vars
  BY <1>1, <1>4 DEF TypeInv, vars
<1> QED
  BY <1>2, <1>3, <1>4 DEF Next

\* A FIFO holds no more than a frame.
LEMMA QueueRange ==
  ASSUME Unhurried, NEW c, NEW ch, NEW fi, NEW f, NEW i, NEW g, NEW left \in Nat,
         left <= 4 * Words(g), Local(ch, f, i), Queue(c, fi, g, left, f, i)
  PROVE  Len(fi.q) \in 0 .. Depth /\ fi.v2 <= fi.v1 /\ fi.v1 <= Len(fi.q)
<1>1. PICK wf \in Nat, wg \in Nat : wf = Words(f) /\ wg = Words(g)
  BY WordsType
<1>2. 4 * wf <= Depth /\ 4 * wg <= Depth /\ Depth \in Nat
  BY <1>1, BytesFit, DepthAssumption
<1>3. CASE left > 0
  <2>1. fi.v1 = left /\ fi.v2 = left /\ fi.q = Piece(c, g, 4 * wg - left, left)
    BY <1>1, <1>3 DEF Queue
  <2>2. PICK lo \in Int : lo = 4 * wg - left
    <3>1. 4 * wg - left \in Int
      BY <1>1
    <3> QED
      BY <3>1
  <2>3. Len(fi.q) = left
    BY <2>1, <2>2, PieceSeq
  <2> QED
    BY <1>1, <1>2, <2>1, <2>3
<1>4. CASE left = 0
  <2>1. fi.v1 \in Nat /\ fi.v2 \in Nat /\ fi.v1 <= i /\ fi.v2 <= fi.v1 /\ fi.q = Piece(c, f, 0, i)
    BY <1>4 DEF Queue
  <2>2. i \in Nat /\ i <= 4 * wf
    <3> DEFINE one == One(ch.wen)
    <3>1. i \in Nat /\ one \in 0 .. 1 /\ i + one <= 4 * wf
      BY <1>1, IndexFits
    <3> HIDE DEF one
    <3> QED
      BY <3>1
  <2>3. Len(fi.q) = i
    BY <2>1, <2>2, PieceSeq
  <2> QED
    BY <1>2, <2>1, <2>2, <2>3
<1> QED
  BY <1>3, <1>4

LEMMA LeftRange ==
  ASSUME NEW w \in Nat \ {0}, NEW h \in Chains, NEW l \in 0 .. w + 1, NEW c \in Chains
  PROVE  Left(h, l, c, w) \in Nat /\ Left(h, l, c, w) <= 4 * w
<1>1. h \in Nat /\ c \in Nat /\ l \in Nat
  BY MAssumption DEF Chains
<1> QED
  BY <1>1 DEF Left

LEMMA QueuesTyped ==
  ASSUME Unhurried, IInv, NEW c \in Chains
  PROVE  Len(fifo[c].q) \in 0 .. Depth /\ fifo[c].v2 <= fifo[c].v1 /\ fifo[c].v1 <= Len(fifo[c].q)
<1>1. Local(chain[c], frame[c], index[c]) /\ PhaseInv
  BY DEF IInv, LocalInv
<1>2. PICK w \in Nat \ {0} : w = Words(turn)
  BY WordsType
<1>3. ASSUME NEW left \in Nat, left <= 4 * Words(turn), NEW time, Going(c, time, left)
      PROVE  /\ Len(fifo[c].q) \in 0 .. Depth
             /\ fifo[c].v2 <= fifo[c].v1 /\ fifo[c].v1 <= Len(fifo[c].q)
  <2>1. Queue(c, fifo[c], turn, left, frame[c], index[c])
    BY <1>3 DEF Going, Drains
  <2> QED
    BY <1>1, <1>3, <2>1, QueueRange
<1>4. ASSUME Coming(c)
      PROVE  /\ Len(fifo[c].q) \in 0 .. Depth
             /\ fifo[c].v2 <= fifo[c].v1 /\ fifo[c].v1 <= Len(fifo[c].q)
  <2>1. Queue(c, fifo[c], turn, 0, frame[c], index[c])
    BY <1>4 DEF Coming, Gathers
  <2>2. PICK left \in Nat : left = 0 /\ left <= 4 * Words(turn)
    BY <1>2
  <2> QED
    BY <1>1, <2>1, <2>2, QueueRange
<1>5. ASSUME There(c)
      PROVE  /\ Len(fifo[c].q) \in 0 .. Depth
             /\ fifo[c].v2 <= fifo[c].v1 /\ fifo[c].v1 <= Len(fifo[c].q)
  <2>1. PICK n \in Nat : n = 4 * Words(turn) /\ n <= Depth
    BY <1>2, BytesFit
  <2>2. /\ fifo[c].v1 \in Nat /\ fifo[c].v2 \in Nat /\ fifo[c].v1 <= n /\ fifo[c].v2 <= fifo[c].v1
        /\ fifo[c].q = Piece(c, turn, 0, n)
    BY <1>5, <2>1 DEF There, Ready
  <2>3. Len(Piece(c, turn, 0, n)) = n
    BY <2>1, PieceSeq
  <2>4. Len(fifo[c].q) = n
    BY <2>2, <2>3
  <2> QED
    BY <2>1, <2>2, <2>4, DepthAssumption
<1>6. 0 \in Nat /\ 0 <= 4 * Words(turn)
  BY <1>2
<1>7. CASE (\A d \in Chains : Coming(d) \/ There(d)) \/ (\A d \in Chains : There(d))
  BY <1>4, <1>5, <1>7
<1>8. CASE \E h \in 1 .. M, l \in 0 .. Words(turn) + 1 : \A d \in Chains :
             Going(d, (h - 1) * (Words(turn) + 2) + l - 2, Left(h, l, d, Words(turn)))
  <2>1. PICK h \in 1 .. M, l \in 0 .. Words(turn) + 1 : \A d \in Chains :
          Going(d, (h - 1) * (Words(turn) + 2) + l - 2, Left(h, l, d, Words(turn)))
    BY <1>8
  <2>2. PICK left \in Nat : left = Left(h, l, c, Words(turn)) /\ left <= 4 * Words(turn)
    BY <1>2, LeftRange DEF Chains
  <2> QED
    BY <1>3, <2>1, <2>2
<1>9. CASE \A d \in Chains : Going(d, M * (Words(turn) + 2) - 2, 0)
  BY <1>3, <1>6, <1>9
<1>10. CASE \E a \in 0 .. M + 1 : \A d \in Chains : Going(d, M * (Words(turn) + 2) - 1 + a, 0)
  BY <1>3, <1>6, <1>10
<1> QED
  BY <1>1, <1>7, <1>8, <1>9, <1>10 DEF PhaseInv

LEMMA RangesRight ==
  ASSUME Unhurried, IInv, TypeInv
  PROVE  TypeOK
<1>1. PhaseInv /\ M \in 1 .. 8
  BY MAssumption DEF IInv
<1>2. reader.hot \in 0 .. M /\ reader.addT \in 0 .. (M + 1)
  <2>1. CASE Awaits(reader, turn, at) \/ Starts(reader, at)
    BY <1>1, <2>1 DEF Awaits, Starts
  <2>2. CASE \E h \in 1 .. M, l \in 0 .. Words(turn) + 1 : Reads(reader, fifo[h], turn, at, h, l)
    BY <1>1, <2>2 DEF Reads
  <2>3. CASE Ended(reader, turn, at)
    BY <1>1, <2>3 DEF Ended
  <2>4. CASE \E a \in 0 .. M + 1 : Stamps(reader, turn, at, a)
    BY <1>1, <2>4 DEF Stamps
  <2> QED
    BY <1>1, <2>1, <2>2, <2>3, <2>4 DEF PhaseInv
<1>3. \A c \in Chains : /\ Len(fifo[c].q) \in 0 .. Depth
                        /\ fifo[c].v2 <= fifo[c].v1 /\ fifo[c].v1 <= Len(fifo[c].q)
  BY QueuesTyped
<1>4. (\A c \in Chains : chain[c] \in Chain) /\ rdEdges \in 0 .. RdMax
  BY DEF TypeInv
<1> QED
  BY <1>2, <1>3, <1>4 DEF TypeOK

\* The registers stay in range, no FIFO holds more than Depth bytes, and the
\* reader's view of a FIFO is never ahead of it (adc_chain_regcfg_r_max11040.v,
\* adc_fifo_async.v, read_fifo_to_external_module.v).
THEOREM TypeCorrect == Unhurried => (Spec => []TypeOK)
<1> SUFFICES ASSUME Unhurried PROVE Spec => []TypeOK
  OBVIOUS
<1>1. Init => TypeInv
  <2> SUFFICES ASSUME Init PROVE TypeInv
    OBVIOUS
  <2>1. ChainInit \in Chain
    BY ByteTimeAssumption DEF ChainInit, Chain, After
  <2>2. rdEdges = 0 /\ reader.finish = TRUE /\ back = <<FALSE, FALSE, FALSE>>
        /\ \A c \in Chains : chain[c] = ChainInit
    BY DEF Init, ReaderInit
  <2>3. back \in BOOLEAN \X BOOLEAN \X BOOLEAN /\ reader.finish \in BOOLEAN
    BY <2>2
  <2>4. rdEdges \in 0 .. RdMax
    BY <2>2, RatioAssumption
  <2>5. \A c \in Chains : chain[c] \in Chain
    BY <2>1, <2>2, Zenon
  <2> QED
    BY <2>3, <2>4, <2>5 DEF TypeInv
<1>2. IInv /\ IInv' /\ TypeInv /\ [Next]_vars => TypeInv'
  BY TypesKept
<1>3. IInv /\ TypeInv => TypeOK
  BY RangesRight
<1>4. Spec => []IInv
  BY Invariance
<1> QED
  BY <1>1, <1>2, <1>3, <1>4, PTL DEF Spec
=============================================================================
