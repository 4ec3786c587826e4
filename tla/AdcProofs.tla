------------------------------ MODULE AdcProofs ------------------------------
(***************************************************************************)
(* Proofs about one chain down to its SPI lines (AdcChainSpi), for every   *)
(* number of bytes in each transfer, every write time, frame counter and   *)
(* number of samples: each transfer reaches the MAX11040 whole and in its  *)
(* turn, whoever owns the SPI, and the reader is shown each byte once.     *)
(***************************************************************************)
EXTENDS AdcChainSpi, SequenceTheorems, TLAPS

-----------------------------------------------------------------------------
\* The first k bytes of transfer t, as they go out.
Said(t, k) == [i \in 1 .. k |-> ByteOf(t, i - 1)]

\* The SPI engine s does nothing, and a sequencer whose latch of finsh shows
\* fin, and whose two stages are in f, knows it.
Still(s) == s.finsh /\ s.sclk /\ s.bps = 0 /\ s.bit = 0
Known(f, fin) == fin /\ f.fin0 /\ f.fin1

\* A transfer t of n bytes by the sequencer c; a is the MAX11040's side.
\* Chosen, and nothing asked for yet.
Begun(c, f, fin, s, a) ==
  /\ c.sel /\ ~(c.sel0 /\ c.sel1) /\ c.byteCnt = 0 /\ ~c.en
  /\ Still(s) /\ Known(f, fin)
  /\ a.bits = 0 /\ a.heard = <<>>

\* Byte j is asked for.
Asked(c, f, fin, s, a, t, j) ==
  /\ c.sel /\ c.sel0 /\ c.sel1 /\ c.byteCnt = j + 1 /\ c.en
  /\ Still(s) /\ Known(f, fin) /\ f.data = ByteOf(t, j)
  /\ a.bits = 8 * j /\ a.heard = Said(t, j)

\* Clock q of bit m of byte j: SCLK falls between q = 1 and 2.
Bits(m, q) == IF q < 2 THEN m ELSE m + 1
Moving(c, f, fin, s, a, st, t, j, m, q) ==
  /\ c.sel /\ c.sel0 /\ c.sel1 /\ c.byteCnt = j + 1 /\ ~c.en
  /\ s.tx = ByteOf(t, j) /\ s.bps = q /\ s.bit = (IF q < 3 THEN m ELSE m + 1)
  /\ s.finsh <=> m = 7 /\ q = 3
  /\ s.sclk <=> q < 2
  /\ fin <=> m = 7 /\ q = 3
  /\ f.fin0 <=> m = 0 /\ q = 0
  /\ f.fin1 <=> m = 0 /\ q < 2
  /\ a.bits = 8 * j + Bits(m, q)
  /\ a.heard = Said(t, IF m = 7 /\ q >= 2 THEN j + 1 ELSE j)
  /\ Bits(m, q) > 0 => /\ s.rx = <<<<st, j>>, Bits(m, q)>>
                       /\ a.in = <<ByteOf(t, j), Bits(m, q)>>

\* Byte j is there: the sequencer sees the pulse.
Come(c, f, fin, s, a, st, t, j) ==
  /\ c.sel /\ c.sel0 /\ c.sel1 /\ c.byteCnt = j + 1 /\ ~c.en
  /\ Still(s) /\ fin /\ f.fin0 /\ ~f.fin1
  /\ a.bits = 8 * (j + 1) /\ a.heard = Said(t, j + 1)
  /\ s.dataout = <<<<st, j>>, 8>>

\* The last byte has come.
Complete(c, f, fin, s, a, n, t) ==
  /\ c.sel /\ c.sel0 /\ c.sel1 /\ c.byteCnt = n + 1 /\ ~c.en
  /\ Still(s) /\ Known(f, fin)
  /\ a.bits = 8 * n /\ a.heard = Said(t, n)

Transferring(c, f, fin, s, a, st, n, t) ==
  \/ Begun(c, f, fin, s, a)
  \/ \E j \in 0 .. n - 1 :
       \/ Asked(c, f, fin, s, a, t, j)
       \/ \E m \in 0 .. 7, q \in 0 .. 3 : Moving(c, f, fin, s, a, st, t, j, m, q)
       \/ Come(c, f, fin, s, a, st, t, j)
  \/ Complete(c, f, fin, s, a, n, t)

\* Clocks until the byte that is on its way comes, 0 if none is.
Due(s, f) ==
  IF ~s.finsh \/ s.bps = 3
    THEN SpiTime - s.bps - 4 * (IF s.bps = 3 THEN s.bit - 1 ELSE s.bit)
  ELSE IF f.fin0 /\ ~f.fin1 THEN 1 ELSE 0

-----------------------------------------------------------------------------
Pause == {"IDELtoRRCR", "RRCRtoRDRCR", "RDRCRtoRSICR", "RSICRtoRDRDATA", "RDRDATAtoIDEL"}
WritePause == {"IDELtoWRCR", "WRCRtoWDRCR", "WDRCRtoWSICR"}

\* Before, while and after the configuration is written.
WriterInv ==
  /\ w.state \in {"IDEL", "WSICRtoIDEL"} \cup WritePause \cup Writing
  /\ w.init \in 0 .. WriteTime
  /\ w.sel <=> w.state \in Writing
  /\ w.finsh <=> w.state = "WSICRtoIDEL"
  /\ w.busy <=> w.state \in WritePause \cup Writing
  /\ w.state \in WritePause \cup Writing => start /\ w.init = WriteTime /\ whrl
  /\ w.state = "IDEL" /\ ~start => w.init = 0
  /\ w.state = "WSICRtoIDEL" => w.init = WriteTime \/ (w.init = 0 /\ ~start)
  /\ w.state \notin Writing =>
       /\ ~w.en /\ w.byteCnt = 0 /\ (w.sel0 => w.sel1)
       /\ held.wfin /\ (start => w.fin0) /\ (w.init > 0 => w.fin0 /\ w.fin1)
  /\ w.state \in Writing =>
       Transferring(w, w, held.wfin, spi, adc, step, WRegByte[w.state], w.state)

\* The reader works only while the configuration stands.
ReaderInv ==
  /\ r.state \in {"IDEL"} \cup Pause \cup Reading
  /\ r.sel <=> r.state \in Reading
  /\ r.state # "IDEL" => start /\ rcfg /\ w.state = "WSICRtoIDEL" /\ w.init = WriteTime /\ ~whrl
  /\ ~whrl => (held.rDRDY <=> hp) /\ (r.state \notin Reading => held.rfin)
  /\ hp => ~Quiet
  /\ r.state \notin Reading =>
       /\ ~r.en /\ r.byteCnt = 0 /\ r.byteDue = 0 /\ (r.sel0 => r.sel1)
       /\ r_spi.fin1 => r_spi.fin0
       /\ r_spi.fin0 => held.rfin
  /\ r.state \in Pause \ {"IDELtoRRCR"} => r_spi.fin1
  /\ r.state \in Reading =>
       /\ Transferring(r, r_spi, held.rfin, spi, adc, step, RegByte[r.state], r.state)
       /\ r.byteDue = Due(spi, r_spi)

\* Nobody's transfer: the line rests.
LineInv == ~Selects => Still(spi) /\ adc.bits = 0 /\ adc.heard = <<>>

-----------------------------------------------------------------------------
\* The tail of a frame: TailEnd holds still while it is written, so the flag
\* is announced once.  Off: it is not being announced.
Off == ~r.flagHp /\ (r.tail <= 1 \/ r.tail > TailEnd(r))

TailInv ==
  /\ r.tail \in Nat /\ r.depCnt \in 0 .. 255 /\ r.frameDep \in 0 .. 255
  /\ r.state \notin Reading => r.depCnt <= r.frameDep
  /\ r.state \notin Reading \cup Between => Off /\ r.tail # 1
  /\ r.state \in Reading => Off /\ (r.sel0 => r.tail = 0)
  /\ r.state \in Between => r.tail <= TailEnd(r) + 1 /\ (r.flagHp => r.tail = TailEnd(r) + 1)

\* The frame reader takes its time with a flag.
FlagInv ==
  /\ ~r.flag => ~finish /\ ~r.finish0
  /\ ~frames.flag0 => ~r.finish0

\* The frames counted: never beyond the number asked for, and when they are
\* that many the flag is up, so that no DRDY starts another.
CountInv ==
  /\ frames.cnt \in 0 .. CntSize - 1
  /\ r.state \notin Between \/ Tailing(r) => (r.flag => frames.flag0)
  /\ r.state \in {"IDELtoRRCR", "RRCR", "RRCRtoRDRCR", "RDRCR", "RDRCRtoRSICR", "RSICR"} =>
       frames.cnt = 0
  /\ r.state = "RSICRtoRDRDATA" =>
       /\ frames.cnt <= 1
       /\ Tailing(r) \/ (r.flag /\ ~frames.flag0) => frames.cnt = 0
  /\ r.state = "RDRDATA" => frames.cnt < SampleNumber /\ ~r.flag
  /\ r.state = "RDRDATAtoIDEL" =>
       /\ frames.cnt <= SampleNumber
       /\ frames.cnt = SampleNumber => r.flag /\ frames.flag0
       /\ Tailing(r) => ~r.flag /\ frames.cnt < SampleNumber

\* Where in the run the two sequencers are.
Turn(t) ==
  CASE t \in {"IDELtoWRCR", "WRCR"} -> 1
    [] t \in {"WRCRtoWDRCR", "WDRCR"} -> 2
    [] t \in {"WDRCRtoWSICR", "WSICR"} -> 3
    [] t \in {"IDELtoRRCR", "RRCR"} -> 4
    [] t \in {"RRCRtoRDRCR", "RDRCR"} -> 5
    [] t \in {"RDRCRtoRSICR", "RSICR"} -> 6
    [] OTHER -> 7

RunInv ==
  /\ w.state \in WritePause \cup Writing => step = Turn(w.state)
  /\ w.state = "IDEL" /\ start => step = 1
  /\ w.state # "WSICRtoIDEL" /\ start => frames.cnt = 0
  /\ r.state # "IDEL" => step = Turn(r.state)
  /\ w.state = "WSICRtoIDEL" /\ r.state = "IDEL" =>
       \/ start /\ step = 4 /\ frames.cnt = 0
       \/ step = 7 /\ frames.cnt > 0 /\ (rcfg => r_spi.finsh)

\* What is compared is Boolean, and the MAX11040 has its fields.
ShapeInv ==
  /\ spi.sclk \in BOOLEAN /\ whrl \in BOOLEAN
  /\ {"bits", "heard"} \subseteq DOMAIN adc

IInv == ShapeInv /\ WriterInv /\ ReaderInv /\ LineInv /\ TailInv /\ FlagInv /\ CountInv /\ RunInv

-----------------------------------------------------------------------------
\* One clock of the SPI engine, of the MAX11040 that is selected, and of a
\* sequencer that stays in its transfer, as relations of values.
SpiMoves(s, s2, en, data, a, st) ==
  /\ s2.finsh <=> ~en /\ ((s.bit = 7 /\ s.bps = 2) \/ s.finsh)
  /\ s2.tx = IF en THEN data ELSE s.tx
  /\ s2.bps = IF s.finsh \/ s.bps = 3 THEN 0 ELSE s.bps + 1
  /\ s2.bit = IF s.finsh THEN 0 ELSE IF s.bps = 2 THEN (s.bit + 1) % 16 ELSE s.bit
  /\ s2.sclk <=> s.finsh \/ ~(s.sclk <=> s.bps \in {1, 3})
  /\ s2.mosi = IF s.finsh THEN <<"00", 0>> ELSE IF s.bit <= 7 THEN <<s.tx, s.bit>> ELSE s.mosi
  /\ s2.rx = IF ~s.finsh /\ s.sclk /\ s.bps \in {1, 3}
               THEN Take(s.rx, <<<<st, Len(a.heard)>>, a.bits % 8>>, s.bit) ELSE s.rx
  /\ s2.dataout = IF s.finsh THEN s.rx ELSE s.dataout

AdcMoves(s, s2, a, a2) ==
  LET in == Take(a.in, s2.mosi, a.bits % 8)
  IN  IF ~(s.sclk /\ ~s2.sclk) THEN a2 = a
      ELSE /\ a2.bits = a.bits + 1 /\ a2.in = in
           /\ a2.heard = IF a.bits % 8 < 7 THEN a.heard
                         ELSE Append(a.heard, IF in[2] = 8 THEN in[1] ELSE "cut")

Stays(c, c2, f, f2, fin, fin2, s2, n, t) ==
  /\ c2.sel /\ (c2.sel0 <=> c.sel) /\ (c2.sel1 <=> c.sel0)
  /\ IF (c.sel0 /\ ~c.sel1) \/ (f.fin0 /\ ~f.fin1 /\ c.byteCnt <= n)
       THEN c2.byteCnt = c.byteCnt + 1 /\ (c2.en <=> c.byteCnt # n)
       ELSE c2.byteCnt = c.byteCnt /\ ~c2.en
  /\ (f2.fin0 <=> fin) /\ (f2.fin1 <=> f.fin0) /\ f2.data = ByteOf(t, c.byteCnt)
  /\ fin2 <=> s2.finsh

DueMoves(c, s, s2, f, f2) ==
  Due(s2, f2) = IF c.en THEN SpiTime ELSE IF Due(s, f) > 0 THEN Due(s, f) - 1 ELSE 0

-----------------------------------------------------------------------------
\* What has been said is a sequence, and grows byte by byte.
LEMMA SaidSeq ==
  ASSUME NEW t, NEW k \in Nat
  PROVE  /\ Len(Said(t, k)) = k
         /\ Append(Said(t, k), ByteOf(t, k)) = Said(t, k + 1)
<1> DEFINE S == {ByteOf(t, i) : i \in Nat}
           u == Said(t, k)
           v == Said(t, k + 1)
           x == Append(u, ByteOf(t, k))
<1>1. ASSUME NEW i \in Nat PROVE ByteOf(t, i) \in S
  OBVIOUS
<1>2. ASSUME NEW n \in Nat
      PROVE  /\ Said(t, n) \in [1 .. n -> S] /\ Said(t, n) \in Seq(S) /\ Len(Said(t, n)) = n
             /\ \A i \in 1 .. n : Said(t, n)[i] = ByteOf(t, i - 1)
  <2>1. \A i \in 1 .. n : ByteOf(t, i - 1) \in S
    BY <1>1, SMT
  <2> HIDE DEF S
  <2>2. Said(t, n) \in [1 .. n -> S]
    BY <2>1 DEF Said
  <2>3. Said(t, n) \in Seq(S)
    BY <2>2, SeqDef
  <2>4. DOMAIN Said(t, n) = 1 .. n
    BY <2>2
  <2>5. Len(Said(t, n)) = n
    BY <2>3, <2>4, LenProperties
  <2> QED
    BY <2>2, <2>3, <2>5 DEF Said
<1>3. ByteOf(t, k) \in S
  BY <1>1
<1> HIDE DEF S
<1>4. u \in Seq(S) /\ Len(u) = k /\ \A i \in 1 .. k : u[i] = ByteOf(t, i - 1)
  BY <1>2
<1>5. v \in Seq(S) /\ Len(v) = k + 1 /\ \A i \in 1 .. k + 1 : v[i] = ByteOf(t, i - 1)
  BY <1>2
<1> HIDE DEF u, v
<1>6. /\ x \in Seq(S) /\ Len(x) = k + 1 /\ x[k + 1] = ByteOf(t, k)
      /\ \A i \in 1 .. k : x[i] = u[i]
  BY <1>3, <1>4, AppendProperties
<1> HIDE DEF x
<1>7. \A i \in 1 .. k + 1 : x[i] = v[i]
  <2> TAKE i \in 1 .. k + 1
  <2>1. CASE i = k + 1
    <3>1. v[k + 1] = ByteOf(t, (k + 1) - 1)
      BY <1>5
    <3>2. (k + 1) - 1 = k
      OBVIOUS
    <3> QED
      BY <2>1, <3>1, <3>2, <1>6
  <2>2. CASE i \in 1 .. k
    BY <2>2, <1>4, <1>5, <1>6
  <2> QED
    BY <2>1, <2>2
<1>8. x = v
  BY <1>5, <1>6, <1>7, SeqEqual
<1> QED
  BY <1>4, <1>8 DEF x, u, v

\* The next bit of a byte joins it.
LEMMA TakeNext ==
  ASSUME NEW x, NEW b, NEW m \in Nat, m > 0 => b = <<x, m>>
  PROVE  Take(b, <<x, m>>, m) = <<x, m + 1>>
<1>1. <<x, m>>[1] = x /\ <<x, m>>[2] = m
  OBVIOUS
<1> QED
  BY <1>1 DEF Take

LEMMA BitNumber ==
  ASSUME NEW j \in Nat, NEW m \in 0 .. 7
  PROVE  (8 * j + m) % 8 = m
  BY Z3

LEMMA DueStill ==
  ASSUME NEW s, NEW f, NEW fin, Still(s), Known(f, fin)
  PROVE  Due(s, f) = 0
  BY DEF Still, Known, Due

-----------------------------------------------------------------------------
\* A transfer proceeds, phase by phase.
LEMMA FromBegun ==
  ASSUME NEW c, NEW c2, NEW f, NEW f2, NEW fin, NEW fin2, NEW s, NEW s2, NEW a, NEW a2,
         NEW st, NEW n \in Nat \ {0}, NEW t,
         Begun(c, f, fin, s, a), Stays(c, c2, f, f2, fin, fin2, s2, n, t),
         SpiMoves(s, s2, c.en, f.data, a, st), AdcMoves(s, s2, a, a2)
  PROVE  /\ Transferring(c2, f2, fin2, s2, a2, st, n, t)
         /\ DueMoves(c, s, s2, f, f2)
<1>1. Still(s2) /\ Known(f2, fin2)
  BY DEF Begun, Stays, SpiMoves, Still, Known
<1>2. a2 = a
  BY DEF Begun, SpiMoves, AdcMoves, Still
<1>5. DueMoves(c, s, s2, f, f2)
  <2>1. Due(s, f) = 0 /\ Due(s2, f2) = 0 /\ ~c.en
    BY <1>1, DueStill DEF Begun
  <2> QED
    BY <2>1 DEF DueMoves
<1>3. CASE ~c.sel0
  <2>1. Begun(c2, f2, fin2, s2, a2)
    BY <1>1, <1>2, <1>3 DEF Begun, Stays, Known
  <2> QED
    BY <1>5, <2>1 DEF Transferring
<1>4. CASE c.sel0
  <2>1. c2.sel /\ c2.sel0 /\ c2.sel1 /\ c2.byteCnt = 1 /\ c2.en /\ f2.data = ByteOf(t, 0)
    BY <1>4 DEF Begun, Stays
  <2>2. Said(t, 0) = <<>>
    BY DEF Said
  <2>3. Asked(c2, f2, fin2, s2, a2, t, 0)
    BY <1>1, <1>2, <2>1, <2>2 DEF Begun, Asked
  <2>4. 0 \in 0 .. n - 1
    OBVIOUS
  <2> QED
    BY <1>5, <2>3, <2>4 DEF Transferring
<1> QED
  BY <1>3, <1>4

LEMMA FromAsked ==
  ASSUME NEW c, NEW c2, NEW f, NEW f2, NEW fin, NEW fin2, NEW s, NEW s2, NEW a, NEW a2,
         NEW st, NEW n \in Nat \ {0}, NEW t, NEW j \in 0 .. n - 1,
         Asked(c, f, fin, s, a, t, j), Stays(c, c2, f, f2, fin, fin2, s2, n, t),
         SpiMoves(s, s2, c.en, f.data, a, st), AdcMoves(s, s2, a, a2)
  PROVE  /\ Transferring(c2, f2, fin2, s2, a2, st, n, t)
         /\ DueMoves(c, s, s2, f, f2)
<1>1. ~s2.finsh /\ s2.sclk /\ s2.bps = 0 /\ s2.bit = 0 /\ s2.tx = ByteOf(t, j)
  BY DEF Asked, SpiMoves, Still
<1>2. a2 = a
  BY <1>1 DEF AdcMoves
<1>3. /\ c2.sel /\ c2.sel0 /\ c2.sel1 /\ c2.byteCnt = j + 1 /\ ~c2.en
      /\ f2.fin0 /\ f2.fin1 /\ ~fin2
  BY <1>1 DEF Asked, Stays, Known
<1>4. Moving(c2, f2, fin2, s2, a2, st, t, j, 0, 0)
  BY <1>1, <1>2, <1>3 DEF Moving, Asked, Bits
<1>5. 0 \in 0 .. 7 /\ 0 \in 0 .. 3
  OBVIOUS
<1>6. Due(s2, f2) = SpiTime
  BY <1>1 DEF Due, SpiTime
<1> QED
  BY <1>4, <1>5, <1>6 DEF Transferring, DueMoves, Asked

\* A byte on its way: the clocks at which SCLK does not fall.
LEMMA FromMoving ==
  ASSUME NEW c, NEW c2, NEW f, NEW f2, NEW fin, NEW fin2, NEW s, NEW s2, NEW a, NEW a2,
         NEW st, NEW n \in Nat \ {0}, NEW t, NEW j \in 0 .. n - 1,
         NEW m \in 0 .. 7, NEW q \in {0, 2, 3},
         Moving(c, f, fin, s, a, st, t, j, m, q), Stays(c, c2, f, f2, fin, fin2, s2, n, t),
         SpiMoves(s, s2, c.en, f.data, a, st), AdcMoves(s, s2, a, a2)
  PROVE  /\ Transferring(c2, f2, fin2, s2, a2, st, n, t)
         /\ DueMoves(c, s, s2, f, f2)
<1>1. a2 = a
  BY DEF Moving, SpiMoves, AdcMoves
<1>2. /\ c2.sel /\ c2.sel0 /\ c2.sel1 /\ c2.byteCnt = j + 1 /\ ~c2.en
      /\ (f2.fin0 <=> fin) /\ (f2.fin1 <=> f.fin0) /\ (fin2 <=> s2.finsh) /\ ~c.en
  BY DEF Moving, Stays
<1>3. CASE q = 0
  <2>1. Moving(c2, f2, fin2, s2, a2, st, t, j, m, 1)
    BY <1>1, <1>2, <1>3 DEF Moving, SpiMoves, Bits
  <2>2. Due(s, f) = 33 - 4 * m /\ Due(s2, f2) = 32 - 4 * m
    BY <1>3, <2>1 DEF Due, SpiTime, Moving
  <2> QED
    BY <1>2, <2>1, <2>2 DEF Transferring, DueMoves
<1>4. CASE q = 2
  <2>1. Moving(c2, f2, fin2, s2, a2, st, t, j, m, 3)
    BY <1>1, <1>2, <1>4 DEF Moving, SpiMoves, Bits
  <2>2. Due(s, f) = 31 - 4 * m /\ Due(s2, f2) = 30 - 4 * m
    BY <1>4, <2>1 DEF Due, SpiTime, Moving
  <2> QED
    BY <1>2, <2>1, <2>2 DEF Transferring, DueMoves
<1>5. CASE q = 3 /\ m < 7
  <2>1. Moving(c2, f2, fin2, s2, a2, st, t, j, m + 1, 0)
    BY <1>1, <1>2, <1>5 DEF Moving, SpiMoves, Bits
  <2>2. Due(s, f) = 30 - 4 * m /\ Due(s2, f2) = 29 - 4 * m
    BY <1>5, <2>1 DEF Due, SpiTime, Moving
  <2>3. m + 1 \in 0 .. 7 /\ 0 \in 0 .. 3
    BY <1>5
  <2> QED
    BY <1>2, <2>1, <2>2, <2>3 DEF Transferring, DueMoves
<1>6. CASE q = 3 /\ m = 7
  <2>1. Come(c2, f2, fin2, s2, a2, st, t, j)
    BY <1>1, <1>2, <1>6 DEF Moving, SpiMoves, Bits, Come, Still
  <2>2. Due(s, f) = 2 /\ Due(s2, f2) = 1
    BY <1>6, <2>1 DEF Due, SpiTime, Moving, Come, Still
  <2> QED
    BY <1>2, <2>1, <2>2 DEF Transferring, DueMoves
<1> QED
  BY <1>3, <1>4, <1>5, <1>6

\* The clock at which SCLK falls: both sides take a bit.
LEMMA FromFalling ==
  ASSUME NEW c, NEW c2, NEW f, NEW f2, NEW fin, NEW fin2, NEW s, NEW s2, NEW a, NEW a2,
         NEW st, NEW n \in Nat \ {0}, NEW t, NEW j \in 0 .. n - 1, NEW m \in 0 .. 7,
         Moving(c, f, fin, s, a, st, t, j, m, 1), Stays(c, c2, f, f2, fin, fin2, s2, n, t),
         SpiMoves(s, s2, c.en, f.data, a, st), AdcMoves(s, s2, a, a2)
  PROVE  /\ Transferring(c2, f2, fin2, s2, a2, st, n, t)
         /\ DueMoves(c, s, s2, f, f2)
<1>1. /\ c2.sel /\ c2.sel0 /\ c2.sel1 /\ c2.byteCnt = j + 1 /\ ~c2.en
      /\ (f2.fin0 <=> fin) /\ (f2.fin1 <=> f.fin0) /\ (fin2 <=> s2.finsh) /\ ~c.en
  BY DEF Moving, Stays
<1>2. /\ s.bps = 1 /\ s.bit = m /\ ~s.finsh /\ s.sclk /\ s.tx = ByteOf(t, j) /\ ~fin
      /\ ~f.fin0 /\ (f.fin1 <=> m = 0)
      /\ a.bits = 8 * j + m /\ a.heard = Said(t, j)
      /\ m > 0 => s.rx = <<<<st, j>>, m>> /\ a.in = <<ByteOf(t, j), m>>
  BY DEF Moving, Bits
<1>3. a.bits % 8 = m /\ Len(a.heard) = j
  <2>1. (8 * j + m) % 8 = m
    BY BitNumber
  <2>2. Len(Said(t, j)) = j
    BY SaidSeq
  <2> QED
    BY <1>2, <2>1, <2>2, Zenon
<1>4. /\ ~s2.finsh /\ ~s2.sclk /\ s2.bps = 2 /\ s2.bit = m /\ s2.tx = ByteOf(t, j)
      /\ s2.mosi = <<ByteOf(t, j), m>>
  BY <1>1, <1>2 DEF SpiMoves
<1>5. s2.rx = <<<<st, j>>, m + 1>>
  <2>1. s2.rx = Take(s.rx, <<<<st, j>>, m>>, m)
    BY <1>2, <1>3 DEF SpiMoves
  <2> QED
    BY <1>2, <2>1, TakeNext
<1>6. Take(a.in, s2.mosi, a.bits % 8) = <<ByteOf(t, j), m + 1>>
  BY <1>2, <1>3, <1>4, TakeNext
<1>7. /\ a2.bits = 8 * j + m + 1 /\ a2.in = <<ByteOf(t, j), m + 1>>
      /\ a2.heard = IF m < 7 THEN a.heard
                    ELSE Append(a.heard, IF m + 1 = 8 THEN ByteOf(t, j) ELSE "cut")
  <2> DEFINE in == Take(a.in, s2.mosi, a.bits % 8)
  <2>1. /\ a2.bits = a.bits + 1 /\ a2.in = in
        /\ a2.heard = IF a.bits % 8 < 7 THEN a.heard
                      ELSE Append(a.heard, IF in[2] = 8 THEN in[1] ELSE "cut")
    BY <1>2, <1>4, Zenon DEF AdcMoves
  <2>2. in[1] = ByteOf(t, j) /\ in[2] = m + 1 /\ in = <<ByteOf(t, j), m + 1>>
    BY <1>6
  <2> HIDE DEF in
  <2> QED
    BY <1>2, <1>3, <2>1, <2>2
<1>8. a2.heard = Said(t, IF m = 7 THEN j + 1 ELSE j)
  <2>1. CASE m < 7
    <3>1. a2.heard = Said(t, j) /\ m # 7
      BY <1>2, <1>7, <2>1
    <3> QED
      BY <3>1, Zenon
  <2>2. CASE m = 7
    <3>1. j \in Nat
      OBVIOUS
    <3>2. Append(Said(t, j), ByteOf(t, j)) = Said(t, j + 1)
      BY <3>1, SaidSeq, Zenon
    <3>3. ~(m < 7) /\ m + 1 = 8
      BY <2>2
    <3>4. a2.heard = Append(Said(t, j), ByteOf(t, j))
      BY <1>2, <1>7, <3>3, Zenon
    <3> QED
      BY <2>2, <3>2, <3>4, Zenon
  <2> QED
    BY <2>1, <2>2
<1>9. Moving(c2, f2, fin2, s2, a2, st, t, j, m, 2)
  BY <1>1, <1>2, <1>4, <1>5, <1>7, <1>8 DEF Moving, Bits
<1>10. Due(s, f) = 32 - 4 * m /\ Due(s2, f2) = 31 - 4 * m
  BY <1>2, <1>4 DEF Due, SpiTime
<1> QED
  BY <1>1, <1>9, <1>10 DEF Transferring, DueMoves

LEMMA FromCome ==
  ASSUME NEW c, NEW c2, NEW f, NEW f2, NEW fin, NEW fin2, NEW s, NEW s2, NEW a, NEW a2,
         NEW st, NEW n \in Nat \ {0}, NEW t, NEW j \in 0 .. n - 1,
         Come(c, f, fin, s, a, st, t, j), Stays(c, c2, f, f2, fin, fin2, s2, n, t),
         SpiMoves(s, s2, c.en, f.data, a, st), AdcMoves(s, s2, a, a2)
  PROVE  /\ Transferring(c2, f2, fin2, s2, a2, st, n, t)
         /\ DueMoves(c, s, s2, f, f2)
<1>1. Still(s2)
  BY DEF Come, SpiMoves, Still
<1>2. a2 = a
  BY <1>1 DEF AdcMoves, Still
<1>3. /\ c2.sel /\ c2.sel0 /\ c2.sel1 /\ c2.byteCnt = j + 2 /\ (c2.en <=> j + 1 # n)
      /\ Known(f2, fin2) /\ f2.data = ByteOf(t, j + 1)
  BY <1>1 DEF Come, Stays, Known, Still
<1>4. a.bits = 8 * (j + 1) /\ a.heard = Said(t, j + 1) /\ ~c.en
  BY DEF Come
<1>5. DueMoves(c, s, s2, f, f2)
  <2>1. Due(s, f) = 1
    BY DEF Come, Due, Still
  <2>2. Due(s2, f2) = 0
    BY <1>1, <1>3, DueStill
  <2> QED
    BY <1>4, <2>1, <2>2 DEF DueMoves
<1>6. CASE j + 1 = n
  <2>1. Complete(c2, f2, fin2, s2, a2, n, t)
    BY <1>1, <1>2, <1>3, <1>4, <1>6 DEF Complete
  <2> QED
    BY <1>5, <2>1 DEF Transferring
<1>7. CASE j + 1 # n
  <2>1. Asked(c2, f2, fin2, s2, a2, t, j + 1)
    BY <1>1, <1>2, <1>3, <1>4, <1>7 DEF Asked
  <2>2. j + 1 \in 0 .. n - 1
    BY <1>7
  <2> QED
    BY <1>5, <2>1, <2>2 DEF Transferring
<1> QED
  BY <1>6, <1>7

\* A sequencer that stays in its transfer keeps it in order.
LEMMA Proceeds ==
  ASSUME NEW c, NEW c2, NEW f, NEW f2, NEW fin, NEW fin2, NEW s, NEW s2, NEW a, NEW a2,
         NEW st, NEW n \in Nat \ {0}, NEW t,
         Transferring(c, f, fin, s, a, st, n, t), c.byteCnt <= n,
         Stays(c, c2, f, f2, fin, fin2, s2, n, t),
         SpiMoves(s, s2, c.en, f.data, a, st), AdcMoves(s, s2, a, a2)
  PROVE  /\ Transferring(c2, f2, fin2, s2, a2, st, n, t)
         /\ DueMoves(c, s, s2, f, f2)
<1>1. ~Complete(c, f, fin, s, a, n, t)
  BY DEF Complete
<1>2. CASE Begun(c, f, fin, s, a)
  BY <1>2, FromBegun
<1>3. ASSUME NEW j \in 0 .. n - 1, Asked(c, f, fin, s, a, t, j)
      PROVE  /\ Transferring(c2, f2, fin2, s2, a2, st, n, t)
             /\ DueMoves(c, s, s2, f, f2)
  BY <1>3, FromAsked
<1>4. ASSUME NEW j \in 0 .. n - 1, NEW m \in 0 .. 7, NEW q \in 0 .. 3,
             Moving(c, f, fin, s, a, st, t, j, m, q)
      PROVE  /\ Transferring(c2, f2, fin2, s2, a2, st, n, t)
             /\ DueMoves(c, s, s2, f, f2)
  <2>1. CASE q = 1
    BY <1>4, <2>1, FromFalling
  <2>2. CASE q \in {0, 2, 3}
    BY <1>4, <2>2, FromMoving
  <2> QED
    BY <2>1, <2>2
<1>5. ASSUME NEW j \in 0 .. n - 1, Come(c, f, fin, s, a, st, t, j)
      PROVE  /\ Transferring(c2, f2, fin2, s2, a2, st, n, t)
             /\ DueMoves(c, s, s2, f, f2)
  BY <1>5, FromCome
<1> QED
  BY <1>1, <1>2, <1>3, <1>4, <1>5 DEF Transferring

-----------------------------------------------------------------------------
\* What an edge does, field by field.
LEMMA WriterFields ==
  ASSUME WriteEdge
  PROVE  /\ w'.init = IF ~start THEN 0 ELSE IF w.init = WriteTime THEN w.init ELSE w.init + 1
         /\ w'.state = NextWrite(w.init = WriteTime)
         /\ w'.finsh <=> \/ w.state = "WSICR" /\ w'.state = "WSICRtoIDEL"
                         \/ w.finsh /\ w.init # 0
         /\ w'.busy <=> IF w.init = WriteTime THEN w'.state # "WSICRtoIDEL" ELSE w.busy
         /\ w'.sel <=> w'.state \in Writing
         /\ (w'.sel0 <=> w.sel) /\ (w'.sel1 <=> w.sel0)
         /\ (w'.fin0 <=> held.wfin) /\ (w'.fin1 <=> w.fin0)
         /\ w.init = WriteTime => w'.data = ByteOf(w'.state, w.byteCnt)
<1> DEFINE next == NextWrite(w.init = WriteTime)
           cnt == ByteCnt(w, next, Pulse(w), WRegByte)
           x == ByteOf(next, w.byteCnt)
<1>1. w' = [init |-> IF ~start THEN 0 ELSE IF w.init = WriteTime THEN w.init ELSE w.init + 1,
            state |-> next,
            finsh |-> (w.state = "WSICR" /\ next = "WSICRtoIDEL") \/ (w.finsh /\ w.init # 0),
            busy |-> IF w.init = WriteTime THEN next # "WSICRtoIDEL" ELSE w.busy,
            sel |-> next \in Writing, sel0 |-> w.sel, sel1 |-> w.sel0,
            byteCnt |-> cnt[1], en |-> cnt[2],
            data |-> IF w.init = WriteTime THEN x ELSE w.data,
            fin0 |-> held.wfin, fin1 |-> w.fin0]
  BY DEF WriteEdge
<1> HIDE DEF next, cnt, x
<1>2. w'.state = next
  BY <1>1
<1>3. x = ByteOf(w'.state, w.byteCnt)
  BY <1>2, Zenon DEF x
<1>4. w'.state = NextWrite(w.init = WriteTime)
  BY <1>2, Zenon DEF next
<1> QED
  BY <1>1, <1>2, <1>3, <1>4

\* The count of bytes and the enable.
LEMMA WriterCounts ==
  ASSUME WriteEdge
  PROVE  /\ w'.state \notin Writing => w'.byteCnt = 0 /\ ~w'.en
         /\ w'.state \in Writing =>
              IF (w.sel0 /\ ~w.sel1) \/ (w.fin0 /\ ~w.fin1 /\ w.byteCnt <= WRegByte[w'.state])
                THEN w'.byteCnt = w.byteCnt + 1 /\ (w'.en <=> w.byteCnt # WRegByte[w'.state])
                ELSE w'.byteCnt = w.byteCnt /\ ~w'.en
<1> DEFINE next == NextWrite(w.init = WriteTime)
           cnt == ByteCnt(w, next, Pulse(w), WRegByte)
<1>1. w'.state = next /\ w'.byteCnt = cnt[1] /\ w'.en = cnt[2]
  BY DEF WriteEdge
<1> HIDE DEF next
<1>2. DOMAIN WRegByte = Writing
  BY WRegByteAssumption
<1>3. w'.byteCnt = ByteCnt(w, w'.state, Pulse(w), WRegByte)[1]
      /\ w'.en = ByteCnt(w, w'.state, Pulse(w), WRegByte)[2]
  BY <1>1, Zenon
<1> HIDE DEF cnt
<1> QED
  BY <1>2, <1>3 DEF ByteCnt, Pulse, Selected

LEMMA ReaderFields ==
  ASSUME ReadEdge
  PROVE  /\ r'.state = NextRead
         /\ r'.sel <=> r'.state \in Reading
         /\ (r'.sel0 <=> r.sel) /\ (r'.sel1 <=> r.sel0)
         /\ r'.byteDue = IF r.en THEN SpiTime ELSE IF r.byteDue > 0 THEN r.byteDue - 1 ELSE 0
         /\ r'.tail = IF r.sel THEN 0
                      ELSE IF r'.state \in InFrame /\ r.tail <= TailEnd(r) THEN r.tail + 1
                      ELSE r.tail
         /\ r'.depCnt = IF r.flagHp THEN 0
                        ELSE IF r.sel /\ Pulse(r_spi) THEN (r.depCnt + 1) % 256 ELSE r.depCnt
         /\ r'.frameDep = FrameDep(r, r'.state)
         /\ r'.flagHp <=> r.tail = TailEnd(r)
         /\ r'.flag <=> IF r.flagHp THEN TRUE ELSE r.flag /\ ~(r.finish0 /\ ~finish)
         /\ r'.finish0 <=> finish
<1> DEFINE next == NextRead
           cnt == ByteCnt(r, next, Pulse(r_spi), RegByte)
           tailing == next \in InFrame /\ r.tail <= TailEnd(r)
           fd == FrameDep(r, next)
           te == TailEnd(r)
           pu == Pulse(r_spi)
           we == r.tail \in TailWrites(r)
<1>1. r' = [state    |-> next,
       sel      |-> next \in Reading, sel0 |-> r.sel, sel1 |-> r.sel0,
       byteCnt  |-> cnt[1], en |-> cnt[2],
       byteDue  |-> IF r.en THEN SpiTime ELSE IF r.byteDue > 0 THEN r.byteDue - 1 ELSE 0,
       wen      |-> IF r.sel THEN pu
                    ELSE IF next \in InFrame THEN tailing /\ we
                    ELSE r.wen,
       tail     |-> IF r.sel THEN 0 ELSE IF tailing THEN r.tail + 1 ELSE r.tail,
       depCnt   |-> IF r.flagHp THEN 0
                    ELSE IF r.sel /\ pu THEN (r.depCnt + 1) % 256 ELSE r.depCnt,
       frameDep |-> fd,
       flagHp   |-> r.tail = te,
       flag     |-> IF r.flagHp THEN TRUE ELSE r.flag /\ ~(r.finish0 /\ ~finish),
       finish0 |-> finish]
  BY DEF ReadEdge, ChainStep, Flag
<1>2. tailing <=> next \in InFrame /\ r.tail <= te
  OBVIOUS
<1> HIDE DEF next, cnt, fd, pu, we, te, tailing
<1>3. r'.state = next
  BY <1>1
<1>4. fd = FrameDep(r, r'.state) /\ r'.state = NextRead
  BY <1>3, Zenon DEF fd, next
<1>5. te = TailEnd(r) /\ (pu <=> Pulse(r_spi))
  BY DEF te, pu
<1> QED
  BY <1>1, <1>2, <1>3, <1>4, <1>5

LEMMA ReaderCounts ==
  ASSUME ReadEdge
  PROVE  /\ r'.state \notin Reading => r'.byteCnt = 0 /\ ~r'.en
         /\ r'.state \in Reading =>
              IF (r.sel0 /\ ~r.sel1) \/ (Pulse(r_spi) /\ r.byteCnt <= RegByte[r'.state])
                THEN r'.byteCnt = r.byteCnt + 1 /\ (r'.en <=> r.byteCnt # RegByte[r'.state])
                ELSE r'.byteCnt = r.byteCnt /\ ~r'.en
         /\ (r_spi'.fin0 <=> IF r_en THEN held.rfin ELSE r_spi.fin0)
         /\ (r_spi'.fin1 <=> IF r_en THEN r_spi.fin0 ELSE r_spi.fin1)
         /\ r_spi'.finsh <=> \/ r.state = "RDRDATAtoIDEL" /\ r'.state = "IDEL"
                             \/ r_spi.finsh /\ r_en
         /\ r_en => r_spi'.data = ByteOf(r'.state, r.byteCnt)
<1> DEFINE next == NextRead
           cnt == ByteCnt(r, next, Pulse(r_spi), RegByte)
           x == ByteOf(next, r.byteCnt)
<1>1. r'.state = next /\ r'.byteCnt = cnt[1] /\ r'.en = cnt[2]
  BY DEF ReadEdge, ChainStep
<1>2. r_spi' = [fin0 |-> IF r_en THEN held.rfin ELSE r_spi.fin0,
                fin1 |-> IF r_en THEN r_spi.fin0 ELSE r_spi.fin1,
                finsh |-> (r.state = "RDRDATAtoIDEL" /\ next = "IDEL") \/ (r_spi.finsh /\ r_en),
                data |-> IF r_en THEN x ELSE r_spi.data]
  BY DEF ReadEdge
<1> HIDE DEF next
<1>3. DOMAIN RegByte = Reading
  BY RegByteAssumption
<1>4. r'.byteCnt = ByteCnt(r, r'.state, Pulse(r_spi), RegByte)[1]
      /\ r'.en = ByteCnt(r, r'.state, Pulse(r_spi), RegByte)[2]
  BY <1>1, Zenon
<1>5. x = ByteOf(r'.state, r.byteCnt)
  BY <1>1, Zenon
<1> HIDE DEF cnt, x
<1>6. /\ r'.state \notin Reading => r'.byteCnt = 0 /\ ~r'.en
      /\ r'.state \in Reading =>
           IF (r.sel0 /\ ~r.sel1) \/ (Pulse(r_spi) /\ r.byteCnt <= RegByte[r'.state])
             THEN r'.byteCnt = r.byteCnt + 1 /\ (r'.en <=> r.byteCnt # RegByte[r'.state])
             ELSE r'.byteCnt = r.byteCnt /\ ~r'.en
  BY <1>3, <1>4 DEF ByteCnt, Selected
<1> QED
  BY <1>1, <1>2, <1>5, <1>6

LEMMA SpiFields ==
  ASSUME NEW en, NEW data, SpiEdge(en, data), spi.sclk \in BOOLEAN
  PROVE  SpiMoves(spi, spi', en, data, adc, step) /\ spi'.sclk \in BOOLEAN
<1> DEFINE last == spi.bit = 7 /\ spi.bps = 2
           toggle == spi.bps \in {1, 3}
           tk == Take(spi.rx, <<<<step, Len(adc.heard)>>, adc.bits % 8>>, spi.bit)
<1>1. spi' = [finsh |-> ~en /\ (last \/ spi.finsh),
              tx |-> IF en THEN data ELSE spi.tx,
              bps |-> IF spi.finsh \/ spi.bps = 3 THEN 0 ELSE spi.bps + 1,
              bit |-> IF spi.finsh THEN 0
                      ELSE IF spi.bps = 2 THEN (spi.bit + 1) % 16 ELSE spi.bit,
              sclk |-> spi.finsh \/ (spi.sclk # toggle),
              mosi |-> IF spi.finsh THEN <<"00", 0>>
                       ELSE IF spi.bit <= 7 THEN <<spi.tx, spi.bit>> ELSE spi.mosi,
              rx |-> IF ~spi.finsh /\ spi.sclk /\ toggle THEN tk ELSE spi.rx,
              dataout |-> IF spi.finsh THEN spi.rx ELSE spi.dataout]
  BY DEF SpiEdge, MISO
<1>2. spi'.sclk = (spi.finsh \/ (spi.sclk # toggle))
  BY <1>1
<1>3. spi'.sclk <=> spi.finsh \/ ~(spi.sclk <=> toggle)
  <2>1. spi.sclk = TRUE \/ spi.sclk = FALSE
    OBVIOUS
  <2>2. toggle = TRUE \/ toggle = FALSE
    OBVIOUS
  <2> HIDE DEF toggle
  <2>3. CASE toggle = TRUE
    BY <1>2, <2>1, <2>3, Zenon
  <2>4. CASE toggle = FALSE
    BY <1>2, <2>1, <2>4, Zenon
  <2> QED
    BY <2>2, <2>3, <2>4, Zenon
<1>4. spi'.sclk \in BOOLEAN
  BY <1>2, Zenon
<1> HIDE DEF tk
<1>5. /\ spi'.rx = IF ~spi.finsh /\ spi.sclk /\ toggle THEN tk ELSE spi.rx
      /\ spi'.finsh <=> ~en /\ (last \/ spi.finsh)
      /\ spi'.tx = IF en THEN data ELSE spi.tx
      /\ spi'.bps = IF spi.finsh \/ spi.bps = 3 THEN 0 ELSE spi.bps + 1
      /\ spi'.bit = IF spi.finsh THEN 0
                    ELSE IF spi.bps = 2 THEN (spi.bit + 1) % 16 ELSE spi.bit
      /\ spi'.mosi = IF spi.finsh THEN <<"00", 0>>
                     ELSE IF spi.bit <= 7 THEN <<spi.tx, spi.bit>> ELSE spi.mosi
      /\ spi'.dataout = IF spi.finsh THEN spi.rx ELSE spi.dataout
  BY <1>1
<1> QED
  BY <1>3, <1>4, <1>5, Zenon DEF SpiMoves, tk

LEMMA AdcFields ==
  ASSUME AdcEdge, {"bits", "heard"} \subseteq DOMAIN adc
  PROVE  /\ ~Selects' => adc'.bits = 0 /\ adc'.heard = <<>>
         /\ Selects' => AdcMoves(spi, spi', adc, adc')
         /\ {"bits", "heard"} \subseteq DOMAIN adc'
<1> DEFINE in == Take(adc.in, spi'.mosi, adc.bits % 8)
           said == IF in[2] = 8 THEN in[1] ELSE "cut"
           heard == IF adc.bits % 8 < 7 THEN adc.heard ELSE Append(adc.heard, said)
           sel == Selects'
           cleared == [adc EXCEPT !.bits = 0, !.heard = <<>>]
           taken == [bits |-> adc.bits + 1, in |-> in, heard |-> heard]
<1>1. adc' = IF ~sel THEN cleared ELSE IF ~(spi.sclk /\ ~spi'.sclk) THEN adc ELSE taken
  BY DEF AdcEdge
<1>2. /\ cleared.bits = 0 /\ cleared.heard = <<>>
      /\ {"bits", "heard"} \subseteq DOMAIN cleared
  OBVIOUS
<1> HIDE DEF cleared
<1>3. CASE ~sel
  BY <1>1, <1>2, <1>3, Zenon
<1>4. CASE sel
  <2>1. CASE ~(spi.sclk /\ ~spi'.sclk)
    BY <1>1, <1>4, <2>1, Zenon DEF AdcMoves
  <2>2. CASE spi.sclk /\ ~spi'.sclk
    <3>1. adc' = taken
      BY <1>1, <1>4, <2>2, Zenon
    <3> HIDE DEF in, heard
    <3>2. adc'.bits = adc.bits + 1 /\ adc'.in = in /\ adc'.heard = heard
      BY <3>1
    <3>3. {"bits", "heard"} \subseteq DOMAIN adc'
      BY <3>1
    <3> QED
      BY <1>4, <2>2, <3>2, <3>3, Zenon DEF AdcMoves, in, heard
  <2> QED
    BY <2>1, <2>2
<1> QED
  BY <1>3, <1>4

LEMMA LatchFields ==
  ASSUME Latches, whrl \in BOOLEAN, whrl' \in BOOLEAN
  PROVE  /\ whrl' => (held'.wDRDY <=> hp') /\ (held'.wfin <=> spi'.finsh)
         /\ ~whrl' => (held'.rDRDY <=> hp') /\ (held'.rfin <=> spi'.finsh)
         /\ ~whrl /\ ~whrl' => (held'.wfin <=> held.wfin)
         /\ whrl /\ whrl' => (held'.rfin <=> held.rfin)
         /\ held.wfin /\ spi'.finsh => held'.wfin
         /\ held.rfin /\ spi'.finsh => held'.rfin
<1> PICK late \in (IF whrl' # whrl THEN BOOLEAN ELSE {FALSE}) :
      held' = [wDRDY |-> IF whrl' \/ late THEN hp' ELSE held.wDRDY,
               wfin |-> IF whrl' \/ late THEN spi'.finsh ELSE held.wfin,
               rDRDY |-> IF ~whrl' \/ late THEN hp' ELSE held.rDRDY,
               rfin |-> IF ~whrl' \/ late THEN spi'.finsh ELSE held.rfin]
  BY DEF Latches
<1>1. /\ held'.wDRDY = IF whrl' \/ late THEN hp' ELSE held.wDRDY
      /\ held'.wfin = IF whrl' \/ late THEN spi'.finsh ELSE held.wfin
      /\ held'.rDRDY = IF ~whrl' \/ late THEN hp' ELSE held.rDRDY
      /\ held'.rfin = IF ~whrl' \/ late THEN spi'.finsh ELSE held.rfin
  OBVIOUS
<1>2. late => ~(whrl <=> whrl')
  OBVIOUS
<1> QED
  BY <1>1, <1>2, Zenon

-----------------------------------------------------------------------------
\* The writer stays in a transfer.
LEMMA WriterStays ==
  ASSUME ShapeInv, WriterInv, NEW drdy, Edge(drdy),
         w.state \in Writing, w.byteCnt <= WRegByte[w.state]
  PROVE  /\ w'.state = w.state /\ whrl' /\ step' = step
         /\ Transferring(w', w', held'.wfin, spi', adc', step, WRegByte[w.state], w.state)
<1> DEFINE t == w.state
           n == WRegByte[t]
<1>1. /\ whrl /\ w.init = WriteTime /\ ~w.finsh /\ start /\ w.sel
      /\ Transferring(w, w, held.wfin, spi, adc, step, n, t)
  <2>1. w.state \notin {"IDEL", "WSICRtoIDEL"}
    BY DEF Writing
  <2> QED
    BY <2>1, Zenon DEF WriterInv
<1>2. n \in Nat \ {0}
  BY WRegByteAssumption
<1>3. w'.state = t
  <2>1. w'.state = NextWrite(w.init = WriteTime)
    BY WriterFields DEF Edge
  <2> QED
    BY <2>1 DEF NextWrite, Writing
<1>4. whrl' /\ whrl' \in BOOLEAN
  <2>1. whrl' = ~(w.finsh /\ ~w.busy)
    BY DEF Edge
  <2> QED
    BY <1>1, <2>1
<1>5. Selects' /\ Selects
  <2>1. w'.sel
    BY <1>3, WriterFields, Zenon DEF Edge
  <2> QED
    BY <1>1, <1>4, <2>1 DEF Selects
<1>6. step' = step
  BY <1>1, <1>5 DEF Edge, Step
<1>7. SpiMoves(spi, spi', w.en, w.data, adc, step) /\ AdcMoves(spi, spi', adc, adc')
  <2>1. SpiEdge(w.en, w.data)
    BY <1>1, Zenon DEF Edge
  <2> QED
    BY <1>5, <2>1, SpiFields, AdcFields, Zenon DEF Edge, ShapeInv
<1>8. Stays(w, w', w, w', held.wfin, held'.wfin, spi', n, t)
  <2>1. held'.wfin <=> spi'.finsh
    BY <1>4, LatchFields, Zenon DEF Edge, ShapeInv
  <2>2. /\ w'.sel /\ (w'.sel0 <=> w.sel) /\ (w'.sel1 <=> w.sel0)
        /\ (w'.fin0 <=> held.wfin) /\ (w'.fin1 <=> w.fin0) /\ w'.data = ByteOf(t, w.byteCnt)
    BY <1>1, <1>3, WriterFields, Zenon DEF Edge
  <2>3. IF (w.sel0 /\ ~w.sel1) \/ (w.fin0 /\ ~w.fin1 /\ w.byteCnt <= n)
          THEN w'.byteCnt = w.byteCnt + 1 /\ (w'.en <=> w.byteCnt # n)
          ELSE w'.byteCnt = w.byteCnt /\ ~w'.en
    BY <1>3, WriterCounts, Zenon DEF Edge
  <2> QED
    BY <2>1, <2>2, <2>3, Zenon DEF Stays
<1> HIDE DEF n, t
<1>9. Transferring(w', w', held'.wfin, spi', adc', step, n, t)
  <2>1. w.byteCnt <= n
    BY DEF n, t
  <2> QED
    BY <1>1, <1>2, <1>7, <1>8, <2>1, Proceeds, Zenon
<1> QED
  BY <1>3, <1>4, <1>6, <1>9 DEF n, t

LEMMA ReaderStays ==
  ASSUME ShapeInv, ReaderInv, WriterInv, NEW drdy, Edge(drdy),
         r.state \in Reading, r.byteCnt <= RegByte[r.state]
  PROVE  /\ r'.state = r.state /\ step' = step
         /\ Transferring(r', r_spi', held'.rfin, spi', adc', step, RegByte[r.state], r.state)
         /\ r'.byteDue = Due(spi', r_spi')
<1> DEFINE t == r.state
           n == RegByte[t]
<1>1. /\ ~whrl /\ w.state = "WSICRtoIDEL" /\ w.init = WriteTime /\ w.finsh /\ ~w.busy
      /\ start /\ rcfg /\ r.sel /\ r_en
      /\ Transferring(r, r_spi, held.rfin, spi, adc, step, n, t)
      /\ r.byteDue = Due(spi, r_spi)
  <2>1. r.state # "IDEL" /\ "WSICRtoIDEL" \notin WritePause \cup Writing
    BY DEF Reading, WritePause, Writing
  <2> QED
    BY <2>1, Zenon DEF WriterInv, ReaderInv, r_en
<1>2. n \in Nat \ {0}
  BY RegByteAssumption
<1>3. r'.state = t
  <2>1. r'.state = NextRead
    BY ReaderFields DEF Edge
  <2> QED
    BY <2>1 DEF NextRead, NextState, Reading
<1>4. ~whrl' /\ whrl' \in BOOLEAN
  <2>1. whrl' = ~(w.finsh /\ ~w.busy)
    BY DEF Edge
  <2> QED
    BY <1>1, <2>1
<1>5. Selects' /\ Selects
  <2>1. r'.sel
    BY <1>3, ReaderFields, Zenon DEF Edge
  <2> QED
    BY <1>1, <1>4, <2>1 DEF Selects
<1>6. step' = step
  BY <1>1, <1>5 DEF Edge, Step
<1>7. SpiMoves(spi, spi', r.en, r_spi.data, adc, step) /\ AdcMoves(spi, spi', adc, adc')
  <2>1. SpiEdge(r.en, r_spi.data)
    BY <1>1, Zenon DEF Edge
  <2> QED
    BY <1>5, <2>1, SpiFields, AdcFields, Zenon DEF Edge, ShapeInv
<1>8. Stays(r, r', r_spi, r_spi', held.rfin, held'.rfin, spi', n, t)
  <2>1. held'.rfin <=> spi'.finsh
    BY <1>4, LatchFields, Zenon DEF Edge, ShapeInv
  <2>2. r'.sel /\ (r'.sel0 <=> r.sel) /\ (r'.sel1 <=> r.sel0)
    BY <1>1, <1>3, ReaderFields, Zenon DEF Edge
  <2>3. IF (r.sel0 /\ ~r.sel1) \/ (r_spi.fin0 /\ ~r_spi.fin1 /\ r.byteCnt <= n)
          THEN r'.byteCnt = r.byteCnt + 1 /\ (r'.en <=> r.byteCnt # n)
          ELSE r'.byteCnt = r.byteCnt /\ ~r'.en
    BY <1>3, ReaderCounts, Zenon DEF Edge, Pulse
  <2>4. /\ (r_spi'.fin0 <=> held.rfin) /\ (r_spi'.fin1 <=> r_spi.fin0)
        /\ r_spi'.data = ByteOf(t, r.byteCnt)
    BY <1>1, <1>3, ReaderCounts, Zenon DEF Edge
  <2> QED
    BY <2>1, <2>2, <2>3, <2>4, Zenon DEF Stays
<1>9. /\ Transferring(r', r_spi', held'.rfin, spi', adc', step, n, t)
      /\ DueMoves(r, spi, spi', r_spi, r_spi')
  <2> HIDE DEF n, t
  <2>1. r.byteCnt <= n
    BY DEF n, t
  <2> QED
    BY <1>1, <1>2, <1>7, <1>8, <2>1, Proceeds, Zenon
<1>10. r'.byteDue = Due(spi', r_spi')
  <2>1. r'.byteDue = IF r.en THEN SpiTime ELSE IF r.byteDue > 0 THEN r.byteDue - 1 ELSE 0
    BY ReaderFields, Zenon DEF Edge
  <2> QED
    BY <1>1, <1>9, <2>1, Zenon DEF DueMoves
<1> QED
  BY <1>3, <1>6, <1>9, <1>10

-----------------------------------------------------------------------------
\* A transfer is left only when it is complete.
LEMMA OnlyComplete ==
  ASSUME NEW c, NEW f, NEW fin, NEW s, NEW a, NEW st, NEW n \in Nat \ {0}, NEW t,
         Transferring(c, f, fin, s, a, st, n, t), ~(c.byteCnt <= n)
  PROVE  Complete(c, f, fin, s, a, n, t)
<1>1. ~Begun(c, f, fin, s, a)
  BY DEF Begun
<1>2. ASSUME NEW j \in 0 .. n - 1, c.byteCnt = j + 1 PROVE FALSE
  BY <1>2
<1>3. \A j \in 0 .. n - 1 :
        /\ Asked(c, f, fin, s, a, t, j) => c.byteCnt = j + 1
        /\ Come(c, f, fin, s, a, st, t, j) => c.byteCnt = j + 1
        /\ \A m, q : Moving(c, f, fin, s, a, st, t, j, m, q) => c.byteCnt = j + 1
  BY Zenon DEF Asked, Come, Moving
<1> QED
  BY <1>1, <1>2, <1>3, Zenon DEF Transferring

LEMMA StillStays ==
  ASSUME ShapeInv, NEW en, NEW data, SpiEdge(en, data), ~en, Still(spi), AdcEdge
  PROVE  /\ Still(spi')
         /\ Selects' => adc' = adc
<1>1. SpiMoves(spi, spi', en, data, adc, step)
  BY SpiFields DEF ShapeInv
<1>2. Still(spi')
  BY <1>1 DEF SpiMoves, Still
<1>3. Selects' => AdcMoves(spi, spi', adc, adc')
  BY AdcFields, Zenon DEF ShapeInv
<1> QED
  BY <1>2, <1>3, Zenon DEF AdcMoves, Still

\* Who is selected owns the SPI.
LEMMA Owner ==
  ASSUME WriterInv, ReaderInv
  PROVE  /\ Selects <=> w.state \in Writing \/ r.state \in Reading
         /\ r.state # "IDEL" => ~whrl /\ w.state = "WSICRtoIDEL"
         /\ w.state \in Writing => r.state = "IDEL" /\ whrl
<1>1. "IDEL" \notin Reading /\ "WSICRtoIDEL" \notin Writing
  BY DEF Reading, Writing
<1>2. r.state # "IDEL" => ~whrl /\ w.state = "WSICRtoIDEL"
  BY Zenon DEF ReaderInv
<1>3. w.state \in Writing => whrl
  BY Zenon DEF WriterInv
<1>4. (w.sel <=> w.state \in Writing) /\ (r.sel <=> r.state \in Reading)
  BY Zenon DEF WriterInv, ReaderInv
<1> QED
  BY <1>1, <1>2, <1>3, <1>4, Zenon DEF Selects

LEMMA Resting ==
  ASSUME ShapeInv, WriterInv, ReaderInv, LineInv, NEW drdy, Edge(drdy), ~Selects
  PROVE  /\ Still(spi') /\ spi'.finsh
         /\ adc'.bits = 0 /\ adc'.heard = <<>>
<1>1. w.state \notin Writing /\ r.state \notin Reading
  BY Owner, Zenon
<1>2. ~w.en /\ ~r.en
  BY <1>1, Zenon DEF WriterInv, ReaderInv
<1>3. Still(spi) /\ adc.bits = 0 /\ adc.heard = <<>>
  BY Zenon DEF LineInv
<1>4. AdcEdge /\ (whrl => SpiEdge(w.en, w.data)) /\ (~whrl => SpiEdge(r.en, r_spi.data))
  BY Zenon DEF Edge
<1>5. Still(spi') /\ (Selects' => adc' = adc)
  BY <1>2, <1>3, <1>4, StillStays
<1>6. ~Selects' => adc'.bits = 0 /\ adc'.heard = <<>>
  BY <1>4, AdcFields, Zenon DEF ShapeInv
<1> QED
  BY <1>3, <1>5, <1>6, Zenon DEF Still

LEMMA WriterEnds ==
  ASSUME ShapeInv, WriterInv, NEW drdy, Edge(drdy),
         w.state \in Writing, ~(w.byteCnt <= WRegByte[w.state])
  PROVE  /\ w'.state = AfterW[w.state] /\ whrl'
         /\ Complete(w, w, held.wfin, spi, adc, WRegByte[w.state], w.state)
         /\ Still(spi') /\ spi'.finsh
         /\ ~Selects' => adc'.bits = 0 /\ adc'.heard = <<>>
<1> DEFINE t == w.state
           n == WRegByte[t]
<1>1. /\ whrl /\ w.init = WriteTime /\ ~w.finsh
      /\ Transferring(w, w, held.wfin, spi, adc, step, n, t)
  <2>1. w.state \notin {"IDEL", "WSICRtoIDEL"}
    BY DEF Writing
  <2> QED
    BY <2>1, Zenon DEF WriterInv
<1>2. n \in Nat \ {0}
  BY WRegByteAssumption
<1>3. w'.state = AfterW[t]
  <2>1. w'.state = NextWrite(w.init = WriteTime)
    BY WriterFields DEF Edge
  <2> QED
    BY <2>1 DEF NextWrite, Writing
<1>4. whrl'
  <2>1. whrl' = ~(w.finsh /\ ~w.busy)
    BY DEF Edge
  <2> QED
    BY <1>1, <2>1
<1> HIDE DEF n, t
<1>5. Complete(w, w, held.wfin, spi, adc, n, t)
  <2>1. ~(w.byteCnt <= n)
    BY DEF n, t
  <2> QED
    BY <1>1, <1>2, <2>1, OnlyComplete, Zenon
<1>6. Still(spi) /\ ~w.en /\ SpiEdge(w.en, w.data) /\ AdcEdge
  BY <1>1, <1>5, Zenon DEF Complete, Edge
<1>7. Still(spi')
  BY <1>6, StillStays
<1>8. ~Selects' => adc'.bits = 0 /\ adc'.heard = <<>>
  BY <1>6, AdcFields, Zenon DEF ShapeInv
<1> QED
  BY <1>3, <1>4, <1>5, <1>7, <1>8, Zenon DEF Still, n, t

LEMMA ReaderEnds ==
  ASSUME ShapeInv, ReaderInv, WriterInv, NEW drdy, Edge(drdy),
         r.state \in Reading, ~(r.byteCnt <= RegByte[r.state])
  PROVE  /\ r'.state = After[r.state] /\ ~whrl'
         /\ Complete(r, r_spi, held.rfin, spi, adc, RegByte[r.state], r.state)
         /\ r.byteDue = 0
         /\ Still(spi') /\ spi'.finsh
         /\ ~Selects' => adc'.bits = 0 /\ adc'.heard = <<>>
<1> DEFINE t == r.state
           n == RegByte[t]
<1>1. /\ ~whrl /\ w.finsh /\ ~w.busy
      /\ Transferring(r, r_spi, held.rfin, spi, adc, step, n, t)
      /\ r.byteDue = Due(spi, r_spi)
  <2>1. r.state # "IDEL" /\ "WSICRtoIDEL" \notin WritePause \cup Writing
    BY DEF Reading, WritePause, Writing
  <2> QED
    BY <2>1, Zenon DEF WriterInv, ReaderInv
<1>2. n \in Nat \ {0}
  BY RegByteAssumption
<1>3. r'.state = After[t]
  <2>1. r'.state = NextRead
    BY ReaderFields DEF Edge
  <2> QED
    BY <2>1 DEF NextRead, NextState, Reading
<1>4. ~whrl'
  <2>1. whrl' = ~(w.finsh /\ ~w.busy)
    BY DEF Edge
  <2> QED
    BY <1>1, <2>1
<1> HIDE DEF n, t
<1>5. Complete(r, r_spi, held.rfin, spi, adc, n, t)
  <2>1. ~(r.byteCnt <= n)
    BY DEF n, t
  <2> QED
    BY <1>1, <1>2, <2>1, OnlyComplete, Zenon
<1>6. /\ Still(spi) /\ Known(r_spi, held.rfin) /\ ~r.en
      /\ SpiEdge(r.en, r_spi.data) /\ AdcEdge
  BY <1>1, <1>5, Zenon DEF Complete, Edge
<1>7. Still(spi')
  BY <1>6, StillStays
<1>8. ~Selects' => adc'.bits = 0 /\ adc'.heard = <<>>
  BY <1>6, AdcFields, Zenon DEF ShapeInv
<1>9. r.byteDue = 0
  BY <1>1, <1>6, DueStill, Zenon
<1> QED
  BY <1>3, <1>4, <1>5, <1>7, <1>8, <1>9, Zenon DEF Still, n, t

\* The program changes its mind only between two runs.
LEMMA SoftwareMoves ==
  ASSUME NEW drdy, Edge(drdy)
  PROVE  /\ start /\ ~Over => start'
         /\ start' /\ ~start => frames.cnt = 0
         /\ rcfg /\ ~Over => rcfg'
         /\ rcfg' /\ ~rcfg => frames.cnt = 0
<1>1. /\ start' \in {start} \cup {s \in BOOLEAN : IF s THEN frames.cnt = 0 ELSE Over}
      /\ rcfg' \in {rcfg} \cup {s \in BOOLEAN : IF s THEN frames.cnt = 0 ELSE Over}
  BY DEF Edge, Software
<1>2. start' = start \/ (start' /\ frames.cnt = 0) \/ (~start' /\ Over)
  BY <1>1, Zenon
<1>3. rcfg' = rcfg \/ (rcfg' /\ frames.cnt = 0) \/ (~rcfg' /\ Over)
  BY <1>1, Zenon
<1> QED
  BY <1>2, <1>3

-----------------------------------------------------------------------------
\* Where the writer may be, and where it goes.
LEMMA WriterGoes ==
  ASSUME WriterInv, RunInv, CountInv, NEW drdy, Edge(drdy)
  PROVE  \/ w.state = "IDEL" /\ w'.state = "IDEL" /\ w.init # WriteTime
         \/ w.state = "IDEL" /\ w'.state = "IDELtoWRCR" /\ w.init = WriteTime /\ start
         \/ w.state \in WritePause /\ w'.state = w.state
         \/ w.state \in WritePause /\ w'.state = AfterW[w.state]
         \/ w.state \in Writing /\ w'.state = w.state /\ w.byteCnt <= WRegByte[w.state]
         \/ w.state \in Writing /\ w'.state = AfterW[w.state] /\ ~(w.byteCnt <= WRegByte[w.state])
         \/ w.state = "WSICRtoIDEL" /\ w'.state = "WSICRtoIDEL" /\ w.init = WriteTime
         \/ w.state = "WSICRtoIDEL" /\ w'.state = "IDEL" /\ w.init = 0 /\ ~start
<1>1. /\ w.state \in {"IDEL", "WSICRtoIDEL"} \cup WritePause \cup Writing
      /\ w.finsh <=> w.state = "WSICRtoIDEL"
      /\ w.state \in WritePause \cup Writing => w.init = WriteTime
      /\ w.state = "IDEL" /\ ~start => w.init = 0
      /\ w.state = "WSICRtoIDEL" => w.init = WriteTime \/ (w.init = 0 /\ ~start)
  BY Zenon DEF WriterInv
<1>2. WriteTime # 0
  BY RunAssumption
<1>3. w'.state = NextWrite(w.init = WriteTime)
  BY WriterFields DEF Edge
<1>4. CASE w.state = "IDEL"
  <2>1. w'.state = IF w.init = WriteTime /\ ~w.finsh THEN "IDELtoWRCR" ELSE "IDEL"
    BY <1>3, <1>4 DEF NextWrite, Writing
  <2> QED
    BY <1>1, <1>2, <1>4, <2>1
<1>5. CASE w.state = "WSICRtoIDEL"
  <2>1. w'.state = IF w.init = WriteTime /\ w.finsh THEN "WSICRtoIDEL" ELSE "IDEL"
    BY <1>3, <1>5 DEF NextWrite, Writing
  <2> QED
    BY <1>1, <1>2, <1>5, <2>1
<1>6. CASE w.state \in Writing
  BY <1>3, <1>6 DEF NextWrite, Writing
<1>7. CASE w.state \in WritePause
  BY <1>3, <1>7 DEF NextWrite, WritePause, Writing
<1> QED
  BY <1>1, <1>4, <1>5, <1>6, <1>7

LEMMA AfterWValues ==
  /\ AfterW["IDELtoWRCR"] = "WRCR" /\ AfterW["WRCRtoWDRCR"] = "WDRCR"
  /\ AfterW["WDRCRtoWSICR"] = "WSICR"
  /\ AfterW["WRCR"] = "WRCRtoWDRCR" /\ AfterW["WDRCR"] = "WDRCRtoWSICR"
  /\ AfterW["WSICR"] = "WSICRtoIDEL"
BY DEF AfterW

\* A configuration that has begun is not withdrawn before a run is over.
LEMMA StartStays ==
  ASSUME RunInv, ReaderInv, CountInv, NEW drdy, Edge(drdy), start,
         w.state # "WSICRtoIDEL" \/ r.state # "IDEL" \/ frames.cnt = 0
  PROVE  start'
<1>1. w.state # "WSICRtoIDEL" => frames.cnt = 0
  BY Zenon DEF RunInv
<1>2. frames.cnt = 0 => ~(frames.cnt > 0)
  OBVIOUS
<1>3. ~Over
  BY <1>1, <1>2, Zenon DEF Over
<1> QED
  BY <1>3, SoftwareMoves, Zenon

LEMMA WriterKeepsPlace ==
  ASSUME WriterInv, ReaderInv, RunInv, CountInv, NEW drdy, Edge(drdy)
  PROVE  /\ w'.state \in {"IDEL", "WSICRtoIDEL"} \cup WritePause \cup Writing
         /\ w'.init \in 0 .. WriteTime
         /\ w'.sel <=> w'.state \in Writing
         /\ w'.finsh <=> w'.state = "WSICRtoIDEL"
         /\ w'.busy <=> w'.state \in WritePause \cup Writing
         /\ w'.state \in WritePause \cup Writing => start' /\ w'.init = WriteTime /\ whrl'
         /\ w'.state = "IDEL" /\ ~start' => w'.init = 0
         /\ w'.state = "WSICRtoIDEL" => w'.init = WriteTime \/ (w'.init = 0 /\ ~start')
<1>1. /\ w.init \in 0 .. WriteTime
      /\ w.finsh <=> w.state = "WSICRtoIDEL"
      /\ w.busy <=> w.state \in WritePause \cup Writing
      /\ w.state \in WritePause \cup Writing => start /\ w.init = WriteTime
      /\ w.state = "IDEL" /\ ~start => w.init = 0
      /\ w.state = "WSICRtoIDEL" => w.init = WriteTime \/ (w.init = 0 /\ ~start)
  BY Zenon DEF WriterInv
<1>2. WriteTime \in Nat \ {0}
  BY RunAssumption
<1>3. /\ w'.init = IF ~start THEN 0 ELSE IF w.init = WriteTime THEN w.init ELSE w.init + 1
      /\ w'.finsh <=> \/ w.state = "WSICR" /\ w'.state = "WSICRtoIDEL"
                      \/ w.finsh /\ w.init # 0
      /\ w'.busy <=> IF w.init = WriteTime THEN w'.state # "WSICRtoIDEL" ELSE w.busy
      /\ w'.sel <=> w'.state \in Writing
  BY WriterFields, Zenon DEF Edge
<1>4. whrl' <=> ~(w.finsh /\ ~w.busy)
  BY DEF Edge
<1>5. w'.init \in 0 .. WriteTime
  BY <1>1, <1>2, <1>3
<1>6. CASE w.state = "IDEL" /\ w'.state = "IDEL" /\ w.init # WriteTime
  <2>1. start => start'
    BY <1>6, StartStays
  <2> QED
    BY <1>1, <1>2, <1>3, <1>5, <1>6, <2>1 DEF WritePause, Writing
<1>7. CASE w.state = "IDEL" /\ w'.state = "IDELtoWRCR" /\ w.init = WriteTime /\ start
  <2>1. start'
    BY <1>7, StartStays
  <2> QED
    BY <1>1, <1>2, <1>3, <1>4, <1>5, <1>7, <2>1 DEF WritePause, Writing
<1>8. CASE /\ w.state \in WritePause \cup Writing
           /\ w'.state = w.state \/ w'.state = AfterW[w.state]
  <2>1. w.state \notin {"IDEL", "WSICRtoIDEL"}
    BY <1>8 DEF WritePause, Writing
  <2>2. start /\ start' /\ whrl' /\ w'.init = WriteTime /\ w.init = WriteTime
    BY <1>1, <1>3, <1>4, <1>8, <2>1, StartStays
  <2>3. \/ w'.state \in WritePause \cup Writing
        \/ w'.state = "WSICRtoIDEL" /\ w.state = "WSICR"
    BY <1>8, AfterWValues DEF WritePause, Writing
  <2>4. "WSICRtoIDEL" \notin WritePause \cup Writing /\ "IDEL" \notin WritePause \cup Writing
    BY DEF WritePause, Writing
  <2> QED
    BY <1>1, <1>3, <1>5, <2>1, <2>2, <2>3, <2>4, Zenon
<1>9. CASE w.state = "WSICRtoIDEL" /\ w'.state = "WSICRtoIDEL" /\ w.init = WriteTime
  <2>1. ~start => ~start'
    <3>1. ~start /\ start' => frames.cnt = 0
      BY SoftwareMoves
    <3>2. ~start => r.state = "IDEL"
      BY Zenon DEF ReaderInv
    <3>3. ~start => frames.cnt > 0
      BY <1>9, <3>2, Zenon DEF RunInv
    <3> QED
      BY <3>1, <3>3
  <2>2. w'.init = WriteTime \/ (w'.init = 0 /\ ~start')
    BY <1>3, <1>9, <2>1
  <2> QED
    BY <1>1, <1>2, <1>3, <1>5, <1>9, <2>2 DEF WritePause, Writing
<1>10. CASE w.state = "WSICRtoIDEL" /\ w'.state = "IDEL" /\ w.init = 0 /\ ~start
  BY <1>1, <1>2, <1>3, <1>5, <1>10 DEF WritePause, Writing
<1> QED
  BY <1>6, <1>7, <1>8, <1>9, <1>10, WriterGoes, Zenon

LEMMA WriterWaits ==
  ASSUME ShapeInv, WriterInv, ReaderInv, LineInv, RunInv, CountInv, NEW drdy, Edge(drdy),
         w'.state \notin Writing
  PROVE  /\ ~w'.en /\ w'.byteCnt = 0 /\ (w'.sel0 => w'.sel1)
         /\ held'.wfin /\ (start' => w'.fin0) /\ (w'.init > 0 => w'.fin0 /\ w'.fin1)
<1>1. /\ ~w'.en /\ w'.byteCnt = 0
      /\ (w'.sel0 <=> w.sel) /\ (w'.sel1 <=> w.sel0)
      /\ (w'.fin0 <=> held.wfin) /\ (w'.fin1 <=> w.fin0)
  BY WriterFields, WriterCounts, Zenon DEF Edge
<1>2. whrl' \in BOOLEAN /\ (whrl' <=> ~(w.finsh /\ ~w.busy))
  BY DEF Edge
<1>3. /\ held.wfin /\ spi'.finsh => held'.wfin
      /\ ~whrl /\ ~whrl' => (held'.wfin <=> held.wfin)
  BY <1>2, LatchFields, Zenon DEF Edge, ShapeInv
<1>4. CASE w.state \notin Writing
  <2>1. ~w.sel /\ held.wfin /\ (start => w.fin0)
    BY <1>4, Zenon DEF WriterInv
  <2>2. w'.init > 0 => start
    <3>1. ~start => w'.init = 0
      BY WriterFields, Zenon DEF Edge
    <3> QED
      BY <3>1
  <2>3. CASE ~Selects
    <3>1. spi'.finsh
      BY <2>3, Resting
    <3> QED
      BY <1>1, <1>3, <2>1, <2>2, <3>1, Zenon
  <2>4. CASE Selects
    <3>1. r.state # "IDEL" /\ ~whrl /\ w.state = "WSICRtoIDEL"
      <4>1. "IDEL" \notin Reading
        BY DEF Reading
      <4> QED
        BY <1>4, <2>4, <4>1, Owner, Zenon
    <3>2. "WSICRtoIDEL" \notin WritePause \cup Writing
      BY DEF WritePause, Writing
    <3>3. w.finsh /\ ~w.busy
      BY <3>1, <3>2, Zenon DEF WriterInv
    <3> QED
      BY <1>1, <1>2, <1>3, <2>1, <2>2, <3>1, <3>3, Zenon
  <2> QED
    BY <2>3, <2>4
<1>5. CASE w.state \in Writing
  <2>1. ~(w.byteCnt <= WRegByte[w.state])
    <3>1. w.byteCnt <= WRegByte[w.state] => w'.state = w.state
      BY <1>5, WriterStays, Zenon
    <3> QED
      BY <1>5, <3>1, Zenon
  <2>2. Complete(w, w, held.wfin, spi, adc, WRegByte[w.state], w.state) /\ spi'.finsh
    BY <1>5, <2>1, WriterEnds, Zenon
  <2>3. w.sel /\ w.sel0 /\ held.wfin /\ w.fin0 /\ w.fin1
    BY <2>2, Zenon DEF Complete, Known
  <2> QED
    BY <1>1, <1>3, <2>2, <2>3, Zenon
<1> QED
  BY <1>4, <1>5

LEMMA WriterKept ==
  ASSUME ShapeInv, WriterInv, ReaderInv, LineInv, RunInv, CountInv, NEW drdy, Edge(drdy)
  PROVE  WriterInv'
<1>1. ASSUME w'.state \in Writing
      PROVE  Transferring(w', w', held'.wfin, spi', adc', step', WRegByte[w'.state], w'.state)
  <2>1. CASE w.state \in Writing /\ w.byteCnt <= WRegByte[w.state]
    BY <2>1, WriterStays, Zenon
  <2>2. CASE w.state \in Writing /\ ~(w.byteCnt <= WRegByte[w.state])
    <3>1. w'.state = AfterW[w.state]
      BY <2>2, WriterEnds, Zenon
    <3> QED
      BY <1>1, <2>2, <3>1, AfterWValues DEF Writing
  <2>3. CASE w.state \notin Writing
    <3>1. "IDEL" \notin Writing /\ "IDELtoWRCR" \notin Writing /\ "WSICRtoIDEL" \notin Writing
      BY DEF Writing
    <3>2. w.state \in WritePause
      BY <1>1, <2>3, <3>1, WriterGoes, Zenon
    <3>3. /\ whrl /\ w.init = WriteTime /\ ~w.sel /\ w.byteCnt = 0 /\ held.wfin
          /\ (w.init > 0 => w.fin0 /\ w.fin1)
      BY <2>3, <3>2, Zenon DEF WriterInv
    <3>4. w.fin0 /\ w.fin1
      BY <3>3, RunAssumption
    <3>5. ~Selects
      BY <3>3, Zenon DEF Selects
    <3>6. Still(spi') /\ spi'.finsh /\ adc'.bits = 0 /\ adc'.heard = <<>>
      BY <3>5, Resting
    <3>7. /\ w'.sel /\ ~w'.sel0 /\ w'.fin0 /\ w'.fin1
      BY <1>1, <3>3, <3>4, WriterFields, Zenon DEF Edge
    <3>8. w'.byteCnt = 0 /\ ~w'.en
      <4>1. w.sel0 => w.sel1
        BY <2>3, Zenon DEF WriterInv
      <4> QED
        BY <1>1, <3>3, <3>4, <4>1, WriterCounts, Zenon DEF Edge
    <3>9. held'.wfin
      <4>1. whrl' \in BOOLEAN
        BY DEF Edge
      <4> QED
        BY <3>3, <3>6, <4>1, LatchFields, Zenon DEF Edge, ShapeInv
    <3>10. Begun(w', w', held'.wfin, spi', adc')
      BY <3>6, <3>7, <3>8, <3>9, Zenon DEF Begun, Known
    <3> QED
      BY <3>10, Zenon DEF Transferring
  <2> QED
    BY <2>1, <2>2, <2>3
<1> QED
  BY <1>1, WriterKeepsPlace, WriterWaits, Zenon DEF WriterInv

LEMMA ShapeKept ==
  ASSUME ShapeInv, NEW drdy, Edge(drdy)
  PROVE  ShapeInv'
<1>1. spi'.sclk \in BOOLEAN
  BY SpiFields, Zenon DEF Edge, ShapeInv
<1>2. whrl' \in BOOLEAN
  BY DEF Edge
<1>3. {"bits", "heard"} \subseteq DOMAIN adc'
  BY AdcFields, Zenon DEF Edge, ShapeInv
<1> QED
  BY <1>1, <1>2, <1>3, Zenon DEF ShapeInv

-----------------------------------------------------------------------------
\* Where the reader may be, and where it goes.
LEMMA AfterValues ==
  /\ After["IDELtoRRCR"] = "RRCR" /\ After["RRCRtoRDRCR"] = "RDRCR"
  /\ After["RDRCRtoRSICR"] = "RSICR" /\ After["RSICRtoRDRDATA"] = "RDRDATA"
  /\ After["RDRDATAtoIDEL"] = "RDRDATA"
  /\ After["RRCR"] = "RRCRtoRDRCR" /\ After["RDRCR"] = "RDRCRtoRSICR"
  /\ After["RSICR"] = "RSICRtoRDRDATA" /\ After["RDRDATA"] = "RDRDATAtoIDEL"
BY DEF After

LEMMA ReaderGoes ==
  ASSUME ReaderInv, NEW drdy, Edge(drdy)
  PROVE  \/ r.state = "IDEL" /\ r'.state = "IDEL" /\ ~(r_en /\ ~r_spi.finsh)
         \/ r.state = "IDEL" /\ r'.state = "IDELtoRRCR" /\ r_en /\ ~r_spi.finsh
         \/ /\ r.state \in Pause /\ r'.state = r.state
            /\ r.state = "RDRDATAtoIDEL" => ~(frames.cnt >= SampleNumber)
         \/ /\ r.state \in Pause /\ r'.state = After[r.state] /\ hp
            /\ r.state \in Between => ~r.flag
         \/ r.state = "RDRDATAtoIDEL" /\ r'.state = "IDEL" /\ frames.cnt >= SampleNumber
         \/ r.state \in Reading /\ r'.state = r.state /\ r.byteCnt <= RegByte[r.state]
         \/ r.state \in Reading /\ r'.state = After[r.state] /\ ~(r.byteCnt <= RegByte[r.state])
<1>1. /\ r.state \in {"IDEL"} \cup Pause \cup Reading
      /\ r.state # "IDEL" => ~whrl
      /\ ~whrl => (held.rDRDY <=> hp)
  BY Zenon DEF ReaderInv
<1>2. r'.state = NextRead
  BY ReaderFields DEF Edge
<1>3. CASE r.state = "IDEL"
  BY <1>2, <1>3 DEF NextRead, NextState
<1>4. CASE r.state \in Reading
  BY <1>2, <1>4 DEF NextRead, NextState, Reading
<1>5. CASE r.state \in Pause
  <2>1. held.rDRDY <=> hp
    BY <1>1, <1>5 DEF Pause
  <2>2. CASE r.state = "RDRDATAtoIDEL" /\ ~(held.rDRDY /\ ~r.flag) /\ frames.cnt >= SampleNumber
    <3>1. r'.state = "IDEL"
      BY <1>2, <2>2 DEF NextRead
    <3> QED
      BY <2>2, <3>1
  <2>3. CASE ~(/\ r.state = "RDRDATAtoIDEL" /\ ~(held.rDRDY /\ ~r.flag)
               /\ frames.cnt >= SampleNumber)
    <3>1. r.state # "IDEL" /\ r.state \notin Reading
      BY <1>5 DEF Pause, Reading
    <3>2. NextRead = NextState(r, held.rDRDY)
      BY <2>3, <3>1, Zenon DEF NextRead
    <3>3. NextState(r, held.rDRDY)
            = IF held.rDRDY /\ (r.state \in Between => ~r.flag) THEN After[r.state] ELSE r.state
      BY <3>1, Zenon DEF NextState
    <3>4. "RDRDATAtoIDEL" \in Between
      BY DEF Between
    <3> QED
      BY <1>2, <1>5, <2>1, <2>3, <3>2, <3>3, <3>4, Zenon
  <2> QED
    BY <2>2, <2>3
<1> QED
  BY <1>1, <1>3, <1>4, <1>5

\* A pulse of DRDY that may be acted upon.
LEMMA DrdyMeans ==
  ASSUME ReaderInv, hp
  PROVE  ~Tailing(r) /\ (r.state = "IDELtoRRCR" => r_spi.fin1)
BY Zenon DEF ReaderInv, Quiet

\* The configuration that the reader works under.
LEMMA ReaderStands ==
  ASSUME WriterInv, ReaderInv, RunInv, CountInv, NEW drdy, Edge(drdy),
         r.state # "IDEL" \/ r'.state # "IDEL"
  PROVE  /\ w.state = "WSICRtoIDEL" /\ w.init = WriteTime /\ w.finsh /\ ~w.busy /\ r_en
         /\ start /\ rcfg
         /\ r'.state # "IDEL" => /\ start' /\ rcfg'
                                 /\ w'.state = "WSICRtoIDEL" /\ w'.init = WriteTime /\ ~whrl'
<1>1. "WSICRtoIDEL" \notin WritePause \cup Writing
  BY DEF WritePause, Writing
<1>2. r.state = "IDEL" => r_en /\ ~r_spi.finsh
  <2>1. "IDEL" \notin Pause \cup Reading
    BY DEF Pause, Reading
  <2> QED
    BY <2>1, ReaderGoes, Zenon
<1>3. r.state = "IDEL" => w.state = "WSICRtoIDEL" /\ rcfg /\ start /\ frames.cnt = 0
  <2>1. w.finsh <=> w.state = "WSICRtoIDEL"
    BY Zenon DEF WriterInv
  <2> QED
    BY <1>2, <2>1, Zenon DEF RunInv, r_en
<1>4. w.state = "WSICRtoIDEL" /\ rcfg /\ start /\ w.init = WriteTime
  <2>1. w.state = "WSICRtoIDEL" => w.init = WriteTime \/ ~start
    BY Zenon DEF WriterInv
  <2> QED
    BY <1>3, <2>1, Zenon DEF ReaderInv
<1>5. w.finsh /\ ~w.busy /\ r_en
  BY <1>1, <1>4, Zenon DEF WriterInv, r_en
<1>6. ~Over
  <2>1. frames.cnt = 0 => ~(frames.cnt > 0)
    OBVIOUS
  <2> QED
    BY <1>3, <2>1, Zenon DEF Over
<1>7. start' /\ rcfg'
  BY <1>4, <1>6, SoftwareMoves, Zenon
<1>8. ~whrl'
  BY <1>5 DEF Edge
<1>9. w'.init = WriteTime
  BY <1>4, WriterFields, Zenon DEF Edge
<1>10. w'.state = "WSICRtoIDEL"
  <2>1. WriteTime # 0
    BY RunAssumption
  <2>2. "WSICRtoIDEL" # "IDEL"
    OBVIOUS
  <2> QED
    BY <1>1, <1>4, <2>1, <2>2, WriterGoes, Zenon
<1> QED
  BY <1>4, <1>5, <1>7, <1>8, <1>9, <1>10

\* A latch that shows finsh to the reader goes on doing so while it waits.
LEMMA LatchRests ==
  ASSUME ShapeInv, WriterInv, ReaderInv, LineInv, NEW drdy, Edge(drdy), r.state \notin Reading
  PROVE  /\ held.rfin => held'.rfin
         /\ ~whrl' => held'.rfin
<1>1. whrl' \in BOOLEAN /\ (whrl' <=> ~(w.finsh /\ ~w.busy))
  BY DEF Edge
<1>2. /\ held.rfin /\ spi'.finsh => held'.rfin
      /\ whrl /\ whrl' => (held'.rfin <=> held.rfin)
      /\ ~whrl' => (held'.rfin <=> spi'.finsh)
  BY <1>1, LatchFields, Zenon DEF Edge, ShapeInv
<1>3. CASE ~Selects
  BY <1>2, <1>3, Resting
<1>4. CASE Selects
  <2>1. w.state \in Writing /\ whrl
    BY <1>4, Owner, Zenon
  <2>2. "WSICRtoIDEL" \notin Writing
    BY DEF Writing
  <2>3. ~w.finsh
    BY <2>1, <2>2, Zenon DEF WriterInv
  <2> QED
    BY <1>1, <1>2, <2>1, <2>3, Zenon
<1> QED
  BY <1>3, <1>4

LEMMA ReaderWaits ==
  ASSUME ShapeInv, WriterInv, ReaderInv, LineInv, RunInv, CountInv, NEW drdy, Edge(drdy),
         r'.state \notin Reading
  PROVE  /\ ~r'.en /\ r'.byteCnt = 0 /\ r'.byteDue = 0 /\ (r'.sel0 => r'.sel1)
         /\ r_spi'.fin1 => r_spi'.fin0
         /\ r_spi'.fin0 => held'.rfin
         /\ ~whrl' => held'.rfin
         /\ r'.state \in Pause \ {"IDELtoRRCR"} => r_spi'.fin1
<1>1. /\ ~r'.en /\ r'.byteCnt = 0
      /\ (r'.sel0 <=> r.sel) /\ (r'.sel1 <=> r.sel0)
      /\ r'.byteDue = IF r.en THEN SpiTime ELSE IF r.byteDue > 0 THEN r.byteDue - 1 ELSE 0
      /\ (r_spi'.fin0 <=> IF r_en THEN held.rfin ELSE r_spi.fin0)
      /\ (r_spi'.fin1 <=> IF r_en THEN r_spi.fin0 ELSE r_spi.fin1)
  BY ReaderFields, ReaderCounts, Zenon DEF Edge
<1>2. ~(0 > 0)
  OBVIOUS
<1>3. r.state \in {"IDEL"} \cup Pause \cup Reading /\ "IDEL" \notin Pause \cup Reading
  BY Zenon DEF ReaderInv, Pause, Reading
<1>4. CASE r.state \notin Reading
  <2>1. /\ ~r.sel /\ ~r.en /\ r.byteDue = 0
        /\ r_spi.fin1 => r_spi.fin0
        /\ r_spi.fin0 => held.rfin
        /\ r.state \in Pause \ {"IDELtoRRCR"} => r_spi.fin1
    BY <1>4, Zenon DEF ReaderInv
  <2>2. (held.rfin => held'.rfin) /\ (~whrl' => held'.rfin)
    BY <1>4, LatchRests
  <2>3. r'.byteDue = 0
    BY <1>1, <1>2, <2>1, Zenon
  <2>4. ASSUME r'.state \in Pause \ {"IDELtoRRCR"} PROVE r_spi'.fin1
    <3>1. r.state # "IDEL"
      BY <1>3, <2>4, ReaderGoes, Zenon
    <3>2. r_en
      BY <3>1, ReaderStands
    <3>3. \A x \in Pause : After[x] \notin Pause
      BY AfterValues DEF Pause
    <3>4. r'.state = r.state
      BY <1>3, <1>4, <2>4, <3>1, <3>3, ReaderGoes, Zenon
    <3> QED
      BY <1>1, <2>1, <2>4, <3>2, <3>4, Zenon
  <2> QED
    BY <1>1, <2>1, <2>2, <2>3, <2>4, Zenon
<1>5. CASE r.state \in Reading
  <2>1. ~(r.byteCnt <= RegByte[r.state])
    BY <1>5, ReaderStays, Zenon
  <2>2. /\ Complete(r, r_spi, held.rfin, spi, adc, RegByte[r.state], r.state)
        /\ spi'.finsh /\ r.byteDue = 0 /\ ~whrl'
    BY <1>5, <2>1, ReaderEnds, Zenon
  <2>3. /\ r.sel /\ r.sel0 /\ ~r.en /\ held.rfin /\ r_spi.fin0
    BY <2>2, Zenon DEF Complete, Known
  <2>4. r_en
    BY <1>3, <1>5, ReaderStands, Zenon
  <2>5. held'.rfin
    <3>1. whrl' \in BOOLEAN
      BY DEF Edge
    <3> QED
      BY <2>2, <2>3, <3>1, LatchFields, Zenon DEF Edge, ShapeInv
  <2> QED
    BY <1>1, <1>2, <2>2, <2>3, <2>4, <2>5, Zenon
<1> QED
  BY <1>4, <1>5

LEMMA ReaderKept ==
  ASSUME ShapeInv, WriterInv, ReaderInv, LineInv, RunInv, CountInv, NEW drdy, Edge(drdy)
  PROVE  ReaderInv'
<1>1. r'.state \in {"IDEL"} \cup Pause \cup Reading
  <2>1. r.state \in {"IDEL"} \cup Pause \cup Reading
    BY Zenon DEF ReaderInv
  <2>2. \A x \in Pause : After[x] \in Reading
    BY AfterValues DEF Pause, Reading
  <2>3. \A x \in Reading : After[x] \in Pause
    BY AfterValues DEF Pause, Reading
  <2>4. "IDELtoRRCR" \in Pause
    BY DEF Pause
  <2> QED
    BY <2>1, <2>2, <2>3, <2>4, ReaderGoes, Zenon
<1>2. r'.sel <=> r'.state \in Reading
  BY ReaderFields, Zenon DEF Edge
<1>3. r'.state # "IDEL" => /\ start' /\ rcfg'
                           /\ w'.state = "WSICRtoIDEL" /\ w'.init = WriteTime /\ ~whrl'
  BY ReaderStands
<1>4. ~whrl' => (held'.rDRDY <=> hp')
  <2>1. whrl' \in BOOLEAN
    BY DEF Edge
  <2> QED
    BY <2>1, LatchFields, Zenon DEF Edge, ShapeInv
<1>5. hp' => ~Quiet'
  <2>1. hp' = drdy /\ (drdy => ~Quiet')
    BY DEF Edge
  <2> QED
    BY <2>1, Zenon
<1>6. ASSUME r'.state \in Reading
      PROVE  /\ Transferring(r', r_spi', held'.rfin, spi', adc', step', RegByte[r'.state], r'.state)
             /\ r'.byteDue = Due(spi', r_spi')
  <2>1. CASE r.state \in Reading
    <3>1. r.byteCnt <= RegByte[r.state]
      <4>1. \A x \in Reading : After[x] \notin Reading
        BY AfterValues DEF Reading
      <4> QED
        BY <1>6, <2>1, <4>1, ReaderEnds, Zenon
    <3> QED
      BY <2>1, <3>1, ReaderStays, Zenon
  <2>2. CASE r.state \notin Reading
    <3>1. "IDEL" \notin Reading /\ "IDELtoRRCR" \notin Reading
      BY DEF Reading
    <3>2. \A x \in Pause : x \notin Reading
      BY DEF Pause, Reading
    <3>3. r.state \in Pause /\ hp
      BY <1>6, <2>2, <3>1, <3>2, ReaderGoes, Zenon
    <3>4. "IDEL" \notin Pause
      BY DEF Pause
    <3>5. ~whrl /\ held.rfin /\ ~r.sel /\ ~r.en /\ r.byteCnt = 0 /\ r.byteDue = 0
          /\ (r.sel0 => r.sel1) /\ (r_spi.fin1 => r_spi.fin0)
      BY <2>2, <3>3, <3>4, Zenon DEF ReaderInv
    <3>6. r_spi.fin1 /\ r_spi.fin0
      <4>1. r.state \in Pause \ {"IDELtoRRCR"} => r_spi.fin1
        BY <2>2, Zenon DEF ReaderInv
      <4>2. r.state = "IDELtoRRCR" => r_spi.fin1
        BY <3>3, DrdyMeans
      <4> QED
        BY <3>3, <3>5, <4>1, <4>2, Zenon
    <3>7. r_en /\ ~whrl'
      BY <3>1, <3>3, <3>4, <1>6, ReaderStands, Zenon
    <3>8. ~Selects
      BY <3>5, Zenon DEF Selects
    <3>9. Still(spi') /\ spi'.finsh /\ adc'.bits = 0 /\ adc'.heard = <<>>
      BY <3>8, Resting
    <3>10. r'.sel /\ ~r'.sel0 /\ r_spi'.fin0 /\ r_spi'.fin1 /\ held'.rfin
      <4>1. held'.rfin
        BY <2>2, <3>7, LatchRests
      <4> QED
        BY <1>2, <1>6, <3>5, <3>6, <3>7, <4>1, ReaderFields, ReaderCounts, Zenon DEF Edge
    <3>11. r'.byteCnt = 0 /\ ~r'.en
      BY <1>6, <3>5, <3>6, ReaderCounts, Zenon DEF Edge, Pulse
    <3>12. r'.byteDue = 0
      <4>1. ~(0 > 0)
        OBVIOUS
      <4> QED
        BY <3>5, <4>1, ReaderFields, Zenon DEF Edge
    <3>13. Known(r_spi', held'.rfin)
      BY <3>10, Zenon DEF Known
    <3>14. Due(spi', r_spi') = 0
      BY <3>9, <3>13, DueStill, Zenon
    <3>15. Begun(r', r_spi', held'.rfin, spi', adc')
      BY <3>9, <3>10, <3>11, <3>13, Zenon DEF Begun
    <3> QED
      BY <3>12, <3>14, <3>15, Zenon DEF Transferring
  <2> QED
    BY <2>1, <2>2
<1>7. r'.state \in Pause \ {"IDELtoRRCR"} => r'.state \notin Reading
  BY DEF Pause, Reading
<1> QED
  BY <1>1, <1>2, <1>3, <1>4, <1>5, <1>6, <1>7, ReaderWaits, Zenon DEF ReaderInv

\* The chip select ends with the engine at rest.
LEMMA LineKept ==
  ASSUME ShapeInv, WriterInv, ReaderInv, LineInv, NEW drdy, Edge(drdy)
  PROVE  LineInv'
<1>1. CASE ~Selects
  BY <1>1, Resting, Zenon DEF LineInv
<1>2. CASE w.state \in Writing
  <2>1. CASE w.byteCnt <= WRegByte[w.state]
    <3>1. w'.state = w.state /\ whrl'
      BY <1>2, <2>1, WriterStays, Zenon
    <3>2. w'.sel
      BY <1>2, <3>1, WriterFields, Zenon DEF Edge
    <3>3. Selects'
      BY <3>1, <3>2, Zenon DEF Selects
    <3> QED
      BY <3>3, Zenon DEF LineInv
  <2>2. CASE ~(w.byteCnt <= WRegByte[w.state])
    BY <1>2, <2>2, WriterEnds, Zenon DEF LineInv
  <2> QED
    BY <2>1, <2>2
<1>3. CASE r.state \in Reading
  <2>1. CASE r.byteCnt <= RegByte[r.state]
    <3>1. r'.state = r.state
      BY <1>3, <2>1, ReaderStays, Zenon
    <3>2. r'.sel
      BY <1>3, <3>1, ReaderFields, Zenon DEF Edge
    <3>3. ~whrl'
      <4>1. "IDEL" \notin Reading /\ "WSICRtoIDEL" \notin WritePause \cup Writing
        BY DEF Reading, WritePause, Writing
      <4>2. w.finsh /\ ~w.busy
        BY <1>3, <4>1, Zenon DEF WriterInv, ReaderInv
      <4> QED
        BY <4>2 DEF Edge
    <3>4. Selects'
      BY <3>2, <3>3, Zenon DEF Selects
    <3> QED
      BY <3>4, Zenon DEF LineInv
  <2>2. CASE ~(r.byteCnt <= RegByte[r.state])
    BY <1>3, <2>2, ReaderEnds, Zenon DEF LineInv
  <2> QED
    BY <2>1, <2>2
<1> QED
  BY <1>1, <1>2, <1>3, Owner, Zenon

-----------------------------------------------------------------------------
\* The tail of a frame ends where the number of its bytes says.
LEMMA TailEnds ==
  ASSUME NEW c, NEW c2, c.frameDep \in 0 .. 255
  PROVE  /\ TailEnd(c) \in 20 .. 23
         /\ c2.frameDep = c.frameDep => TailEnd(c2) = TailEnd(c)
<1>1. (c.frameDep + 6) % 4 \in 0 .. 3
  BY Z3
<1> QED
  BY <1>1 DEF TailEnd, Supplement, Count

\* What the tail counter does.
LEMMA TailMoves ==
  ASSUME ReaderInv, TailInv, NEW drdy, Edge(drdy)
  PROVE  /\ r'.tail = IF r.state \in Reading THEN 0
                      ELSE IF r'.state \in InFrame /\ r.tail <= TailEnd(r) THEN r.tail + 1
                      ELSE r.tail
         /\ r'.flagHp <=> r.tail = TailEnd(r)
         /\ TailEnd(r) \in 20 .. 23 /\ r.tail \in Nat
         /\ r'.depCnt \in 0 .. 255 /\ r'.frameDep \in 0 .. 255
         /\ r'.state \notin Reading => r'.depCnt <= r'.frameDep
         /\ r.state \notin Reading => TailEnd(r') = TailEnd(r)
<1>1. /\ r.tail \in Nat /\ r.depCnt \in 0 .. 255 /\ r.frameDep \in 0 .. 255
      /\ r.state \notin Reading => r.depCnt <= r.frameDep
  BY Zenon DEF TailInv
<1>2. TailEnd(r) \in 20 .. 23
  BY <1>1, TailEnds
<1>3. r'.tail = IF r.state \in Reading THEN 0
                ELSE IF r'.state \in InFrame /\ r.tail <= TailEnd(r) THEN r.tail + 1
                ELSE r.tail
  <2>1. r.sel <=> r.state \in Reading
    BY Zenon DEF ReaderInv
  <2> QED
    BY <2>1, ReaderFields, Zenon DEF Edge
<1>4. r'.flagHp <=> r.tail = TailEnd(r)
  BY ReaderFields, Zenon DEF Edge
<1>5. r'.depCnt = IF r.flagHp THEN 0
                  ELSE IF r.sel /\ Pulse(r_spi) THEN (r.depCnt + 1) % 256 ELSE r.depCnt
  BY ReaderFields, Zenon DEF Edge
<1>6. r'.frameDep = IF r.frameDep <= r.depCnt THEN r.depCnt
                     ELSE IF r.sel0 /\ ~r.sel1 /\ r'.state \in InFrame \ {"RSICR"} THEN 0
                     ELSE r.frameDep
  <2>1. r'.frameDep = FrameDep(r, r'.state)
    BY ReaderFields, Zenon DEF Edge
  <2> QED
    BY <2>1, Zenon DEF FrameDep, Selected
<1>7. (r.depCnt + 1) % 256 \in 0 .. 255
  BY <1>1, Z3
<1>8. r'.depCnt \in 0 .. 255 /\ r'.frameDep \in 0 .. 255
  BY <1>1, <1>5, <1>7, <1>6
<1> DEFINE longer == \/ r.frameDep <= r.depCnt /\ r'.frameDep = r.depCnt
                     \/ ~(r.frameDep <= r.depCnt) /\ r'.frameDep = r.frameDep
<1>9. ASSUME longer, r'.depCnt = 0 \/ r'.depCnt = r.depCnt
       PROVE  /\ r'.depCnt <= r'.frameDep
              /\ r.depCnt <= r.frameDep => r'.frameDep = r.frameDep
  <2> DEFINE dep == r.depCnt
             frame == r.frameDep
             dep2 == r'.depCnt
             frame2 == r'.frameDep
  <2>1. dep \in 0 .. 255 /\ frame \in 0 .. 255
    BY <1>1
  <2>2. \/ frame <= dep /\ frame2 = dep
        \/ ~(frame <= dep) /\ frame2 = frame
    BY <1>9
  <2>3. dep2 = 0 \/ dep2 = dep
    BY <1>9
  <2> HIDE DEF dep, frame, dep2, frame2
  <2>4. dep2 <= frame2 /\ (dep <= frame => frame2 = frame)
    BY <2>1, <2>2, <2>3
  <2> QED
    BY <2>4, Zenon DEF dep, frame, dep2, frame2
<1>10. CASE r.state \notin Reading
  <2>1. ~r.sel /\ (r.sel0 => r.sel1) /\ r.depCnt <= r.frameDep
    BY <1>1, <1>10, Zenon DEF ReaderInv
  <2>2. r'.frameDep = r.frameDep /\ r'.depCnt <= r'.frameDep
    <3>1. r'.depCnt = 0 \/ r'.depCnt = r.depCnt
      BY <1>5, <2>1, Zenon
    <3>2. longer
      BY <1>6, <2>1
    <3> QED
      BY <1>9, <2>1, <3>1, <3>2, Zenon
  <2>3. TailEnd(r') = TailEnd(r)
    BY <1>1, <2>2, TailEnds
  <2> QED
    BY <1>2, <1>1, <1>3, <1>4, <1>8, <2>2, <2>3
<1>11. CASE r.state \in Reading
  <2>1. r'.state \notin Reading => ~Pulse(r_spi) /\ r.sel1
    <3>1. r'.state \notin Reading => ~(r.byteCnt <= RegByte[r.state])
      <4>1. "IDEL" \notin Reading
        BY DEF Reading
      <4>2. \A x \in Pause : x \notin Reading
        BY DEF Pause, Reading
      <4>3. "RDRDATAtoIDEL" \in Pause /\ "IDELtoRRCR" \in Pause
        BY DEF Pause
      <4> QED
        BY <1>11, <4>1, <4>2, <4>3, ReaderGoes, Zenon
    <3>2. ASSUME ~(r.byteCnt <= RegByte[r.state])
          PROVE  Complete(r, r_spi, held.rfin, spi, adc, RegByte[r.state], r.state)
      <4>1. Transferring(r, r_spi, held.rfin, spi, adc, step, RegByte[r.state], r.state)
        BY <1>11, Zenon DEF ReaderInv
      <4>2. RegByte[r.state] \in Nat \ {0}
        BY <1>11, RegByteAssumption
      <4> QED
        BY <3>2, <4>1, <4>2, OnlyComplete, Zenon
    <3> QED
      BY <3>1, <3>2, Zenon DEF Complete, Known, Pulse
  <2>2. r'.state \notin Reading => r'.depCnt <= r'.frameDep
    <3>1. r'.state \notin Reading => r'.depCnt = 0 \/ r'.depCnt = r.depCnt
      BY <1>5, <2>1, Zenon
    <3>2. r'.state \notin Reading => longer
      BY <1>6, <2>1
    <3> QED
      BY <1>9, <3>1, <3>2, Zenon
  <2> QED
    BY <1>1, <1>2, <1>3, <1>4, <1>8, <1>11, <2>2
<1> QED
  BY <1>10, <1>11

LEMMA TailKept ==
  ASSUME ReaderInv, TailInv, CountInv, NEW drdy, Edge(drdy)
  PROVE  TailInv'
<1> DEFINE end == TailEnd(r)
           end2 == TailEnd(r')
<1>1. /\ r'.tail = IF r.state \in Reading THEN 0
                   ELSE IF r'.state \in InFrame /\ r.tail <= end THEN r.tail + 1
                   ELSE r.tail
      /\ r'.flagHp <=> r.tail = end
      /\ end \in 20 .. 23 /\ r.tail \in Nat
      /\ r'.depCnt \in 0 .. 255 /\ r'.frameDep \in 0 .. 255
      /\ r'.state \notin Reading => r'.depCnt <= r'.frameDep
      /\ r.state \notin Reading => end2 = end
  BY TailMoves
<1>2. end2 \in 20 .. 23
  BY <1>1, TailEnds
<1>3. r'.sel0 <=> r.state \in Reading
  <2>1. r.sel <=> r.state \in Reading
    BY Zenon DEF ReaderInv
  <2> QED
    BY <2>1, ReaderFields, Zenon DEF Edge
<1>4. /\ r.state \notin Reading \cup Between => ~r.flagHp /\ (r.tail <= 1 \/ r.tail > end) /\ r.tail # 1
      /\ r.state \in Reading => ~r.flagHp /\ (r.tail <= 1 \/ r.tail > end)
      /\ r.state \in Between => r.tail <= end + 1 /\ (r.flagHp => r.tail = end + 1)
      /\ Tailing(r) <=> r.state \in Between /\ (r.tail <= end \/ r.flagHp)
  BY Zenon DEF TailInv, Off, Tailing
<1> HIDE DEF end, end2
<1>5. /\ r.state \in {"IDEL"} \cup Pause \cup Reading
      /\ Between \subseteq Pause \cap InFrame /\ Between \cap Reading = {}
      /\ "IDEL" \notin Between \cup Reading \cup InFrame
      /\ "IDELtoRRCR" \notin Between \cup Reading \cup InFrame
      /\ \A x \in Pause : After[x] \in Reading /\ x \notin Reading
      /\ \A x \in Reading : After[x] \notin Reading
      /\ \A x \in Pause \ Between : x \notin InFrame
      /\ "RDRDATAtoIDEL" \in Between
  <2>1. r.state \in {"IDEL"} \cup Pause \cup Reading
    BY Zenon DEF ReaderInv
  <2> QED
    BY <2>1, AfterValues DEF Between, Reading, InFrame, Pause
<1>6. CASE r.state \in Reading
  <2>1. r'.tail = 0 /\ ~r'.flagHp
    BY <1>1, <1>4, <1>6
  <2>2. /\ r'.tail \in Nat /\ r'.tail <= 1 /\ r'.tail # 1 /\ r'.tail <= end2 + 1
    BY <1>2, <2>1
  <2> QED
    BY <1>1, <2>1, <2>2, Zenon DEF TailInv, Off, end2
<1>7. CASE r.state \notin Reading \cup Between
  <2>1. ~r'.flagHp
    BY <1>1, <1>4, <1>7
  <2>2. CASE r'.state \in Reading
    <3>1. r'.tail \in Nat /\ (r'.tail <= 1 \/ r'.tail > end2)
      BY <1>1, <1>4, <1>7
    <3>2. r'.state \notin Between /\ ~r'.sel0
      BY <1>3, <1>5, <1>7, <2>2
    <3> QED
      BY <1>1, <2>1, <2>2, <3>1, <3>2, Zenon DEF TailInv, Off, end2
  <2>3. CASE r'.state \notin Reading
    <3>1. r'.state \notin Between /\ r'.state \notin InFrame
      BY <1>5, <1>7, <2>3, ReaderGoes, Zenon
    <3>2. r'.tail \in Nat /\ (r'.tail <= 1 \/ r'.tail > end2) /\ r'.tail # 1
      BY <1>1, <1>4, <1>7, <3>1
    <3> QED
      BY <1>1, <2>1, <2>3, <3>1, <3>2, Zenon DEF TailInv, Off, end2
  <2> QED
    BY <2>2, <2>3
<1>8. CASE r.state \in Between
  <2>1. r.state \notin Reading
    BY <1>5, <1>8
  <2>2. CASE r'.state = r.state
    <3>1. r'.state \in InFrame
      BY <1>5, <1>8, <2>2
    <3>2. r'.tail \in Nat /\ r'.tail <= end2 + 1 /\ (r'.flagHp => r'.tail = end2 + 1)
      BY <1>1, <1>4, <1>8, <2>1, <3>1
    <3>3. r'.state \notin Reading /\ r'.state \in Between
      BY <1>8, <2>1, <2>2, Zenon
    <3> QED
      BY <1>1, <3>2, <3>3, Zenon DEF TailInv, Off, end2
  <2>3. CASE r'.state = After[r.state] /\ hp
    <3>1. ~Tailing(r)
      BY <2>3, DrdyMeans
    <3>2. r.tail > end
      BY <1>1, <1>4, <1>8, <3>1
    <3>3. r'.tail \in Nat /\ r'.tail > end2 /\ ~r'.flagHp
      BY <1>1, <2>1, <3>2
    <3>4. r'.state \in Reading /\ r'.state \notin Between /\ ~r'.sel0
      BY <1>3, <1>5, <1>8, <2>1, <2>3
    <3> QED
      BY <1>1, <3>3, <3>4, Zenon DEF TailInv, Off, end2
  <2>4. CASE r.state = "RDRDATAtoIDEL" /\ r'.state = "IDEL" /\ frames.cnt >= SampleNumber
    <3>1. ~Tailing(r)
      <4>1. Tailing(r) => frames.cnt < SampleNumber
        BY <2>4, Zenon DEF CountInv
      <4>2. frames.cnt \in Nat /\ SampleNumber \in Nat
        BY RunAssumption DEF CountInv
      <4> QED
        BY <2>4, <4>1, <4>2
    <3>2. r.tail > end
      BY <1>1, <1>4, <1>8, <3>1
    <3>3. r'.tail \in Nat /\ r'.tail > end2 /\ ~r'.flagHp /\ r'.tail # 1
      BY <1>1, <1>2, <2>1, <3>2
    <3>4. r'.state \notin Reading \cup Between
      BY <1>5, <2>4
    <3> QED
      BY <1>1, <3>3, <3>4, Zenon DEF TailInv, Off, end2
  <2> QED
    BY <1>5, <1>8, <2>1, <2>2, <2>3, <2>4, ReaderGoes, Zenon
<1> QED
  BY <1>6, <1>7, <1>8, Zenon

\* The flag of the reader of frames follows the frame's flag.
LEMMA FlagKept ==
  ASSUME FlagInv, NEW drdy, Edge(drdy)
  PROVE  FlagInv'
<1>1. /\ r'.flag <=> IF r.flagHp THEN TRUE ELSE r.flag /\ ~(r.finish0 /\ ~finish)
      /\ r'.finish0 <=> finish
  BY ReaderFields, Zenon DEF Edge
<1>2. finish' \in IF finish \/ (r.flag /\ ~r.finish0) THEN BOOLEAN ELSE {FALSE}
  BY DEF Edge, Finish
<1>3. finish' => finish \/ (r.flag /\ ~r.finish0)
  BY <1>2
<1>4. frames'.flag0 = r.flag
  BY DEF Edge, CountFrames
<1> QED
  BY <1>1, <1>3, <1>4, Zenon DEF FlagInv

-----------------------------------------------------------------------------
\* A frame whose flag goes up is counted once, and the flag is up for three
\* clocks at least.
LEMMA CountMoves ==
  ASSUME WriterInv, ReaderInv, TailInv, FlagInv, CountInv, RunInv, NEW drdy, Edge(drdy)
  PROVE  /\ frames.cnt \in 0 .. CntSize - 1 /\ frames'.cnt \in 0 .. CntSize - 1
         /\ frames'.flag0 <=> r.flag
         /\ ~(r.flag /\ ~frames.flag0) => frames'.cnt = 0 \/ frames'.cnt = frames.cnt
         /\ w.finsh /\ ~(r.flag /\ ~frames.flag0) => frames'.cnt = frames.cnt
         /\ r.flag /\ ~frames.flag0 =>
              /\ frames.cnt < CntSize - 1 =>
                   frames'.cnt = 0 \/ frames'.cnt = frames.cnt + 1
              /\ r'.flag
         /\ ~w.finsh => frames'.cnt = 0
         /\ r'.flag <=> r.flagHp \/ (r.flag /\ ~(r.finish0 /\ ~finish))
<1>1. frames' = [cnt |-> IF ~w.finsh THEN 0
                         ELSE IF r.flag /\ ~frames.flag0 THEN (frames.cnt + 1) % CntSize
                         ELSE frames.cnt,
                 flag0 |-> r.flag]
  BY DEF Edge, CountFrames
<1>2. frames.cnt \in 0 .. CntSize - 1 /\ CntSize \in Nat /\ 3 <= CntSize
  BY RunAssumption DEF CountInv
<1>3. /\ frames'.cnt = IF ~w.finsh THEN 0
                       ELSE IF r.flag /\ ~frames.flag0 THEN (frames.cnt + 1) % CntSize
                       ELSE frames.cnt
      /\ frames'.flag0 = r.flag
  BY <1>1
<1>4. ASSUME NEW x \in 0 .. CntSize - 1
      PROVE  /\ (x + 1) % CntSize \in 0 .. CntSize - 1
             /\ x < CntSize - 1 => (x + 1) % CntSize = x + 1
  BY <1>2, Z3
<1>5. frames'.cnt \in 0 .. CntSize - 1
  <2> DEFINE y == (frames.cnt + 1) % CntSize
  <2>1. y \in 0 .. CntSize - 1
    BY <1>2, <1>4
  <2>2. 0 \in 0 .. CntSize - 1
    BY <1>2
  <2>3. frames'.cnt = 0 \/ frames'.cnt = y \/ frames'.cnt = frames.cnt
    BY <1>3, Zenon
  <2> QED
    BY <1>2, <2>1, <2>2, <2>3, Zenon
<1>6. r'.flag <=> r.flagHp \/ (r.flag /\ ~(r.finish0 /\ ~finish))
  BY ReaderFields, Zenon DEF Edge
<1>7. ~frames.flag0 => ~r.finish0
  BY Zenon DEF FlagInv
<1>8. ASSUME r.flag, ~frames.flag0, frames.cnt < CntSize - 1
      PROVE  frames'.cnt = 0 \/ frames'.cnt = frames.cnt + 1
  <2>1. (frames.cnt + 1) % CntSize = frames.cnt + 1
    BY <1>2, <1>4, <1>8
  <2> QED
    BY <1>3, <1>8, <2>1, Zenon
<1>9. /\ ~w.finsh => frames'.cnt = 0
      /\ ~(r.flag /\ ~frames.flag0) => frames'.cnt = 0 \/ frames'.cnt = frames.cnt
      /\ w.finsh /\ ~(r.flag /\ ~frames.flag0) => frames'.cnt = frames.cnt
      /\ frames'.flag0 <=> r.flag
  <2> DEFINE y == (frames.cnt + 1) % CntSize
             counts == r.flag /\ ~frames.flag0
  <2>1. frames'.cnt = IF ~w.finsh THEN 0 ELSE IF counts THEN y ELSE frames.cnt
    BY <1>3
  <2> HIDE DEF y, counts
  <2>2. /\ ~w.finsh => frames'.cnt = 0
        /\ ~counts => frames'.cnt = 0 \/ frames'.cnt = frames.cnt
        /\ w.finsh /\ ~counts => frames'.cnt = frames.cnt
    BY <2>1
  <2>3. frames'.flag0 <=> r.flag
    BY <1>3
  <2> QED
    BY <2>2, <2>3, Zenon DEF counts
<1> QED
  BY <1>2, <1>5, <1>6, <1>7, <1>8, <1>9, Zenon

\* While the reader stays between two frames, the tail ends once.
LEMMA BetweenStays ==
  ASSUME ReaderInv, TailInv, NEW drdy, Edge(drdy), r.state \in Between, r'.state = r.state
  PROVE  /\ Tailing(r') => Tailing(r) /\ ~r.flagHp
         /\ r.flagHp => Tailing(r)
<1>1. r.state \notin Reading /\ r.state \in InFrame
  BY DEF Between, Reading, InFrame
<1>2. /\ r'.tail = IF r.tail <= TailEnd(r) THEN r.tail + 1 ELSE r.tail
      /\ r'.flagHp <=> r.tail = TailEnd(r)
      /\ TailEnd(r) \in 20 .. 23 /\ r.tail \in Nat
      /\ TailEnd(r') = TailEnd(r)
  BY <1>1, TailMoves, Zenon
<1>3. r.tail <= TailEnd(r) + 1 /\ (r.flagHp => r.tail = TailEnd(r) + 1)
  BY Zenon DEF TailInv
<1>4. /\ Tailing(r) <=> r.tail <= TailEnd(r) \/ r.flagHp
      /\ Tailing(r') <=> r'.tail <= TailEnd(r') \/ r'.flagHp
  BY Zenon DEF Tailing
<1> QED
  BY <1>2, <1>3, <1>4

\* The counter keeps to the number asked for.
LEMMA CountKept ==
  ASSUME WriterInv, ReaderInv, TailInv, FlagInv, CountInv, RunInv, NEW drdy, Edge(drdy)
  PROVE  CountInv'
<1> DEFINE Early == {"IDELtoRRCR", "RRCR", "RRCRtoRDRCR", "RDRCR", "RDRCRtoRSICR", "RSICR"}
<1>1. /\ frames.cnt \in 0 .. CntSize - 1 /\ frames'.cnt \in 0 .. CntSize - 1
      /\ frames'.flag0 <=> r.flag
      /\ ~(r.flag /\ ~frames.flag0) => frames'.cnt = 0 \/ frames'.cnt = frames.cnt
      /\ w.finsh /\ ~(r.flag /\ ~frames.flag0) => frames'.cnt = frames.cnt
      /\ r.flag /\ ~frames.flag0 =>
           /\ frames.cnt < CntSize - 1 => frames'.cnt = 0 \/ frames'.cnt = frames.cnt + 1
           /\ r'.flag
      /\ r'.flag <=> r.flagHp \/ (r.flag /\ ~(r.finish0 /\ ~finish))
  BY CountMoves, Zenon
<1>2. /\ r.state \notin Between \/ Tailing(r) => (r.flag => frames.flag0)
      /\ r.state \in Early => frames.cnt = 0
      /\ r.state = "RSICRtoRDRDATA" =>
           /\ frames.cnt <= 1
           /\ Tailing(r) \/ (r.flag /\ ~frames.flag0) => frames.cnt = 0
      /\ r.state = "RDRDATA" => frames.cnt < SampleNumber /\ ~r.flag
      /\ r.state = "RDRDATAtoIDEL" =>
           /\ frames.cnt <= SampleNumber
           /\ frames.cnt = SampleNumber => r.flag /\ frames.flag0
           /\ Tailing(r) => ~r.flag /\ frames.cnt < SampleNumber
  BY Zenon DEF CountInv
<1>3. CntSize \in Nat /\ SampleNumber \in 2 .. (CntSize - 1)
  BY RunAssumption
<1>4. r.state \notin Between => ~r.flagHp
  BY Zenon DEF TailInv, Off
<1>5. /\ r.state \in {"IDEL"} \cup Pause \cup Reading
      /\ \A x \in Pause : After[x] \in Reading /\ x \notin Reading
      /\ \A x \in Reading : After[x] \in Pause
      /\ Between = {"RSICRtoRDRDATA", "RDRDATAtoIDEL"}
      /\ Between \subseteq Pause
  <2>1. r.state \in {"IDEL"} \cup Pause \cup Reading
    BY Zenon DEF ReaderInv
  <2> QED
    BY <2>1, AfterValues DEF Between, Reading, Pause
\* Nothing is counted outside the tails.
<1>6. CASE r.state \notin Between
  <2>1. ~(r.flag /\ ~frames.flag0) /\ (r'.flag => r.flag)
    BY <1>1, <1>2, <1>4, <1>6, Zenon
  <2>2. frames'.cnt = 0 \/ frames'.cnt = frames.cnt
    BY <1>1, <2>1, Zenon
  <2>3. r'.flag => frames'.flag0
    BY <1>1, <2>1, Zenon
  <2>4. r'.state \in Early => frames'.cnt = 0
    <3>1. r.state \in Early \/ (r.state = "IDEL" /\ r'.state = "IDELtoRRCR") \/ r'.state \notin Early
      BY <1>5, <1>6, ReaderGoes, AfterValues DEF Pause, Reading
    <3>2. r.state = "IDEL" /\ r'.state = "IDELtoRRCR" => frames.cnt = 0
      <4>1. "IDELtoRRCR" # "IDEL"
        OBVIOUS
      <4>2. r.state = "IDEL" /\ r'.state = "IDELtoRRCR" => r_en /\ ~r_spi.finsh /\ w.state = "WSICRtoIDEL"
        <5>1. "IDEL" \notin Pause \cup Reading
          BY DEF Pause, Reading
        <5> QED
          BY <4>1, <5>1, ReaderGoes, ReaderStands, Zenon
      <4> QED
        BY <4>2, Zenon DEF RunInv, r_en
    <3> QED
      BY <1>2, <2>2, <3>1, <3>2, Zenon
  <2>5. r'.state = "RSICRtoRDRDATA" => frames'.cnt = 0
    <3>1. r'.state = "RSICRtoRDRDATA" => r.state = "RSICR"
      BY <1>5, <1>6, ReaderGoes, AfterValues DEF Pause, Reading
    <3> QED
      BY <1>2, <2>2, <3>1, Zenon
  <2>6. r'.state \in {"RDRDATA", "RDRDATAtoIDEL"} => frames'.cnt < SampleNumber /\ ~r'.flag
    <3>1. r'.state \in {"RDRDATA", "RDRDATAtoIDEL"} => r.state = "RDRDATA"
      BY <1>5, <1>6, ReaderGoes, AfterValues DEF Pause, Reading
    <3>2. r.state = "RDRDATA" => frames.cnt < SampleNumber /\ ~r.flag
      BY <1>2
    <3> QED
      BY <1>1, <1>3, <2>1, <2>2, <3>1, <3>2
  <2>7. frames'.cnt = 0 => frames'.cnt <= 1
    OBVIOUS
  <2>8. frames'.cnt < SampleNumber => frames'.cnt <= SampleNumber /\ frames'.cnt # SampleNumber
    BY <1>1, <1>3
  <2> QED
    BY <1>1, <2>3, <2>4, <2>5, <2>6, <2>7, <2>8, Zenon DEF CountInv
\* A DRDY starts the next frame when the tail is done.
<1>7. CASE r.state \in Between /\ r'.state = After[r.state] /\ hp /\ ~r.flag
  <2>1. ~Tailing(r)
    BY <1>7, DrdyMeans
  <2>2. ~r.flagHp /\ ~r'.flag /\ ~(r.flag /\ ~frames.flag0)
    BY <1>1, <1>7, <2>1, Zenon DEF Tailing
  <2>3. r'.state = "RDRDATA"
    BY <1>5, <1>7, AfterValues
  <2>4. frames.cnt < SampleNumber
    BY <1>1, <1>2, <1>3, <1>5, <1>7
  <2>5. frames'.cnt < SampleNumber
    BY <1>1, <1>3, <2>2, <2>4
  <2>6. "RDRDATA" \notin Early /\ "RDRDATA" # "RSICRtoRDRDATA" /\ "RDRDATA" # "RDRDATAtoIDEL"
    OBVIOUS
  <2> QED
    BY <1>1, <2>2, <2>3, <2>5, <2>6, Zenon DEF CountInv
\* The run ends with the last frame's flag.
<1>8. CASE r.state = "RDRDATAtoIDEL" /\ r'.state = "IDEL" /\ frames.cnt >= SampleNumber
  <2>1. r.flag /\ frames.flag0
    BY <1>1, <1>2, <1>3, <1>8
  <2>2. "IDEL" \notin Early /\ "IDEL" # "RSICRtoRDRDATA" /\ "IDEL" # "RDRDATAtoIDEL" /\ "IDEL" # "RDRDATA"
    OBVIOUS
  <2> QED
    BY <1>1, <1>8, <2>1, <2>2, Zenon DEF CountInv
\* The tail is written, and the frame counted.
<1>9. CASE r.state \in Between /\ r'.state = r.state
  <2>1. (Tailing(r') => Tailing(r) /\ ~r.flagHp) /\ (r.flagHp => Tailing(r))
    BY <1>9, BetweenStays
  <2>2. w.finsh
    <3>1. "IDEL" \notin Between
      BY <1>5
    <3> QED
      BY <1>9, <3>1, ReaderStands, Zenon
  <2>3. Tailing(r') => (r'.flag => frames'.flag0)
    BY <1>1, <2>1, Zenon
  <2>4. ASSUME r.state = "RSICRtoRDRDATA"
        PROVE  /\ frames'.cnt <= 1
               /\ Tailing(r') \/ (r'.flag /\ ~frames'.flag0) => frames'.cnt = 0
    <3>1. CASE r.flag /\ ~frames.flag0
      <4>1. frames.cnt = 0 /\ ~Tailing(r)
        BY <1>2, <2>4, <3>1, Zenon
      <4>2. frames'.cnt = 0 \/ frames'.cnt = 1
        BY <1>1, <1>3, <3>1, <4>1
      <4>3. frames'.cnt <= 1
        BY <4>2
      <4> QED
        BY <1>1, <2>1, <3>1, <4>1, <4>3, Zenon
    <3>2. CASE ~(r.flag /\ ~frames.flag0)
      <4>1. frames'.cnt = frames.cnt
        BY <1>1, <2>2, <3>2, Zenon
      <4>2. r'.flag /\ ~frames'.flag0 => Tailing(r)
        BY <1>1, <2>1, Zenon
      <4> QED
        BY <1>2, <2>1, <2>4, <4>1, <4>2, Zenon
    <3> QED
      BY <3>1, <3>2
  <2>5. ASSUME r.state = "RDRDATAtoIDEL"
        PROVE  /\ frames'.cnt <= SampleNumber
               /\ frames'.cnt = SampleNumber => r'.flag /\ frames'.flag0
               /\ Tailing(r') => ~r'.flag /\ frames'.cnt < SampleNumber
    <3>1. CASE r.flag /\ ~frames.flag0
      <4>1. frames.cnt < SampleNumber /\ ~Tailing(r)
        <5>1. frames.cnt <= SampleNumber /\ frames.cnt # SampleNumber /\ ~Tailing(r)
          BY <1>2, <2>5, <3>1, Zenon
        <5> QED
          BY <1>1, <1>3, <5>1
      <4>2. frames'.cnt <= SampleNumber
        BY <1>1, <1>3, <3>1, <4>1
      <4> QED
        BY <1>1, <2>1, <3>1, <4>1, <4>2, Zenon
    <3>2. CASE ~(r.flag /\ ~frames.flag0)
      <4>1. frames'.cnt = frames.cnt
        BY <1>1, <2>2, <3>2, Zenon
      <4>2. ~(frames.cnt >= SampleNumber)
        <5>1. "RDRDATAtoIDEL" \notin Reading /\ "RDRDATAtoIDEL" # "IDEL"
          BY DEF Reading
        <5>2. After["RDRDATAtoIDEL"] # "RDRDATAtoIDEL"
          BY AfterValues
        <5> QED
          BY <1>9, <2>5, <5>1, <5>2, ReaderGoes, Zenon
      <4>3. frames'.cnt < SampleNumber /\ frames'.cnt <= SampleNumber /\ frames'.cnt # SampleNumber
        BY <1>1, <1>3, <4>1, <4>2
      <4>4. Tailing(r') => ~r'.flag
        BY <1>1, <1>2, <2>1, <2>5, Zenon
      <4> QED
        BY <4>3, <4>4, Zenon
    <3> QED
      BY <3>1, <3>2
  <2>6. r'.state \notin Early /\ r'.state # "RDRDATA" /\ r'.state \in Between
    BY <1>5, <1>9
  <2> QED
    BY <1>1, <1>9, <2>3, <2>4, <2>5, <2>6, Zenon DEF CountInv
<1>10. "IDEL" \notin Between /\ "IDEL" \notin Reading /\ \A x \in Between : x \notin Reading
  BY DEF Between, Reading
<1> QED
  BY <1>5, <1>6, <1>7, <1>8, <1>9, <1>10, ReaderGoes, Zenon

-----------------------------------------------------------------------------
\* The place in the run moves on when a chip select ends.
LEMMA TurnValues ==
  /\ \A x \in WritePause : Turn(AfterW[x]) = Turn(x)
  /\ Turn("IDELtoWRCR") = 1 /\ Turn("IDELtoRRCR") = 4 /\ Turn("WSICR") = 3
  /\ \A x \in Writing : Turn(x) < 7 /\ (x # "WSICR" => Turn(AfterW[x]) = Turn(x) + 1)
  /\ \A x \in Pause : Turn(After[x]) = Turn(x)
  /\ \A x \in Reading : Turn(After[x]) = IF Turn(x) < 7 THEN Turn(x) + 1 ELSE Turn(x)
  /\ Turn("RDRDATAtoIDEL") = 7
BY AfterWValues, AfterValues DEF WritePause, Writing, Pause, Reading, Turn

LEMMA StepMoves ==
  ASSUME NEW drdy, Edge(drdy)
  PROVE  /\ start' /\ ~start => step' = 1
         /\ ~(start' /\ ~start) /\ ~Selects => step' = step
         /\ ~(start' /\ ~start) /\ Selects /\ ~Selects' =>
              step' = IF step < 7 THEN step + 1 ELSE step
BY Zenon DEF Edge, Step

\* The run while the writer has not finished.
LEMMA RunWritten ==
  ASSUME ShapeInv, WriterInv, ReaderInv, LineInv, TailInv, FlagInv, CountInv, RunInv,
         NEW drdy, Edge(drdy), w.state # "WSICRtoIDEL"
  PROVE  RunInv'
<1>1. r.state = "IDEL" /\ r'.state = "IDEL" /\ ~w.finsh
  <2>1. r.state = "IDEL" /\ r'.state = "IDEL"
    BY ReaderStands, Zenon
  <2> QED
    BY <2>1, Zenon DEF WriterInv
<1>2. frames'.cnt = 0
  BY <1>1, CountMoves, Zenon
<1>3. start => start'
  BY StartStays
<1>4. /\ w.state \in WritePause \cup Writing => step = Turn(w.state) /\ start
      /\ w.state = "IDEL" /\ start => step = 1
  BY Zenon DEF RunInv, WriterInv
<1>5. /\ start' /\ ~start => step' = 1
      /\ ~(start' /\ ~start) /\ ~Selects => step' = step
      /\ ~(start' /\ ~start) /\ Selects /\ ~Selects' =>
           step' = IF step < 7 THEN step + 1 ELSE step
  BY StepMoves, Zenon
<1>6. Selects <=> w.state \in Writing
  <2>1. "IDEL" \notin Reading
    BY DEF Reading
  <2> QED
    BY <1>1, <2>1, Owner, Zenon
<1>7. /\ "IDEL" \notin WritePause \cup Writing /\ "WSICRtoIDEL" \notin WritePause \cup Writing
      /\ \A x \in WritePause : x \notin Writing
      /\ \A x \in WritePause : AfterW[x] \in Writing
      /\ \A x \in Writing : AfterW[x] \in WritePause \/ (x = "WSICR" /\ AfterW[x] = "WSICRtoIDEL")
      /\ "WSICR" \in Writing /\ "IDELtoWRCR" \in WritePause /\ "IDEL" # "WSICRtoIDEL"
  BY AfterWValues DEF WritePause, Writing
<1>8. CASE w.state = "IDEL" /\ w'.state = "IDEL"
  BY <1>1, <1>2, <1>4, <1>5, <1>6, <1>7, <1>8, Zenon DEF RunInv
<1>9. CASE w.state = "IDEL" /\ w'.state = "IDELtoWRCR" /\ start
  <2>1. step' = 1
    BY <1>4, <1>5, <1>6, <1>7, <1>9, Zenon
  <2> QED
    BY <1>1, <1>2, <1>7, <1>9, <2>1, TurnValues, Zenon DEF RunInv
<1>10. CASE w.state \in WritePause /\ (w'.state = w.state \/ w'.state = AfterW[w.state])
  <2>1. step' = step
    BY <1>4, <1>5, <1>6, <1>7, <1>10, Zenon
  <2>2. step' = Turn(w'.state) /\ w'.state \in WritePause \cup Writing
    BY <1>4, <1>7, <1>10, <2>1, TurnValues, Zenon
  <2> QED
    BY <1>1, <1>2, <1>7, <2>2, Zenon DEF RunInv
<1>11. CASE w.state \in Writing /\ w'.state = w.state /\ w.byteCnt <= WRegByte[w.state]
  <2>1. step' = step
    BY <1>11, WriterStays, Zenon
  <2> QED
    BY <1>1, <1>2, <1>4, <1>7, <1>11, <2>1, Zenon DEF RunInv
<1>12. CASE w.state \in Writing /\ w'.state = AfterW[w.state] /\ ~(w.byteCnt <= WRegByte[w.state])
  <2>1. ~Selects'
    <3>1. whrl'
      BY <1>12, WriterEnds, Zenon
    <3>2. AfterW[w.state] \notin Writing
      BY <1>7, <1>12, Zenon
    <3>3. ~w'.sel
      BY <1>12, <3>2, WriterFields, Zenon DEF Edge
    <3> QED
      BY <3>1, <3>3, Zenon DEF Selects
  <2>2. step' = step + 1 /\ step = Turn(w.state)
    <3>1. step = Turn(w.state) /\ Turn(w.state) < 7
      BY <1>4, <1>12, TurnValues, Zenon
    <3> QED
      BY <1>4, <1>5, <1>6, <1>12, <2>1, <3>1, Zenon
  <2>3. CASE w.state # "WSICR"
    <3>1. step' = Turn(w'.state)
      BY <1>12, <2>2, <2>3, TurnValues, Zenon
    <3> QED
      BY <1>1, <1>2, <1>7, <1>12, <2>3, <3>1, Zenon DEF RunInv
  <2>4. CASE w.state = "WSICR"
    <3>1. w'.state = "WSICRtoIDEL"
      BY <1>12, <2>4, AfterWValues, Zenon
    <3>2. step' = 4
      BY <2>2, <2>4, TurnValues
    <3> QED
      BY <1>1, <1>2, <1>3, <1>4, <1>7, <1>12, <3>1, <3>2, Zenon DEF RunInv
  <2> QED
    BY <2>3, <2>4
<1> QED
  BY <1>8, <1>9, <1>10, <1>11, <1>12, WriterGoes, Zenon

\* The run once the configuration is written.
LEMMA RunRead ==
  ASSUME ShapeInv, WriterInv, ReaderInv, LineInv, TailInv, FlagInv, CountInv, RunInv,
         NEW drdy, Edge(drdy), w.state = "WSICRtoIDEL"
  PROVE  RunInv'
<1>1. /\ start' /\ ~start => step' = 1
      /\ ~(start' /\ ~start) /\ ~Selects => step' = step
      /\ ~(start' /\ ~start) /\ Selects /\ ~Selects' =>
           step' = IF step < 7 THEN step + 1 ELSE step
  BY StepMoves, Zenon
<1>2. w.finsh
  BY Zenon DEF WriterInv
<1>3. /\ "IDEL" \notin WritePause \cup Writing /\ "WSICRtoIDEL" \notin WritePause \cup Writing
      /\ "IDEL" \notin Pause \cup Reading \cup Between /\ "IDEL" # "WSICRtoIDEL"
      /\ \A x \in Pause : x \notin Reading
      /\ \A x \in Pause : After[x] \in Reading
      /\ \A x \in Reading : After[x] \in Pause
      /\ "IDELtoRRCR" # "IDEL" /\ "RDRDATAtoIDEL" \in Pause
  BY AfterValues DEF WritePause, Writing, Pause, Reading, Between
<1>4. Selects <=> r.state \in Reading
  BY <1>3, Owner, Zenon
<1>5. w'.state = "WSICRtoIDEL" \/ (w'.state = "IDEL" /\ w.init = 0 /\ ~start)
  BY <1>3, WriterGoes, Zenon
<1>6. frames.cnt \in Nat /\ SampleNumber \in Nat \ {0}
  BY RunAssumption DEF CountInv
<1>7. r.state # "IDEL" => step = Turn(r.state)
  BY Zenon DEF RunInv
<1>8. frames.cnt = 0 => ~(frames.cnt > 0)
  OBVIOUS
\* The configuration is withdrawn.
<1>9. CASE w'.state = "IDEL" /\ w.init = 0 /\ ~start
  <2>1. r.state = "IDEL" /\ r'.state = "IDEL"
    BY <1>9, ReaderStands, Zenon
  <2>2. r.flag => frames.flag0
    BY <1>3, <2>1, Zenon DEF CountInv
  <2>3. frames'.cnt = frames.cnt
    BY <1>2, <2>2, CountMoves, Zenon
  <2>4. start' => frames'.cnt = 0
    BY <1>9, <2>3, SoftwareMoves, Zenon
  <2> QED
    BY <1>1, <1>3, <1>9, <2>1, <2>4, Zenon DEF RunInv
\* The reader waits to be enabled, or has done its run.
<1>10. CASE w'.state = "WSICRtoIDEL" /\ r.state = "IDEL" /\ r'.state = "IDEL"
  <2>1. \/ start /\ step = 4 /\ frames.cnt = 0
        \/ step = 7 /\ frames.cnt > 0 /\ (rcfg => r_spi.finsh)
    BY <1>10, Zenon DEF RunInv
  <2>2. r.flag => frames.flag0
    BY <1>3, <1>10, Zenon DEF CountInv
  <2>3. frames'.cnt = frames.cnt
    BY <1>2, <2>2, CountMoves, Zenon
  <2>4. CASE start /\ step = 4 /\ frames.cnt = 0
    <3>1. start'
      BY <2>4, StartStays
    <3>2. step' = 4
      BY <1>1, <1>3, <1>4, <1>10, <2>4, Zenon
    <3> QED
      BY <1>3, <1>10, <2>3, <2>4, <3>1, <3>2, Zenon DEF RunInv
  <2>5. CASE step = 7 /\ frames.cnt > 0 /\ (rcfg => r_spi.finsh)
    <3>1. frames.cnt # 0
      BY <1>6, <2>5
    <3>2. ~(start' /\ ~start) /\ (rcfg' => rcfg)
      BY <3>1, SoftwareMoves, Zenon
    <3>3. step' = 7
      BY <1>1, <1>3, <1>4, <1>10, <2>5, <3>2, Zenon
    <3>4. rcfg' => r_spi'.finsh
      BY <1>2, <2>5, <3>2, ReaderCounts, Zenon DEF Edge, r_en
    <3> QED
      BY <1>3, <1>10, <2>3, <2>5, <3>3, <3>4, Zenon DEF RunInv
  <2> QED
    BY <2>1, <2>4, <2>5
\* The reader is at work: the configuration stands.
<1>11. ASSUME r.state # "IDEL" \/ r'.state # "IDEL"
       PROVE  start /\ ~(start' /\ ~start)
  BY <1>11, ReaderStands, Zenon
<1>12. ASSUME w'.state = "WSICRtoIDEL", r'.state # "IDEL", step' = Turn(r'.state)
       PROVE  RunInv'
  BY <1>3, <1>12, Zenon DEF RunInv
<1>13. CASE r.state = "IDEL" /\ r'.state = "IDELtoRRCR" /\ r_en /\ ~r_spi.finsh
  <2>1. step = 4
    BY <1>13, Zenon DEF RunInv, r_en
  <2>2. step' = 4
    BY <1>1, <1>3, <1>4, <1>11, <1>13, <2>1, Zenon
  <2>3. w'.state = "WSICRtoIDEL"
    BY <1>3, <1>5, <1>11, <1>13, Zenon
  <2> QED
    BY <1>3, <1>12, <1>13, <2>2, <2>3, TurnValues, Zenon
<1>14. CASE r.state \in Pause /\ (r'.state = r.state \/ r'.state = After[r.state])
  <2>1. r.state # "IDEL" /\ r'.state # "IDEL"
    BY <1>3, <1>14, Zenon
  <2>2. step' = step
    BY <1>1, <1>3, <1>4, <1>11, <1>14, <2>1, Zenon
  <2>3. step' = Turn(r'.state)
    BY <1>7, <1>14, <2>1, <2>2, TurnValues, Zenon
  <2>4. w'.state = "WSICRtoIDEL"
    BY <1>5, <1>11, <2>1, Zenon
  <2> QED
    BY <1>12, <2>1, <2>3, <2>4
<1>15. CASE r.state \in Reading /\ r'.state = r.state /\ r.byteCnt <= RegByte[r.state]
  <2>1. r.state # "IDEL" /\ r'.state # "IDEL"
    BY <1>3, <1>15, Zenon
  <2>2. step' = step
    BY <1>15, ReaderStays, Zenon
  <2>3. step' = Turn(r'.state)
    BY <1>7, <1>15, <2>1, <2>2, Zenon
  <2>4. w'.state = "WSICRtoIDEL"
    BY <1>5, <1>11, <2>1, Zenon
  <2> QED
    BY <1>12, <2>1, <2>3, <2>4
<1>16. CASE r.state \in Reading /\ r'.state = After[r.state] /\ ~(r.byteCnt <= RegByte[r.state])
  <2>1. r.state # "IDEL" /\ r'.state # "IDEL" /\ r'.state \notin Reading
    BY <1>3, <1>16, Zenon
  <2>2. ~Selects'
    <3>1. ~whrl'
      BY <1>16, ReaderEnds, Zenon
    <3>2. ~r'.sel
      BY <2>1, ReaderFields, Zenon DEF Edge
    <3> QED
      BY <3>1, <3>2, Zenon DEF Selects
  <2>3. step' = IF step < 7 THEN step + 1 ELSE step
    BY <1>1, <1>4, <1>11, <1>16, <2>1, <2>2, Zenon
  <2>4. step' = Turn(r'.state)
    BY <1>7, <1>16, <2>1, <2>3, TurnValues, Zenon
  <2>5. w'.state = "WSICRtoIDEL"
    BY <1>5, <1>11, <2>1, Zenon
  <2> QED
    BY <1>12, <2>1, <2>4, <2>5
<1>17. CASE r.state = "RDRDATAtoIDEL" /\ r'.state = "IDEL" /\ frames.cnt >= SampleNumber
  <2>1. r.state # "IDEL" /\ r.state \notin Reading
    BY <1>3, <1>17, Zenon
  <2>2. step' = 7
    BY <1>1, <1>4, <1>7, <1>11, <1>17, <2>1, TurnValues, Zenon
  <2>3. r.flag => frames.flag0
    BY <1>6, <1>17 DEF CountInv
  <2>4. frames'.cnt = frames.cnt
    BY <1>2, <2>3, CountMoves, Zenon
  <2>5. frames'.cnt > 0
    BY <1>6, <1>17, <2>4
  <2>6. r_spi'.finsh
    BY <1>17, ReaderCounts, Zenon DEF Edge
  <2>7. w'.state = "WSICRtoIDEL"
    BY <1>5, <1>11, <2>1, Zenon
  <2> QED
    BY <1>3, <1>17, <2>2, <2>5, <2>6, <2>7, Zenon DEF RunInv
<1>18. r.state # "IDEL" \/ r'.state # "IDEL" => w'.state = "WSICRtoIDEL"
  BY <1>5, <1>11, Zenon
<1> QED
  BY <1>5, <1>9, <1>10, <1>13, <1>14, <1>15, <1>16, <1>17, ReaderGoes, Zenon

-----------------------------------------------------------------------------
\* What the MAX11040 has heard when all bytes are out is the transfer.
LEMMA WholeSeq ==
  ASSUME NEW S, NEW t, NEW n \in Nat \ {0}, NEW x \in S, NEW rest \in Seq(S),
         Len(rest) = n - 1, ByteOf(t, 0) = x, \A i \in 1 .. n - 1 : ByteOf(t, i) = rest[i]
  PROVE  Said(t, n) = <<x>> \o rest
<1> DEFINE one == <<x>>
           u == one \o rest
<1>1. one \in Seq(S) /\ Len(one) = 1 /\ one[1] = x
  OBVIOUS
<1> HIDE DEF one
<1>2. /\ Len(u) = n
      /\ \A i \in 1 .. n : u[i] = IF i <= 1 THEN one[i] ELSE rest[i - 1]
      /\ u \in Seq(S)
  <2>1. /\ u \in Seq(S) /\ Len(u) = Len(one) + Len(rest)
        /\ \A i \in 1 .. Len(one) + Len(rest) :
             u[i] = IF i <= Len(one) THEN one[i] ELSE rest[i - Len(one)]
    BY <1>1, ConcatProperties
  <2>2. Len(one) + Len(rest) = n
    BY <1>1
  <2> QED
    BY <1>1, <2>1, <2>2
<1>3. u = [i \in 1 .. n |-> u[i]]
  BY <1>2, LenProperties
<1> HIDE DEF u
<1>4. \A i \in 1 .. n : u[i] = ByteOf(t, i - 1)
  <2> TAKE i \in 1 .. n
  <2>1. CASE i = 1
    <3>1. 1 \in 1 .. n /\ 1 <= 1 /\ 1 - 1 = 0
      OBVIOUS
    <3>2. u[1] = one[1]
      BY <1>2, <3>1, Zenon
    <3> QED
      BY <1>1, <2>1, <3>1, <3>2, Zenon
  <2>2. CASE i # 1
    <3>1. i - 1 \in 1 .. n - 1 /\ ~(i <= 1)
      BY <2>2
    <3> QED
      BY <1>2, <3>1, Zenon
  <2> QED
    BY <2>1, <2>2
<1>5. Said(t, n) = [i \in 1 .. n |-> u[i]]
  BY <1>4, Zenon DEF Said
<1> QED
  BY <1>3, <1>5, Zenon DEF u, one

\* A register's bytes, all of them alike; and three that are not.
LEMMA SameBytes ==
  ASSUME NEW t, NEW n \in Nat \ {0}, \A i \in Nat \ {0} : ByteOf(t, i) = ByteOf(t, 1)
  PROVE  Said(t, n) = <<ByteOf(t, 0)>> \o [i \in 1 .. n - 1 |-> ByteOf(t, 1)]
<1> DEFINE x == ByteOf(t, 0)
           z == ByteOf(t, 1)
           S == {x, z}
           rest == [i \in 1 .. n - 1 |-> z]
<1>1. ByteOf(t, 0) = x /\ \A i \in 1 .. n - 1 : ByteOf(t, i) = z
  <2>1. \A i \in 1 .. n - 1 : i \in Nat \ {0}
    OBVIOUS
  <2> QED
    BY <2>1, Zenon
<1> HIDE DEF x, z
<1>2. x \in S /\ z \in S
  OBVIOUS
<1> HIDE DEF S
<1>3. n - 1 \in Nat
  OBVIOUS
<1>4. rest \in [1 .. n - 1 -> S] /\ \A i \in 1 .. n - 1 : rest[i] = z
  BY <1>2
<1> HIDE DEF rest
<1>5. rest \in Seq(S)
  BY <1>3, <1>4, SeqDef
<1>6. Len(rest) = n - 1
  <2>1. DOMAIN rest = 1 .. n - 1
    BY <1>4
  <2> QED
    BY <1>3, <1>5, <2>1, LenProperties
<1>7. \A i \in 1 .. n - 1 : ByteOf(t, i) = rest[i]
  BY <1>1, <1>4, Zenon
<1>8. Said(t, n) = <<x>> \o rest
  BY <1>1, <1>2, <1>5, <1>6, <1>7, WholeSeq
<1> QED
  BY <1>8, Zenon DEF rest, x, z

LEMMA ThreeBytes ==
  ASSUME NEW t
  PROVE  Said(t, 3) = <<ByteOf(t, 0)>> \o <<ByteOf(t, 1), ByteOf(t, 2)>>
<1> DEFINE x == ByteOf(t, 0)
           y == ByteOf(t, 1)
           z == ByteOf(t, 2)
           S == {x, y, z}
           rest == <<y, z>>
<1>1. ByteOf(t, 0) = x /\ ByteOf(t, 1) = y /\ ByteOf(t, 2) = z
  OBVIOUS
<1> HIDE DEF x, y, z
<1>2. x \in S /\ y \in S /\ z \in S
  OBVIOUS
<1> HIDE DEF S
<1>3. rest \in Seq(S) /\ Len(rest) = 2 /\ rest[1] = y /\ rest[2] = z
  BY <1>2
<1> HIDE DEF rest
<1>4. \A i \in 1 .. 3 - 1 : ByteOf(t, i) = rest[i]
  <2>1. \A i \in 1 .. 3 - 1 : i = 1 \/ i = 2
    OBVIOUS
  <2> QED
    BY <1>1, <1>3, <2>1, Zenon
<1>5. 3 \in Nat \ {0} /\ Len(rest) = 3 - 1
  BY <1>3
<1>6. Said(t, 3) = <<x>> \o rest
  <2> DEFINE n == 3
  <2>1. n \in Nat \ {0} /\ Len(rest) = n - 1 /\ \A i \in 1 .. n - 1 : ByteOf(t, i) = rest[i]
    BY <1>4, <1>5
  <2> HIDE DEF n
  <2>2. Said(t, n) = <<x>> \o rest
    BY <1>1, <1>2, <1>3, <2>1, WholeSeq
  <2> QED
    BY <2>2 DEF n
<1> QED
  BY <1>6, Zenon DEF rest, x, y, z

LEMMA SaidWhole ==
  /\ \A t \in Reading : Said(t, RegByte[t]) = Transfer(t)
  /\ \A t \in Writing : Said(t, WRegByte[t]) = Transfer(t)
<1>1. ASSUME NEW t \in Reading PROVE Said(t, RegByte[t]) = Transfer(t)
  <2>1. RegByte[t] \in Nat \ {0}
    BY RegByteAssumption
  <2>2. t \in DOMAIN Prepares /\ Prepares[t] = t
    BY DEF Prepares, Reading
  <2>3. ByteOf(t, 0) = Command[t]
    BY <2>2, Zenon DEF ByteOf
  <2>4. \A i \in Nat \ {0} : ByteOf(t, i) = "00"
    BY <2>2, Zenon DEF ByteOf
  <2>5. 1 \in Nat \ {0}
    OBVIOUS
  <2>6. Said(t, RegByte[t]) = <<ByteOf(t, 0)>> \o [i \in 1 .. RegByte[t] - 1 |-> ByteOf(t, 1)]
    BY <2>1, <2>4, <2>5, SameBytes, Zenon
  <2>7. ByteOf(t, 1) = "00"
    BY <2>4, <2>5, Zenon
  <2> QED
    BY <2>3, <2>6, <2>7, Zenon DEF Transfer
<1>2. ASSUME NEW t \in Writing, t # "WDRCR" PROVE Said(t, WRegByte[t]) = Transfer(t)
  <2>1. WRegByte[t] \in Nat \ {0}
    BY WRegByteAssumption
  <2>2. t \in DOMAIN Prepares /\ Prepares[t] = t /\ t \notin Reading
    BY DEF Prepares, Reading, Writing
  <2>3. ByteOf(t, 0) = Command[t]
    BY <2>2, Zenon DEF ByteOf
  <2>4. \A i \in Nat \ {0} : ByteOf(t, i) = t
    BY <1>2, <2>2, Zenon DEF ByteOf
  <2>5. 1 \in Nat \ {0}
    OBVIOUS
  <2>6. Said(t, WRegByte[t]) = <<ByteOf(t, 0)>> \o [i \in 1 .. WRegByte[t] - 1 |-> ByteOf(t, 1)]
    BY <2>1, <2>4, <2>5, SameBytes, Zenon
  <2>7. ByteOf(t, 1) = t
    BY <2>4, <2>5, Zenon
  <2> QED
    BY <1>2, <2>2, <2>3, <2>6, <2>7, Zenon DEF Transfer
<1>3. ASSUME NEW t \in Writing, t = "WDRCR" PROVE Said(t, WRegByte[t]) = Transfer(t)
  <2>1. WRegByte[t] = 3
    BY <1>3, WRegByteAssumption
  <2>2. t \notin Reading /\ t \in DOMAIN Prepares /\ Prepares[t] = t
    BY <1>3 DEF Reading, Prepares
  <2>3. ByteOf(t, 0) = Command[t]
    BY <2>2, Zenon DEF ByteOf
  <2>4. ByteOf(t, 1) = t /\ ByteOf(t, 2) = "WDRCR[15:8]"
    <3>1. 1 # 0 /\ 1 # 2 /\ 2 # 0
      OBVIOUS
    <3> QED
      BY <1>3, <2>2, <3>1, Zenon DEF ByteOf
  <2>5. Said(t, 3) = <<ByteOf(t, 0)>> \o <<ByteOf(t, 1), ByteOf(t, 2)>>
    BY ThreeBytes
  <2> QED
    BY <1>3, <2>1, <2>2, <2>3, <2>4, <2>5, Zenon DEF Transfer
<1> QED
  BY <1>1, <1>2, <1>3, Zenon

-----------------------------------------------------------------------------
LEMMA SpiStart == SpiInit => IInv
<1> SUFFICES ASSUME SpiInit PROVE IInv
  OBVIOUS
<1>1. /\ start = FALSE /\ rcfg = FALSE /\ hp = FALSE /\ whrl = TRUE /\ finish = FALSE
      /\ held.wfin = TRUE
      /\ w.init = 0 /\ w.state = "IDEL" /\ w.finsh = FALSE /\ w.busy = FALSE /\ w.sel = FALSE
      /\ w.sel0 = TRUE /\ w.sel1 = TRUE /\ w.byteCnt = 0 /\ w.en = FALSE
      /\ w.fin0 = FALSE /\ w.fin1 = FALSE
      /\ frames.cnt = 0 /\ frames.flag0 = FALSE
      /\ r_spi.fin0 = FALSE /\ r_spi.fin1 = FALSE
  BY DEF SpiInit
<1>2. /\ r.state = "IDEL" /\ r.sel = FALSE /\ r.sel0 = TRUE /\ r.sel1 = TRUE
      /\ r.byteCnt = 0 /\ r.en = FALSE /\ r.byteDue = 0 /\ r.tail = 0
      /\ r.depCnt = 0 /\ r.frameDep = 0 /\ r.flagHp = FALSE /\ r.flag = FALSE
      /\ r.finish0 = FALSE
  BY DEF SpiInit, ChainInit
<1>3. /\ spi.finsh = TRUE /\ spi.bps = 0 /\ spi.bit = 0 /\ spi.sclk = TRUE
      /\ adc.bits = 0 /\ adc.heard = <<>> /\ DOMAIN adc = {"bits", "in", "heard"}
      /\ step = 1
  BY DEF SpiInit
<1>4. ShapeInv
  BY <1>1, <1>3 DEF ShapeInv
<1>5. WriterInv
  BY <1>1, RunAssumption DEF WriterInv, Writing, WritePause
<1>6. ReaderInv
  BY <1>1, <1>2 DEF ReaderInv, Pause, Reading
<1>7. LineInv
  BY <1>1, <1>3 DEF LineInv, Still
<1>8. TailInv
  BY <1>2 DEF TailInv, Off, Reading, Between
<1>9. FlagInv
  BY <1>1, <1>2 DEF FlagInv
<1>10. CountInv
  BY <1>1, <1>2, RunAssumption DEF CountInv, Between
<1>11. RunInv
  BY <1>1, <1>2, <1>3 DEF RunInv, WritePause, Writing
<1> QED
  BY <1>4, <1>5, <1>6, <1>7, <1>8, <1>9, <1>10, <1>11 DEF IInv

LEMMA SpiKept == IInv /\ [SpiNext]_spi_vars => IInv'
<1>1. ASSUME IInv, NEW drdy \in BOOLEAN, Edge(drdy) PROVE IInv'
  <2>1. ShapeInv' /\ WriterInv' /\ ReaderInv' /\ LineInv'
    BY <1>1, ShapeKept, WriterKept, ReaderKept, LineKept DEF IInv
  <2>2. TailInv' /\ FlagInv' /\ CountInv'
    BY <1>1, TailKept, FlagKept, CountKept DEF IInv
  <2>3. RunInv'
    BY <1>1, RunWritten, RunRead DEF IInv
  <2> QED
    BY <2>1, <2>2, <2>3 DEF IInv
<1>2. ASSUME IInv, UNCHANGED spi_vars PROVE IInv'
  BY <1>2 DEF IInv, ShapeInv, WriterInv, ReaderInv, LineInv, TailInv, FlagInv, CountInv, RunInv,
     Selects, Quiet, Off, Tailing, spi_vars
<1> QED
  BY <1>1, <1>2 DEF SpiNext

THEOREM SpiInductive == SpiSpec => []IInv
BY SpiStart, SpiKept, PTL DEF SpiSpec

-----------------------------------------------------------------------------
\* The pulse of a transfer comes with its byte.
LEMMA PulseMeans ==
  ASSUME NEW c, NEW f, NEW fin, NEW s, NEW a, NEW st, NEW n \in Nat \ {0}, NEW t,
         Transferring(c, f, fin, s, a, st, n, t)
  PROVE  /\ Pulse(f) <=> Due(s, f) = 1
         /\ Pulse(f) => s.dataout = <<<<st, Len(a.heard) - 1>>, 8>>
<1>1. ASSUME Still(s), Known(f, fin)
      PROVE  ~Pulse(f) /\ Due(s, f) # 1
  <2>1. Due(s, f) = 0
    BY <1>1, DueStill
  <2>2. ~Pulse(f)
    BY <1>1, Zenon DEF Known, Pulse
  <2> QED
    BY <2>1, <2>2
<1>2. CASE Begun(c, f, fin, s, a) \/ Complete(c, f, fin, s, a, n, t)
  BY <1>1, <1>2, Zenon DEF Begun, Complete
<1>3. ASSUME NEW j \in 0 .. n - 1, Asked(c, f, fin, s, a, t, j)
      PROVE  ~Pulse(f) /\ Due(s, f) # 1
  BY <1>1, <1>3, Zenon DEF Asked
<1>4. ASSUME NEW j \in 0 .. n - 1, NEW m \in 0 .. 7, NEW q \in 0 .. 3,
             Moving(c, f, fin, s, a, st, t, j, m, q)
      PROVE  ~Pulse(f) /\ Due(s, f) # 1
  <2>1. /\ s.bps = q /\ s.bit = (IF q < 3 THEN m ELSE m + 1)
        /\ s.finsh <=> m = 7 /\ q = 3
        /\ f.fin0 <=> m = 0 /\ q = 0
        /\ f.fin1 <=> m = 0 /\ q < 2
    BY <1>4, Zenon DEF Moving
  <2>2. ~Pulse(f)
    BY <2>1 DEF Pulse
  <2>3. Due(s, f) = 33 - q - 4 * m
    BY <2>1 DEF Due, SpiTime
  <2> QED
    BY <2>2, <2>3
<1>5. ASSUME NEW j \in 0 .. n - 1, Come(c, f, fin, s, a, st, t, j)
      PROVE  /\ Pulse(f) /\ Due(s, f) = 1
             /\ s.dataout = <<<<st, Len(a.heard) - 1>>, 8>>
  <2>1. Pulse(f) /\ Due(s, f) = 1
    BY <1>5 DEF Come, Pulse, Due, Still
  <2>2. a.heard = Said(t, j + 1) /\ s.dataout = <<<<st, j>>, 8>>
    BY <1>5 DEF Come
  <2>3. Len(a.heard) = j + 1
    <3>1. j + 1 \in Nat
      OBVIOUS
    <3> QED
      BY <2>2, <3>1, SaidSeq, Zenon
  <2> DEFINE l == Len(a.heard)
  <2> HIDE DEF l
  <2>4. l - 1 = j
    BY <2>3 DEF l
  <2> QED
    BY <2>1, <2>2, <2>4, Zenon DEF l
<1> QED
  BY <1>2, <1>3, <1>4, <1>5, <1>1, Zenon DEF Transferring, Begun, Complete

LEMMA PulseByte ==
  \A c, f, fin, s, a, st, t : \A n \in Nat \ {0} :
    Transferring(c, f, fin, s, a, st, n, t) /\ Pulse(f) =>
      s.dataout = <<<<st, Len(a.heard) - 1>>, 8>>
BY PulseMeans

\* The reader is shown each byte the MAX11040 sends exactly once, whole and
\* SpiTime clocks after it was asked for, whatever the registers' lengths: the
\* one thing AdcChain assumes of the SPI.
THEOREM BytesShown == SpiSpec => []BytesOnTime
<1>1. IInv => BytesOnTime
  <2> SUFFICES ASSUME IInv, r.sel
               PROVE  /\ Pulse(r_spi) <=> r.byteDue = 1
                      /\ Pulse(r_spi) => spi.dataout = <<<<step, Len(adc.heard) - 1>>, 8>>
    BY DEF BytesOnTime
  <2>1. r.state \in Reading
    BY Zenon DEF IInv, ReaderInv
  <2>2. /\ Transferring(r, r_spi, held.rfin, spi, adc, step, RegByte[r.state], r.state)
        /\ r.byteDue = Due(spi, r_spi)
    BY <2>1, Zenon DEF IInv, ReaderInv
  <2>3. RegByte[r.state] \in Nat \ {0}
    BY <2>1, RegByteAssumption
  <2>4. /\ Pulse(r_spi) <=> Due(spi, r_spi) = 1
        /\ Pulse(r_spi) => spi.dataout = <<<<step, Len(adc.heard) - 1>>, 8>>
    <3> DEFINE n == RegByte[r.state]
    <3>1. Transferring(r, r_spi, held.rfin, spi, adc, step, n, r.state) /\ n \in Nat \ {0}
      BY <2>2, <2>3, Zenon
    <3> HIDE DEF n
    <3>2. Pulse(r_spi) => Due(spi, r_spi) = 1
      BY <3>1, PulseMeans, Zenon
    <3>3. Due(spi, r_spi) = 1 => Pulse(r_spi)
      BY <3>1, PulseMeans, Zenon
    <3>4. Pulse(r_spi) => spi.dataout = <<<<step, Len(adc.heard) - 1>>, 8>>
      BY <3>1, PulseByte, Zenon
    <3> QED
      BY <3>2, <3>3, <3>4
  <2> QED
    BY <2>2, <2>4, Zenon
<1> QED
  BY <1>1, SpiInductive, PTL

LEMMA OrderTurn ==
  /\ \A x \in Writing \cup Reading : Order[Turn(x)] = x
BY DEF Writing, Reading, Order, Turn

\* A chip select ends only with the transfer whose turn it is, whole.
LEMMA SelectEnds ==
  ASSUME IInv, NEW drdy, Edge(drdy), Selects, ~Selects'
  PROVE  adc.heard = Transfer(Order[step]) /\ adc.bits = 8 * Len(adc.heard)
<1>1. ASSUME NEW n \in Nat \ {0}, NEW t \in Writing \cup Reading,
             step = Turn(t), Said(t, n) = Transfer(t),
             adc.bits = 8 * n, adc.heard = Said(t, n)
      PROVE  adc.heard = Transfer(Order[step]) /\ adc.bits = 8 * Len(adc.heard)
  <2>1. Len(adc.heard) = n
    BY <1>1, SaidSeq, Zenon
  <2>2. Order[step] = t
    BY <1>1, OrderTurn, Zenon
  <2> QED
    BY <1>1, <2>1, <2>2, Zenon
<1>2. w.state \in Writing \/ r.state \in Reading
  BY Owner DEF IInv
<1>3. CASE w.state \in Writing
  <2>1. ~(w.byteCnt <= WRegByte[w.state])
    <3>1. ASSUME w.byteCnt <= WRegByte[w.state] PROVE FALSE
      <4>1. w'.state = w.state /\ whrl'
        BY <1>3, <3>1, WriterStays, Zenon DEF IInv
      <4>2. w'.sel
        BY <1>3, <4>1, WriterFields, Zenon DEF Edge
      <4> QED
        BY <4>1, <4>2, Zenon DEF Selects
    <3> QED
      BY <3>1
  <2>2. Complete(w, w, held.wfin, spi, adc, WRegByte[w.state], w.state)
    BY <1>3, <2>1, WriterEnds, Zenon DEF IInv
  <2>3. adc.bits = 8 * WRegByte[w.state] /\ adc.heard = Said(w.state, WRegByte[w.state])
    BY <2>2, Zenon DEF Complete
  <2>4. step = Turn(w.state) /\ WRegByte[w.state] \in Nat \ {0}
    BY <1>3, WRegByteAssumption DEF IInv, RunInv
  <2> QED
    BY <1>1, <1>3, <2>3, <2>4, SaidWhole, Zenon
<1>4. CASE r.state \in Reading
  <2>1. r.state # "IDEL"
    BY <1>4 DEF Reading
  <2>2. ~(r.byteCnt <= RegByte[r.state])
    <3>1. ASSUME r.byteCnt <= RegByte[r.state] PROVE FALSE
      <4>1. r'.state = r.state
        BY <1>4, <3>1, ReaderStays, Zenon DEF IInv
      <4>2. r'.sel
        BY <1>4, <4>1, ReaderFields, Zenon DEF Edge
      <4>3. ~whrl'
        BY <2>1, <4>1, ReaderStands, Zenon DEF IInv
      <4> QED
        BY <4>2, <4>3, Zenon DEF Selects
    <3> QED
      BY <3>1
  <2>3. Complete(r, r_spi, held.rfin, spi, adc, RegByte[r.state], r.state)
    BY <1>4, <2>2, ReaderEnds, Zenon DEF IInv
  <2>4. adc.bits = 8 * RegByte[r.state] /\ adc.heard = Said(r.state, RegByte[r.state])
    BY <2>3, Zenon DEF Complete
  <2>5. step = Turn(r.state) /\ RegByte[r.state] \in Nat \ {0}
    BY <1>4, <2>1, RegByteAssumption DEF IInv, RunInv
  <2> QED
    BY <1>1, <1>4, <2>4, <2>5, SaidWhole, Zenon
<1> QED
  BY <1>2, <1>3, <1>4

\* Whoever owns the SPI, over any number of runs: no transfer is cut, begun
\* twice or begun by the other side, and the MAX11040 hears each one whole.
THEOREM TransfersHeard == SpiSpec => TransfersWhole
<1>1. IInv /\ [SpiNext]_spi_vars =>
        [Selects /\ ~Selects' => /\ adc.heard = Transfer(Order[step])
                                 /\ adc.bits = 8 * Len(adc.heard)]_spi_vars
  <2>1. ASSUME IInv, NEW drdy \in BOOLEAN, Edge(drdy), Selects, ~Selects'
        PROVE  adc.heard = Transfer(Order[step]) /\ adc.bits = 8 * Len(adc.heard)
    BY <2>1, SelectEnds, Zenon
  <2> QED
    BY <2>1 DEF SpiNext
<1> QED
  BY <1>1, SpiInductive, PTL DEF SpiSpec, TransfersWhole

-----------------------------------------------------------------------------
\* A byte that comes while the reader is in no transfer changes nothing.
LEMMA ByteUnused ==
  ASSUME NEW c, NEW next, next \notin Reading, ~c.sel, NEW byte, NEW byte2, NEW fin, NEW time
  PROVE  ChainStep(c, next, byte, fin, time) = ChainStep(c, next, byte2, fin, time)
<1>1. DOMAIN RegByte = Reading
  BY RegByteAssumption
<1>2. ByteCnt(c, next, byte, RegByte) = <<0, FALSE>>
      /\ ByteCnt(c, next, byte2, RegByte) = <<0, FALSE>>
  BY <1>1 DEF ByteCnt
<1>3. /\ (IF c.sel THEN byte ELSE 0) = (IF c.sel THEN byte2 ELSE 0)
      /\ \A x : (IF c.sel THEN byte ELSE x) = (IF c.sel THEN byte2 ELSE x)
      /\ (c.sel /\ byte) = FALSE /\ (c.sel /\ byte2) = FALSE
  OBVIOUS
<1> QED
  BY <1>2, <1>3 DEF ChainStep

\* What the sequencer sees of DRDY and of the SPI is what AdcChain gives it.
LEMMA ChainGoes ==
  ASSUME IInv, NEW drdy, Edge(drdy), r'.state # "IDEL"
  PROVE  r' = ChainStep(r, NextState(r, hp), ByteIn(r), finish, SpiTime)
<1>1. r' = ChainStep(r, NextRead, Pulse(r_spi), finish, SpiTime) /\ r'.state = NextRead
  BY ReaderFields, Zenon DEF Edge, ReadEdge
<1>2. NextRead = NextState(r, hp)
  <2>1. NextRead = NextState(r, held.rDRDY)
    BY <1>1, Zenon DEF NextRead
  <2>2. CASE r.state = "IDEL"
    BY <2>1, <2>2, Zenon DEF NextState
  <2>3. CASE r.state # "IDEL"
    <3>1. held.rDRDY <=> hp
      BY <2>3, Zenon DEF IInv, ReaderInv
    <3> QED
      BY <2>1, <3>1, Zenon DEF NextState
  <2> QED
    BY <2>2, <2>3
<1>3. CASE r.state \in Reading
  <2>1. Transferring(r, r_spi, held.rfin, spi, adc, step, RegByte[r.state], r.state)
        /\ r.byteDue = Due(spi, r_spi)
    BY <1>3, Zenon DEF IInv, ReaderInv
  <2>2. RegByte[r.state] \in Nat \ {0}
    BY <1>3, RegByteAssumption
  <2>3. Pulse(r_spi) <=> Due(spi, r_spi) = 1
    <3> DEFINE n == RegByte[r.state]
    <3>1. Transferring(r, r_spi, held.rfin, spi, adc, step, n, r.state) /\ n \in Nat \ {0}
      BY <2>1, <2>2, Zenon
    <3> HIDE DEF n
    <3>2. Pulse(r_spi) => Due(spi, r_spi) = 1
      BY <3>1, PulseMeans, Zenon
    <3>3. Due(spi, r_spi) = 1 => Pulse(r_spi)
      BY <3>1, PulseMeans, Zenon
    <3> QED
      BY <3>2, <3>3
  <2>4. Pulse(r_spi) = ByteIn(r)
    BY <2>1, <2>3, Zenon DEF ByteIn, Pulse
  <2> QED
    BY <1>1, <1>2, <2>4, Zenon
<1>4. CASE r.state \notin Reading /\ NextRead \notin Reading
  <2>1. ~r.sel
    BY <1>4, Zenon DEF IInv, ReaderInv
  <2>2. ChainStep(r, NextRead, Pulse(r_spi), finish, SpiTime)
          = ChainStep(r, NextRead, ByteIn(r), finish, SpiTime)
    <3> DEFINE next == NextRead
               pulse == Pulse(r_spi)
               byte == ByteIn(r)
               time == SpiTime
    <3>1. next \notin Reading
      BY <1>4
    <3> HIDE DEF next, pulse, byte, time
    <3>2. ChainStep(r, next, pulse, finish, time) = ChainStep(r, next, byte, finish, time)
      BY <2>1, <3>1, ByteUnused
    <3> QED
      BY <3>2, Zenon DEF next, pulse, byte, time
  <2> QED
    BY <1>1, <1>2, <2>2, Zenon
<1>5. CASE r.state \notin Reading /\ NextRead \in Reading
  <2>1. r.state \in Pause /\ hp
    <3>1. "IDEL" \notin Reading /\ "IDELtoRRCR" \notin Reading
      BY DEF Reading
    <3>2. \A x \in Pause : x \notin Reading
      BY DEF Pause, Reading
    <3> QED
      BY <1>1, <1>5, <3>1, <3>2, ReaderGoes, Zenon DEF IInv
  <2>2. r_spi.fin1
    <3>1. hp => ~Tailing(r) /\ (r.state = "IDELtoRRCR" => r_spi.fin1)
      BY DrdyMeans DEF IInv
    <3> QED
      BY <1>5, <2>1, <3>1, Zenon DEF IInv, ReaderInv
  <2>3. r.byteDue # 1
    <3>1. r.byteDue = 0
      BY <1>5, Zenon DEF IInv, ReaderInv
    <3> QED
      BY <3>1
  <2>4. Pulse(r_spi) = ByteIn(r)
    BY <2>2, <2>3, Zenon DEF ByteIn, Pulse
  <2> QED
    BY <1>1, <1>2, <2>4, Zenon
<1> QED
  BY <1>3, <1>4, <1>5

\* Step by step, for every edge from its start to the end of the run: the
\* sequencer with its SPI, its latches and its hand-over is AdcChain's.
THEOREM ChainFollowed == SpiSpec => FollowsChain
<1>1. IInv /\ [SpiNext]_spi_vars =>
        [r'.state # "IDEL" =>
           r' = ChainStep(r, NextState(r, hp), ByteIn(r), finish, SpiTime)]_spi_vars
  <2>1. ASSUME IInv, NEW drdy \in BOOLEAN, Edge(drdy), r'.state # "IDEL"
        PROVE  r' = ChainStep(r, NextState(r, hp), ByteIn(r), finish, SpiTime)
    BY <2>1, ChainGoes, Zenon
  <2> QED
    BY <2>1 DEF SpiNext
<1> QED
  BY <1>1, SpiInductive, PTL DEF SpiSpec, FollowsChain
=============================================================================
