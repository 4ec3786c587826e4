---------------------------- MODULE UdpEchoProofs ----------------------------
(***************************************************************************)
(* Why no echo cuts an ARP reply, for every set of frames in which the     *)
(* packets' lengths differ by no more than 5, and why each packet comes    *)
(* back whole, if they differ by no more than 4 and none is a multiple of  *)
(* 4.  The line is as fast as Ethernet allows.                             *)
(*                                                                         *)
(* Nothing in eth_ctrl keeps an echo from taking the pins: it is the line  *)
(* that is too slow to bring a packet before the reply has left.  So the   *)
(* first invariant is about time: how many clocks the line needs at least  *)
(* until it can bring a packet, or a request (Free), against how many the  *)
(* two transmitters need for what they have begun.                         *)
(*                                                                         *)
(* The second says what is in the buffer at each clock of an echo (Phase): *)
(* the words that udp_tx has still to ask for, and behind them those of    *)
(* the next packet that udp_rx has handed out already.                     *)
(***************************************************************************)
EXTENDS UdpEcho, UdpRxProofs

-----------------------------------------------------------------------------
Requests == {f \in Frames : f.kind = "arp"}

\* The byte on the line when the strobe of packet or request f is up.
Mark(f) == IF f.kind = "arp" THEN 51 ELSE 30 + f.ihl + f.n

\* How soon the next frame can begin, and that no strobe for a frame of this
\* kind is up before q clocks have passed.
ToStart == IF gap = 0 THEN frame.size + 8 - pos + MinGap ELSE MinGap - gap + 1
Free(kind, q) ==
  IF gap = 0 /\ frame.kind = kind /\ pos < Mark(frame) THEN pos + q <= Mark(frame)
  ELSE \A g \in Frames : g.kind = kind => q <= ToStart + Mark(g)

-----------------------------------------------------------------------------
\* What arp_rx reads byte p of frame f as, and its count then.
ArpStateAt(f, p) ==
  IF p = 0 THEN "idle" ELSE IF p <= 7 THEN "preamble"
  ELSE IF f.kind = "mac" /\ p >= 15 THEN "end"
  ELSE IF p <= 21 THEN "eth" ELSE IF f.kind = "arp" /\ p <= 50 THEN "arp" ELSE "end"
ArpCntAt(f, p) ==
  CASE ArpStateAt(f, p) = "preamble" -> p - 1
    [] ArpStateAt(f, p) = "eth" -> p - 8
    [] ArpStateAt(f, p) = "arp" -> p - 22
    [] OTHER -> 0

ArpRxInv ==
  IF gap = 0
    THEN /\ ARP!rx_next = ArpStateAt(frame, pos)
         /\ ARP!rx_next # "end" => arp_cnt = ArpCntAt(frame, pos)
    ELSE /\ ARP!rx_next = "end" => gap = 1 \/ ~arp_skip
         /\ \/ ARP!rx_next = "end"
            \/ ARP!rx_next = "idle" /\ gap > 1 /\ arp_cnt = 0

\* The strobes come at their bytes.
StrobeInv ==
  /\ rec_pkt_done => /\ gap = 0 /\ frame.kind = "udp" /\ pos = Mark(frame)
                     /\ rec_byte_num = frame.n
  /\ arp_rx_done => gap = 0 /\ frame.kind = "arp" /\ pos = Mark(frame)

LineSide == LineInv /\ LenInv /\ GoodInv /\ right # Spoilt /\ ArpRxInv /\ StrobeInv

-----------------------------------------------------------------------------
\* udp_tx at rest, and after clock k of a frame.
TxRests ==
  /\ tx_state = "idle" /\ ~tx_skip /\ ~tx_done_t
  /\ tx_cnt = 0 /\ tx_bit_sel = 0 /\ data_sent = 0 /\ real_add_cnt = 0
TxAt(k) ==
  LET p == PadTo(tx_data_num)
  IN  /\ k \in 0 .. 58 + p /\ tx_data_num \in 1 .. (LenSize - 1)
      /\ tx_state = IF k = 0 THEN "idle" ELSE IF k <= 4 THEN "check_sum"
                    ELSE IF k <= 12 THEN "preamble" ELSE IF k <= 26 THEN "eth_head"
                    ELSE IF k <= 54 THEN "ip_head" ELSE IF k <= 54 + p THEN "tx_data"
                    ELSE "crc"
      /\ tx_skip <=> k \in {0, 4, 12, 26, 54, 54 + p, 58 + p}
      /\ tx_done_t <=> k = 58 + p
      /\ tx_cnt = IF k < 4 THEN k ELSE IF k \in 5 .. 11 THEN k - 4
                  ELSE IF k \in 13 .. 25 THEN k - 12
                  ELSE IF k \in 27 .. 53 THEN (k - 26) \div 4 ELSE 0
      /\ tx_bit_sel \in 0 .. 3
      /\ k \in 27 .. 53 => tx_bit_sel = (k - 26) % 4
      /\ k \in 55 + p .. 57 + p => tx_bit_sel = k - 54 - p
      /\ k <= 26 \/ k \in {54, 54 + p, 58 + p} => tx_bit_sel = 0
      /\ IF k \in 55 .. 53 + p
           THEN /\ data_sent = IF k - 54 < tx_data_num THEN k - 54 ELSE tx_data_num - 1
                /\ real_add_cnt = k - 54 - data_sent
           ELSE data_sent = 0 /\ real_add_cnt = 0

\* tx_done comes in l clocks: a packet has just been announced, its start is
\* on its way, its frame is going out, or tx_done is up.
Echo(l) ==
  \/ /\ rec_pkt_done /\ ~start_en_d0 /\ ~trig_tx_en
     /\ TxRests \/ TxAt(58 + PadTo(tx_data_num))
     /\ l = 62 + PadTo(rec_byte_num)
  \/ /\ ~rec_pkt_done /\ start_en_d0 /\ ~start_en_d1 /\ ~trig_tx_en /\ TxRests
     /\ rec_byte_num \in 1 .. (LenSize - 1) /\ l = 61 + PadTo(rec_byte_num)
  \/ /\ ~rec_pkt_done /\ ~start_en_d0 /\ trig_tx_en /\ TxRests
     /\ tx_data_num \in 1 .. (LenSize - 1) /\ l = 60 + PadTo(tx_data_num)
  \/ /\ ~rec_pkt_done /\ ~start_en_d0 /\ ~trig_tx_en
     /\ \E k \in Nat : TxAt(k) /\ l = 59 + PadTo(tx_data_num) - k
  \/ ~rec_pkt_done /\ ~start_en_d0 /\ ~trig_tx_en /\ TxRests /\ tx_done /\ l = 0
NoEcho == ~rec_pkt_done /\ ~start_en_d0 /\ ~trig_tx_en /\ TxRests /\ ~udp_tx_busy

\* A request waits for the pins.
Waits == arp_rx_flag /\ ~arp_tx_en

\* From request a to packet g.
Apart(a, g) == a.size - 43 + MinGap + Mark(g)

\* A reply takes 75 clocks from the flag on.  Whoever asks during an echo
\* asks so late that the next packet leaves time for the rest of it and for
\* the reply.
EchoInv ==
  \/ /\ NoEcho
     /\ arp_rx_done => Free("udp", 76)
     /\ Waits => Free("udp", 75)
  \/ \E l \in Nat :
       /\ Echo(l) /\ Free("udp", l - 1)
       /\ \A a \in Requests, g \in Packets : Free("arp", l + 76 - Apart(a, g))
       /\ arp_rx_done \/ Waits => Free("udp", l + 76)

-----------------------------------------------------------------------------
\* arp_tx at rest, and after clock k of a frame.
ArpTxRests ==
  atx_state = "idle" /\ ~atx_skip /\ ~atx_done_t /\ atx_cnt = 0 /\ ~arp_gmii_tx_en
ArpTxAt(k) ==
  /\ k \in 0 .. 72
  /\ atx_state = IF k = 0 THEN "idle" ELSE IF k <= 8 THEN "preamble" ELSE IF k <= 22 THEN "eth"
                 ELSE IF k <= 68 THEN "arp" ELSE "crc"
  /\ atx_skip <=> k \in {0, 8, 22, 68, 72}
  /\ atx_done_t <=> k = 72
  /\ atx_cnt = IF k < 8 THEN k ELSE IF k \in 9 .. 21 THEN k - 8
               ELSE IF k \in 23 .. 67 THEN k - 22 ELSE IF k \in 69 .. 71 THEN k - 68 ELSE 0
  /\ arp_gmii_tx_en <=> k >= 1

\* What has reached the pins before a frame's first byte, or with its k-th.
PinsBefore == arpOnPins = IF arp_tx_done THEN 72 ELSE 0

ReplyInv ==
  /\ arp_tx_en => ~protocol_sw /\ (~tx_en_d0 => ~rec_pkt_done /\ Free("udp", 74))
  /\ tx_en_d0 /\ ~tx_en_d1 => ~protocol_sw /\ ~rec_pkt_done /\ Free("udp", 73)
  /\ \/ ArpTxRests /\ PinsBefore
     \/ \E k \in Nat :
          /\ ArpTxAt(k) /\ ~protocol_sw /\ Free("udp", 72 - k) /\ (k <= 71 => ~rec_pkt_done)
          /\ IF k = 0 THEN PinsBefore ELSE ~arp_tx_done /\ arpOnPins = k - 1

WholeInv == LineSide /\ EchoInv /\ ReplyInv

-----------------------------------------------------------------------------
LEMMA PadRange == ASSUME NEW n \in Nat PROVE PadTo(n) \in Nat /\ PadTo(n) >= 18 /\ PadTo(n) >= n
BY DEF PadTo

LEMMA SteadyFrame ==
  ASSUME Steady, NEW f \in Frames
  PROVE  /\ f.kind \in {"udp", "arp", "mac", "type", "ip"}
         /\ f.size \in Nat /\ f.size >= 64 /\ f.ihl \in 20 .. 60 /\ f.n \in 0 .. (LenSize - 1)
         /\ f.bad = 0 /\ Intact(f) /\ Mark(f) \in Nat
         /\ f.kind = "udp" => f.n >= 1 /\ Mark(f) = 50 + f.n /\ f.size >= 46 + PadTo(f.n)
         /\ f.kind = "arp" => Mark(f) = 51
         /\ f.kind \in {"udp", "arp"} => Mark(f) >= 51 /\ Mark(f) <= 7 + f.size
<1>1. /\ f.kind \in {"udp", "arp", "mac", "type", "ip"}
      /\ f.ihl \in 20 .. 60 /\ f.n \in 0 .. (LenSize - 1) /\ f.size \in Nat
  BY FrameType
<1>2. Intact(f) /\ f.size >= 64
  BY DEF Steady
<1>3. f.bad = 0
  BY <1>2 DEF Intact
<1>4. f.kind = "udp" => f.ihl = 20 /\ f.n >= 1 /\ f.size >= 46 + PadTo(f.n)
  BY DEF Steady, Packets
<1>5. PadTo(f.n) \in Nat /\ PadTo(f.n) >= f.n /\ f.n \in Nat
  BY <1>1, PadRange, LenSizeAssumption
<1> QED
  BY <1>1, <1>2, <1>3, <1>4, <1>5 DEF Mark

-----------------------------------------------------------------------------
\* How the line's next packet and request draw nearer.
LEMMA FreeLess ==
  ASSUME NEW k, NEW q \in Int, NEW r \in Int, r <= q, Free(k, q),
         ToStart \in Int, \A g \in Frames : Mark(g) \in Int, pos \in Int, frame \in Frames
  PROVE  Free(k, r)
<1>1. CASE gap = 0 /\ frame.kind = k /\ pos < Mark(frame)
  <2>1. Mark(frame) \in Int /\ pos + q <= Mark(frame)
    BY <1>1 DEF Free
  <2>2. pos + r <= Mark(frame)
    BY <2>1
  <2> QED
    BY <1>1, <2>2 DEF Free
<1>2. CASE ~(gap = 0 /\ frame.kind = k /\ pos < Mark(frame))
  <2>1. ASSUME NEW g \in Frames, g.kind = k PROVE r <= ToStart + Mark(g)
    <3>1. q <= ToStart + Mark(g) /\ Mark(g) \in Int
      BY <1>2, <2>1 DEF Free
    <3> QED
      BY <3>1
  <2> QED
    BY <1>2, <2>1 DEF Free
<1> QED
  BY <1>1, <1>2

LEMMA StartRange ==
  ASSUME Steady, LineInv
  PROVE  /\ ToStart \in Int /\ ToStart >= 0 /\ frame \in Frames /\ pos \in Nat /\ gap \in Nat
         /\ MinGap \in Nat /\ MinGap >= 12 /\ \A g \in Frames : Mark(g) \in Nat
  BY SteadyFrame, GapAssumption DEF LineInv, ToStart, Steady

LEMMA FreeFewer ==
  ASSUME Steady, LineInv, NEW k, NEW q \in Int, NEW r \in Int, r <= q, Free(k, q)
  PROVE  Free(k, r)
<1>1. ToStart \in Int /\ pos \in Int /\ frame \in Frames /\ \A g \in Frames : Mark(g) \in Int
  BY StartRange
<1> QED
  BY <1>1, FreeLess

LEMMA StartNears ==
  ASSUME Steady, LineInv, Line!Pause \/ Line!Byte
  PROVE  /\ ToStart' >= ToStart - 1 /\ ToStart' \in Int /\ ToStart' >= 0
         /\ ToStart \in Int
<1>1. /\ frame \in Frames /\ pos \in Nat /\ gap \in Nat /\ MinGap \in Nat /\ MinGap >= 12
      /\ frame.size \in Nat /\ gap <= MinGap /\ pos <= 7 + frame.size
  BY StartRange, SteadyFrame DEF LineInv
<1>2. CASE Line!Pause
  BY <1>1, <1>2 DEF Line!Pause, ToStart
<1>3. CASE Line!Byte
  <2>1. gap = 0 /\ frame' = frame
    BY <1>3 DEF Line!Byte
  <2>2. CASE pos < 7 + frame.size
    <3>1. pos' = pos + 1 /\ gap' = 0
      BY <1>3, <2>1, <2>2 DEF Line!Byte
    <3> QED
      BY <1>1, <2>1, <2>2, <3>1 DEF ToStart
  <2>3. CASE ~(pos < 7 + frame.size)
    <3>1. pos' = 0 /\ gap' = 1
      BY <1>3, <2>1, <2>3 DEF Line!Byte
    <3> QED
      BY <1>1, <2>1, <2>3, <3>1 DEF ToStart
  <2> QED
    BY <2>2, <2>3
<1> QED
  BY <1>2, <1>3

\* A clock brings the next strobe nearer by a clock at most.
LEMMA FreeStep ==
  ASSUME Steady, LineInv, Line!Next, NEW k \in {"udp", "arp"}, NEW q \in Int, Free(k, q)
  PROVE  Free(k, q - 1)'
<1>1. /\ ToStart \in Int /\ ToStart >= 0 /\ frame \in Frames /\ pos \in Nat /\ gap \in Nat
      /\ MinGap \in Nat /\ \A g \in Frames : Mark(g) \in Nat
  BY StartRange
<1>2. LineInv'
  BY LineStep
<1>3. CASE Line!Pause \/ Line!Byte
  <2>1. /\ ToStart' >= ToStart - 1 /\ ToStart' \in Int /\ ToStart' >= 0 /\ frame' = frame
    BY <1>3, StartNears DEF Line!Pause, Line!Byte
  <2>2. CASE gap = 0 /\ frame.kind = k /\ pos < Mark(frame)
    <3>1. pos + q <= Mark(frame) /\ Mark(frame) \in Nat /\ Mark(frame) <= 7 + frame.size
      BY <2>2, <1>1, SteadyFrame DEF Free
    <3>2. pos' = pos + 1 /\ gap' = 0
      BY <1>3, <2>2, <3>1, <1>1, SteadyFrame DEF Line!Pause, Line!Byte
    <3>3. CASE pos + 1 < Mark(frame)
      <4>1. pos' < Mark(frame') /\ pos' + (q - 1) <= Mark(frame')
        BY <1>1, <2>1, <3>1, <3>2, <3>3
      <4> QED
        BY <2>1, <2>2, <3>2, <4>1 DEF Free
    <3>4. CASE ~(pos + 1 < Mark(frame))
      <4>1. q - 1 <= 0 /\ ~(pos' < Mark(frame'))
        BY <1>1, <2>1, <3>1, <3>2, <3>4
      <4>2. ASSUME NEW g \in Frames PROVE q - 1 <= ToStart' + Mark(g)
        <5>1. Mark(g) \in Nat
          BY <1>1
        <5> QED
          BY <2>1, <4>1, <5>1
      <4> QED
        BY <4>1, <4>2 DEF Free
    <3> QED
      BY <3>3, <3>4
  <2>3. CASE ~(gap = 0 /\ frame.kind = k /\ pos < Mark(frame))
    <3>1. ASSUME NEW g \in Frames, g.kind = k PROVE q - 1 <= ToStart' + Mark(g)
      <4>1. q <= ToStart + Mark(g) /\ Mark(g) \in Nat
        BY <1>1, <2>3, <3>1 DEF Free
      <4> QED
        BY <1>1, <2>1, <4>1
    <3>2. ~(gap' = 0 /\ frame'.kind = k /\ pos' < Mark(frame'))
      <4>1. gap' = 0 => gap = 0 /\ pos' = pos + 1
        BY <1>1, <1>3, GapAssumption DEF Line!Pause, Line!Byte
      <4>2. Mark(frame) \in Nat
        BY <1>1
      <4> QED
        BY <1>1, <2>1, <2>3, <4>1, <4>2
    <3> QED
      BY <3>1, <3>2 DEF Free
  <2> QED
    BY <2>2, <2>3
<1>4. ASSUME NEW f \in Frames, Line!Arrive(f) PROVE Free(k, q - 1)'
  <2>1. gap = MinGap /\ gap # 0 /\ frame' = f /\ pos' = 0 /\ gap' = 0
    BY <1>4, GapAssumption DEF Line!Arrive
  <2>2. ToStart = 1
    BY <1>1, <2>1 DEF ToStart
  <2>3. \A g \in Frames : g.kind = k => q <= 1 + Mark(g)
    BY <2>1, <2>2 DEF Free
  <2>4. CASE f.kind = k
    <3>1. pos' + (q - 1) <= Mark(frame')
      BY <1>1, <2>1, <2>3, <2>4
    <3>2. pos' < Mark(frame')
      BY <2>1, <2>4, SteadyFrame
    <3> QED
      BY <2>1, <2>4, <3>1, <3>2 DEF Free
  <2>5. CASE f.kind # k
    <3>1. ToStart' \in Int /\ ToStart' >= 0
      BY <1>1, <2>1, SteadyFrame DEF ToStart
    <3>2. ASSUME NEW g \in Frames, g.kind = k PROVE q - 1 <= ToStart' + Mark(g)
      <4>1. q <= 1 + Mark(g) /\ Mark(g) \in Nat
        BY <1>1, <2>3, <3>2
      <4> QED
        BY <3>1, <4>1
    <3> QED
      BY <2>1, <2>5, <3>2 DEF Free
  <2> QED
    BY <2>4, <2>5
<1> QED
  BY <1>3, <1>4 DEF Line!Next

\* What Free says right before the strobe, and after it.
LEMMA FreeEnds ==
  ASSUME NEW k, NEW q \in Int, Free(k, q), gap = 0, frame.kind = k, pos \in Int,
         Mark(frame) \in Int, pos = Mark(frame) - 1
  PROVE  q <= 1
  BY DEF Free

-----------------------------------------------------------------------------
\* The receivers follow the line, and their strobes come at their bytes.
LEMMA SteadyReads == Steady => Readable
  BY DEF Steady, Readable, Packets

LEMMA NoneSpoilt ==
  ASSUME Steady, LineSide, Next
  PROVE  right' # Spoilt
<1>1. frame \in Frames /\ Intact(frame) /\ frame.n \in 0 .. (LenSize - 1) /\ LenSize > 18
  BY SteadyFrame DEF LineSide, LineInv, Steady
<1>2. CASE dv /\ pos = 0
  <2>1. right' = 0
    BY <1>1, <1>2, Zenon DEF LineSide, Next, Record
  <2> QED
    BY <2>1, LenSizeAssumption DEF Spoilt
<1>3. CASE ~(dv /\ pos = 0)
  <2>1. right' \in {right, right + 1, Wrong}
    BY <1>1, <1>3, Zenon DEF LineSide, Next, Record
  <2>2. WordCount(frame.n) \in 0 .. (LenSize - 1)
    BY <1>1, LenSizeAssumption DEF WordCount
  <2>3. right \in 0 .. (LenSize - 1)
    <3>1. CASE gap = 0
      <4>1. pos \in Nat /\ pos > 0 /\ right = WordsAt(frame, pos) /\ frame.ihl \in 20 .. 60
        BY <1>1, <1>3, <3>1, SteadyFrame DEF LineSide, LineInv, GoodInv, Reads, dv
      <4> QED
        BY <1>1, <2>2, <4>1, LenSizeAssumption DEF WordsAt
    <3>2. CASE gap # 0
      BY <2>2, <3>2, LenSizeAssumption DEF LineSide, GoodInv, Expected
    <3> QED
      BY <3>1, <3>2
  <2> QED
    BY <2>1, <2>3, LenSizeAssumption DEF Wrong, Spoilt
<1> QED
  BY <1>2, <1>3

\* A packet is announced at its last byte, with its length.
LEMMA PacketStrobe ==
  ASSUME Steady, LineSide, Next, rec_pkt_done'
  PROVE  /\ gap = 0 /\ frame.kind = "udp" /\ pos = Mark(frame) - 1
         /\ rec_byte_num' = frame.n
<1>1. RxData
  BY Zenon DEF Next, Receive, Idle, Preamble, EthHead, IpHead, UdpHead, Wait, Quiet, End, NoData
<1>2. /\ next_state = "data" /\ gap = 0 /\ data_cnt = LastByte
      /\ rec_byte_num' = data_byte_num
  BY <1>1, Zenon DEF RxData, dv, LastByte
<1>3. /\ frame.ihl \in 20 .. 60 /\ frame.n \in 0 .. (LenSize - 1) /\ pos \in Nat
      /\ frame.kind \in {"udp", "arp", "mac", "type", "ip"}
      /\ frame.kind = "udp" => frame.n >= 1 /\ Mark(frame) = 30 + frame.ihl + frame.n
  BY SteadyFrame DEF LineSide, LineInv, Mark
<1>4. /\ StateAt(frame, pos) = "data" /\ data_byte_num = frame.n
      /\ data_cnt = pos - 30 - frame.ihl
  BY <1>2 DEF LineSide, GoodInv, Reads
<1>5. frame.kind = "udp"
  BY <1>3, <1>4 DEF StateAt
<1>6. data_cnt = frame.n - 1
  BY <1>2, <1>3, <1>4, <1>5, LastByteRange DEF LastByte
<1> QED
  BY <1>2, <1>3, <1>4, <1>5, <1>6, LenSizeAssumption

LEMMA PacketLength ==
  ASSUME LenInv, Next
  PROVE  /\ rec_byte_num \in 0 .. (LenSize - 1) /\ rec_pkt_done \in BOOLEAN
         /\ rec_pkt_done' \in BOOLEAN
         /\ ~rec_pkt_done' => rec_byte_num' = rec_byte_num
<1>1. rec_byte_num \in 0 .. (LenSize - 1) /\ rec_pkt_done \in BOOLEAN
  BY DEF LenInv, TypeOK
<1>2. NoData \/ RxData
  BY Zenon DEF Next, Receive, Idle, Preamble, EthHead, IpHead, UdpHead, Wait, Quiet, End
<1>3. rec_pkt_done' \in BOOLEAN /\ (~rec_pkt_done' => rec_byte_num' = rec_byte_num)
  BY <1>2, Zenon DEF NoData, RxData
<1> QED
  BY <1>1, <1>3

\* arp_rx reads each byte as what it is.
LEMMA ArpStrobe ==
  ASSUME Steady, LineSide, ARP!Receive, arp_rx_done'
  PROVE  gap = 0 /\ frame.kind = "arp" /\ pos = Mark(frame) - 1
<1>1. ARP!rx_next = "arp" /\ gap = 0 /\ arp_cnt = 28
  BY Zenon DEF ARP!Receive, ARP!dv
<1>2. ArpStateAt(frame, pos) = "arp" /\ arp_cnt = ArpCntAt(frame, pos) /\ pos \in Nat
  BY <1>1 DEF LineSide, LineInv, ArpRxInv
<1>3. pos = 50 /\ frame.kind = "arp"
  BY <1>1, <1>2 DEF ArpStateAt, ArpCntAt
<1> QED
  BY <1>1, <1>3 DEF Mark

LEMMA ArpByte ==
  ASSUME Steady, LineSide, ARP!Receive, gap = 0
  PROVE  /\ ARP!rx_next' = ArpStateAt(frame, pos + 1)
         /\ ARP!rx_next' # "end" => arp_cnt' = ArpCntAt(frame, pos + 1)
<1>1. /\ ARP!rx_next = ArpStateAt(frame, pos)
      /\ ARP!rx_next # "end" => arp_cnt = ArpCntAt(frame, pos)
      /\ pos \in Nat /\ frame.bad = 0 /\ arp_state' = ARP!rx_next
  BY SteadyFrame DEF LineSide, LineInv, ArpRxInv, ARP!Receive
<1>2. CASE pos = 0
  <2>1. ARP!rx_next = "idle" /\ arp_cnt = 0
    BY <1>1, <1>2 DEF ArpStateAt, ArpCntAt
  <2>2. PICK b \in ARP!Line!gmii_rxd : ARP!Go(ARP!dv /\ b = "55", FALSE, arp_cnt)
    BY <2>1, Zenon DEF ARP!Receive, ARP!RxIdle, ARP!RxPreamble, ARP!RxEth, ARP!RxArp, ARP!RxEnd,
                       ARP!RxWait
  <2>3. b = "55"
    BY <1>1, <1>2 DEF ARP!Line!gmii_rxd
  <2>4. arp_skip' /\ arp_cnt' = 0
    BY <2>1, <2>2, <2>3, Zenon DEF ARP!Go, ARP!dv
  <2>5. ARP!rx_next' = "preamble"
    BY <1>1, <2>1, <2>4 DEF ARP!rx_next
  <2> QED
    BY <1>2, <2>4, <2>5 DEF ArpStateAt, ArpCntAt
<1>3. CASE pos \in 1 .. 7
  <2>1. ARP!rx_next = "preamble" /\ arp_cnt = pos - 1
    BY <1>1, <1>3 DEF ArpStateAt, ArpCntAt
  <2>2. PICK b \in ARP!Line!gmii_rxd :
          IF arp_cnt < 6 THEN ARP!Go(FALSE, b # "55", arp_cnt + 1)
          ELSE IF arp_cnt = 6 THEN ARP!Go(b = "d5", b # "d5", 0)
          ELSE ARP!Go(FALSE, FALSE, arp_cnt + 1)
    BY <2>1, Zenon DEF ARP!Receive, ARP!RxIdle, ARP!RxPreamble, ARP!RxEth, ARP!RxArp, ARP!RxEnd,
                       ARP!RxWait, ARP!dv
  <2>3. b = IF pos = 7 THEN "d5" ELSE "55"
    BY <1>1, <1>3 DEF ARP!Line!gmii_rxd
  <2>4. CASE pos = 7
    <3>3. arp_cnt = 6 /\ ~(arp_cnt < 6) /\ b = "d5"
      BY <2>1, <2>3, <2>4
    <3>1. arp_skip' /\ arp_cnt' = 0
      BY <2>2, <3>3, Zenon DEF ARP!Go
    <3>2. ARP!rx_next' = "eth"
      BY <1>1, <2>1, <3>1 DEF ARP!rx_next
    <3> QED
      BY <2>4, <3>1, <3>2 DEF ArpStateAt, ArpCntAt
  <2>5. CASE pos # 7
    <3>3. arp_cnt < 6 /\ b = "55" /\ arp_cnt + 1 = pos
      BY <1>3, <2>1, <2>3, <2>5
    <3>1. ~arp_skip' /\ ~arp_error' /\ arp_cnt' = pos
      BY <2>2, <3>3, Zenon DEF ARP!Go
    <3>2. ARP!rx_next' = "preamble"
      BY <1>1, <2>1, <3>1 DEF ARP!rx_next
    <3> QED
      BY <1>3, <2>5, <3>1, <3>2 DEF ArpStateAt, ArpCntAt
  <2> QED
    BY <2>4, <2>5
<1>4. CASE ARP!rx_next = "eth"
  <2>1. pos \in 8 .. 21 /\ arp_cnt = pos - 8 /\ (frame.kind = "mac" => pos < 15)
    BY <1>1, <1>4 DEF ArpStateAt, ArpCntAt
  <2>2. IF arp_cnt = 6 THEN ARP!Go(FALSE, frame.kind = "mac", 7)
        ELSE IF arp_cnt = 13 THEN ARP!Go(frame.kind = "arp", frame.kind # "arp", 0)
        ELSE ARP!Go(FALSE, FALSE, arp_cnt + 1)
    BY <1>4, Zenon DEF ARP!Receive, ARP!RxIdle, ARP!RxPreamble, ARP!RxEth, ARP!RxArp, ARP!RxEnd,
                       ARP!RxWait, ARP!dv
  <2>3. /\ arp_skip' <=> (arp_cnt = 13 /\ frame.kind = "arp")
        /\ arp_error' <=> (arp_cnt = 6 /\ frame.kind = "mac") \/ (arp_cnt = 13 /\ frame.kind # "arp")
        /\ arp_cnt' = IF arp_cnt = 13 THEN 0 ELSE arp_cnt + 1
    <3>1. arp_cnt = 13 => arp_cnt # 6
      OBVIOUS
    <3>2. arp_cnt = 6 => arp_cnt + 1 = 7
      OBVIOUS
    <3> QED
      BY <2>2, <3>1, <3>2, Zenon DEF ARP!Go
  <2>4. ARP!rx_next' = IF arp_skip' THEN "arp" ELSE IF arp_error' THEN "end" ELSE "eth"
    BY <1>1, <1>4 DEF ARP!rx_next
  <2>5. CASE arp_cnt = 13
    <3>1. pos = 21 /\ frame.kind # "mac" /\ arp_cnt' = 0
      BY <2>1, <2>3, <2>5
    <3>2. ARP!rx_next' = IF frame.kind = "arp" THEN "arp" ELSE "end"
      BY <2>3, <2>4, <2>5
    <3> QED
      BY <3>1, <3>2 DEF ArpStateAt, ArpCntAt
  <2>6. CASE arp_cnt # 13
    <3>1. arp_cnt' = pos - 7 /\ pos < 21 /\ (arp_cnt = 6 <=> pos = 14)
      BY <2>1, <2>3, <2>6
    <3>2. ARP!rx_next' = IF frame.kind = "mac" /\ pos = 14 THEN "end" ELSE "eth"
      BY <2>3, <2>4, <2>6, <3>1
    <3> QED
      BY <2>1, <3>1, <3>2 DEF ArpStateAt, ArpCntAt
  <2> QED
    BY <2>5, <2>6
<1>5. CASE ARP!rx_next = "arp"
  <2>1. pos \in 22 .. 50 /\ frame.kind = "arp" /\ arp_cnt = pos - 22
    BY <1>1, <1>5 DEF ArpStateAt, ArpCntAt
  <2>2. IF arp_cnt = 28 THEN ARP!Go(TRUE, FALSE, 0) ELSE ARP!Go(FALSE, FALSE, arp_cnt + 1)
    BY <1>5, Zenon DEF ARP!Receive, ARP!RxIdle, ARP!RxPreamble, ARP!RxEth, ARP!RxArp, ARP!RxEnd,
                       ARP!RxWait, ARP!dv
  <2>3. CASE pos = 50
    <3>1. arp_skip' /\ arp_cnt' = 0
      BY <2>1, <2>2, <2>3 DEF ARP!Go
    <3>2. ARP!rx_next' = "end"
      BY <1>1, <1>5, <3>1 DEF ARP!rx_next
    <3> QED
      BY <2>1, <2>3, <3>2 DEF ArpStateAt
  <2>4. CASE pos # 50
    <3>1. ~arp_skip' /\ ~arp_error' /\ arp_cnt' = pos - 21
      BY <2>1, <2>2, <2>4 DEF ARP!Go
    <3>2. ARP!rx_next' = "arp"
      BY <1>1, <1>5, <3>1 DEF ARP!rx_next
    <3> QED
      BY <2>1, <2>4, <3>1, <3>2 DEF ArpStateAt, ArpCntAt
  <2> QED
    BY <2>3, <2>4
<1>6. CASE ARP!rx_next = "end"
  <2>1. ArpStateAt(frame, pos + 1) = "end"
    BY <1>1, <1>6 DEF ArpStateAt
  <2>2. ~arp_skip'
    BY <1>6, Zenon DEF ARP!Receive, ARP!RxIdle, ARP!RxPreamble, ARP!RxEth, ARP!RxArp, ARP!RxEnd,
                       ARP!RxWait, ARP!dv, ARP!Go
  <2>3. ARP!rx_next' = "end"
    BY <1>1, <1>6, <2>2 DEF ARP!rx_next
  <2> QED
    BY <2>1, <2>3
<1> QED
  BY <1>1, <1>2, <1>3, <1>4, <1>5, <1>6 DEF ArpStateAt

LEMMA ArpPause ==
  ASSUME LineSide, ARP!Receive, gap > 0
  PROVE  \/ ARP!rx_next' = "idle" /\ arp_cnt' = 0
         \/ gap = 1 /\ ARP!rx_next' = "end" /\ ~arp_skip'
<1>1. /\ ARP!rx_next = "end" => gap = 1 \/ ~arp_skip
      /\ ARP!rx_next = "end" \/ (ARP!rx_next = "idle" /\ gap > 1 /\ arp_cnt = 0)
      /\ arp_state' = ARP!rx_next /\ gap # 0 /\ ~ARP!dv
  BY DEF LineSide, LineInv, ArpRxInv, ARP!Receive, ARP!dv
<1>2. CASE ARP!rx_next = "end"
  <2>1. ARP!Go(~ARP!dv /\ ~arp_skip, FALSE, 0)
    BY <1>2, Zenon DEF ARP!Receive, ARP!RxIdle, ARP!RxPreamble, ARP!RxEth, ARP!RxArp, ARP!RxEnd,
                       ARP!RxWait
  <2>2. arp_cnt' = 0 /\ ~arp_error' /\ (arp_skip => ~arp_skip') /\ (~arp_skip => arp_skip')
    BY <1>1, <2>1, Zenon DEF ARP!Go
  <2>3. IF arp_skip THEN ARP!rx_next' = "end" ELSE ARP!rx_next' = "idle"
    BY <1>1, <1>2, <2>2 DEF ARP!rx_next
  <2> QED
    BY <1>1, <1>2, <2>2, <2>3
<1>3. CASE ARP!rx_next = "idle"
  <2>1. PICK b \in ARP!Line!gmii_rxd : ARP!Go(ARP!dv /\ b = "55", FALSE, arp_cnt)
    BY <1>3, Zenon DEF ARP!Receive, ARP!RxIdle, ARP!RxPreamble, ARP!RxEth, ARP!RxArp, ARP!RxEnd,
                       ARP!RxWait
  <2>2. arp_cnt' = arp_cnt /\ ~arp_error' /\ ~arp_skip'
    BY <1>1, <2>1, Zenon DEF ARP!Go
  <2>3. ARP!rx_next' = "idle"
    BY <1>1, <1>3, <2>2 DEF ARP!rx_next
  <2> QED
    BY <1>1, <1>3, <2>2, <2>3
<1> QED
  BY <1>1, <1>2, <1>3

LEMMA ArpRxStep ==
  ASSUME Steady, LineSide, Line!Next, ARP!Receive
  PROVE  ArpRxInv'
<1>0. LineInv /\ pos \in Nat /\ gap \in Nat /\ MinGap >= 12 /\ MinGap \in Nat
      /\ frame.size \in Nat /\ frame.size >= 64 /\ pos <= 7 + frame.size
  BY StartRange, SteadyFrame DEF LineSide, LineInv
<1>1. CASE Line!Byte
  <2>1. /\ gap = 0 /\ frame' = frame
        /\ ARP!rx_next' = ArpStateAt(frame, pos + 1)
        /\ ARP!rx_next' # "end" => arp_cnt' = ArpCntAt(frame, pos + 1)
    BY <1>1, ArpByte DEF Line!Byte
  <2>2. CASE pos < 7 + frame.size
    <3>1. pos' = pos + 1 /\ gap' = 0
      BY <1>1, <2>1, <2>2 DEF Line!Byte
    <3> QED
      BY <2>1, <3>1 DEF ArpRxInv, ArpStateAt, ArpCntAt
  <2>3. CASE ~(pos < 7 + frame.size)
    <3>1. gap' = 1
      BY <1>1, <2>1, <2>3 DEF Line!Byte
    <3>2. ArpStateAt(frame, pos + 1) = "end"
      BY <1>0, <2>3 DEF ArpStateAt
    <3> QED
      BY <2>1, <3>1, <3>2 DEF ArpRxInv
  <2> QED
    BY <2>2, <2>3
<1>2. CASE Line!Pause
  <2>1. gap > 0 /\ gap' > 1 /\ gap' # 0
    BY <1>0, <1>2 DEF Line!Pause
  <2>2. \/ ARP!rx_next' = "idle" /\ arp_cnt' = 0
        \/ gap = 1 /\ ARP!rx_next' = "end" /\ ~arp_skip'
    BY <2>1, ArpPause
  <2> QED
    BY <2>1, <2>2 DEF ArpRxInv
<1>3. ASSUME NEW f \in Frames, Line!Arrive(f) PROVE ArpRxInv'
  <2>1. gap > 1 /\ gap' = 0 /\ pos' = 0
    BY <1>0, <1>3 DEF Line!Arrive
  <2>2. ARP!rx_next' = "idle" /\ arp_cnt' = 0
    BY <1>0, <2>1, ArpPause
  <2> QED
    BY <2>1, <2>2 DEF ArpRxInv, ArpStateAt, ArpCntAt
<1> QED
  BY <1>1, <1>2, <1>3 DEF Line!Next

\* A byte that is not the frame's last leads to the next.
LEMMA ByteMoves ==
  ASSUME Steady, LineInv, Line!Next, gap = 0, frame.kind \in {"udp", "arp"},
         pos = Mark(frame) - 1
  PROVE  frame' = frame /\ gap' = 0 /\ pos' = Mark(frame)
<1>1. frame \in Frames /\ pos \in Nat /\ Mark(frame) \in Nat /\ Mark(frame) <= 7 + frame.size
  BY SteadyFrame DEF LineInv
<1>2. Line!Byte
  BY GapAssumption DEF Line!Next, Line!Pause, Line!Arrive
<1> QED
  BY <1>1, <1>2, SteadyFrame DEF Line!Byte

LEMMA LineSideInit == Steady /\ EchoInit => LineSide
<1> SUFFICES ASSUME Steady, EchoInit PROVE LineSide
  OBVIOUS
<1>1. Init /\ ARP!Init
  BY DEF EchoInit
<1>2. /\ frame \in Frames /\ Intact(frame) /\ right = Expected(frame) /\ gap = MinGap
      /\ ~rec_pkt_done /\ ~arp_rx_done /\ arp_state = "idle" /\ ~arp_skip /\ ~arp_error
      /\ arp_cnt = 0
  BY <1>1, Zenon DEF Init, RxInit, Line!Init, ARP!Init
<1>3. right # Spoilt
  BY <1>2, SteadyFrame, LenSizeAssumption DEF Expected, WordCount, Spoilt
<1>4. ARP!rx_next = "idle"
  BY <1>2 DEF ARP!rx_next
<1> QED
  BY <1>1, <1>2, <1>3, <1>4, LineInit, LenInit, GoodInit, GapAssumption
     DEF LineSide, ArpRxInv, StrobeInv, Steady

LEMMA LineSideStep ==
  ASSUME Steady, LineSide, Next, ARP!Receive
  PROVE  LineSide'
<1>1. LineInv' /\ LenInv' /\ GoodInv'
  BY SteadyReads, LenNext, GoodStep DEF LineSide
<1>2. right' # Spoilt
  BY NoneSpoilt
<1>3. ArpRxInv'
  BY ArpRxStep DEF Next
<1>4. Mark(frame)' = Mark(frame')
  BY DEF Mark
<1>5. StrobeInv'
  <2>1. CASE rec_pkt_done'
    <3>1. /\ gap = 0 /\ frame.kind = "udp" /\ pos = Mark(frame) - 1
          /\ rec_byte_num' = frame.n
      BY <2>1, PacketStrobe
    <3>2. frame' = frame /\ gap' = 0 /\ pos' = Mark(frame)
      BY <3>1, ByteMoves DEF LineSide, Next
    <3>3. ~arp_rx_done'
      BY <3>1, ArpStrobe
    <3> QED
      BY <3>1, <3>2, <3>3 DEF StrobeInv, Mark
  <2>2. CASE arp_rx_done'
    <3>1. gap = 0 /\ frame.kind = "arp" /\ pos = Mark(frame) - 1
      BY <2>2, ArpStrobe
    <3>2. frame' = frame /\ gap' = 0 /\ pos' = Mark(frame)
      BY <3>1, ByteMoves DEF LineSide, Next
    <3>3. ~rec_pkt_done'
      BY <3>1, PacketStrobe
    <3> QED
      BY <3>1, <3>2, <3>3 DEF StrobeInv, Mark
  <2> QED
    BY <2>1, <2>2 DEF StrobeInv
<1> QED
  BY <1>1, <1>2, <1>3, <1>5 DEF LineSide

-----------------------------------------------------------------------------
\* udp_tx: clock by clock through a frame.
TxTakes == Tx!Transmit(rec_pkt_done, rec_byte_num, tx_data)

LEMMA TxShared ==
  ASSUME TxTakes
  PROVE  /\ start_en_d0' = rec_pkt_done /\ start_en_d1' = start_en_d0
         /\ trig_tx_en' = (start_en_d0 /\ ~start_en_d1)
         /\ ~start_en_d0 => tx_data_num' = tx_data_num
         /\ start_en_d0 /\ ~start_en_d1 /\ tx_state = "idle" => tx_data_num' = rec_byte_num
         /\ tx_state' = Tx!tx_next /\ tx_done' = tx_done_t
  BY Zenon DEF TxTakes, Tx!Transmit, Tx!Start, Tx!pos_start_en

\* The clock's work, by the state it is done in.
LEMMA TxChoice ==
  ASSUME TxTakes
  PROVE  /\ Tx!tx_next = "idle" => Tx!Idle
         /\ Tx!tx_next = "check_sum" => Tx!Stretch(4)
         /\ Tx!tx_next = "preamble" => Tx!Stretch(8)
         /\ Tx!tx_next = "eth_head" => Tx!Stretch(14)
         /\ Tx!tx_next = "ip_head" => Tx!IpHead
         /\ Tx!tx_next = "tx_data" => Tx!TxData
         /\ Tx!tx_next = "crc" => Tx!Crc
  BY Zenon DEF TxTakes, Tx!Transmit, Tx!Idle, Tx!CheckSum, Tx!Preamble, Tx!EthHead, Tx!IpHead,
               Tx!TxData, Tx!Crc

LEMMA TxTypes ==
  ASSUME NEW k \in Nat, TxAt(k), Steady
  PROVE  /\ tx_data_num \in 1 .. (LenSize - 1) /\ tx_data_num \in Nat
         /\ PadTo(tx_data_num) \in 18 .. (LenSize - 1) /\ PadTo(tx_data_num) >= tx_data_num
         /\ k <= 58 + PadTo(tx_data_num)
  BY LenSizeAssumption DEF TxAt, PadTo, Steady

\* The stretches before the IP header, whose clocks tx_cnt counts.
LEMMA TxEarly ==
  ASSUME Steady, TxTakes, ~start_en_d0, NEW k \in 0 .. 25, TxAt(k)
  PROVE  TxAt(k + 1)'
<1> DEFINE p == PadTo(tx_data_num)
<1>1. p \in 18 .. (LenSize - 1) /\ tx_data_num \in 1 .. (LenSize - 1) /\ LenSize \in Nat
  BY TxTypes, LenSizeAssumption
<1>2. tx_data_num' = tx_data_num /\ tx_state' = Tx!tx_next
  BY TxShared
<1>3. /\ Tx!tx_next = IF k < 4 THEN "check_sum" ELSE IF k < 12 THEN "preamble" ELSE "eth_head"
      /\ tx_cnt = IF k < 4 THEN k ELSE IF k < 12 THEN k - 4 ELSE k - 12
      /\ tx_bit_sel = 0 /\ data_sent = 0 /\ real_add_cnt = 0
  <2>1. /\ tx_state = IF k = 0 THEN "idle" ELSE IF k <= 4 THEN "check_sum"
                      ELSE IF k <= 12 THEN "preamble" ELSE "eth_head"
        /\ tx_skip <=> k \in {0, 4, 12}
    BY <1>1 DEF TxAt
  <2>2. /\ tx_cnt = IF k < 4 THEN k ELSE IF k < 12 THEN k - 4 ELSE k - 12
        /\ tx_bit_sel = 0 /\ data_sent = 0 /\ real_add_cnt = 0
    BY <1>1 DEF TxAt
  <2> QED
    BY <2>1, <2>2 DEF Tx!tx_next
<1>4. PICK m \in {4, 8, 14} :
        Tx!Stretch(m) /\ m = IF k < 4 THEN 4 ELSE IF k < 12 THEN 8 ELSE 14
  BY <1>3, TxChoice
<1>5. /\ tx_skip' = (tx_cnt = m - 1) /\ tx_cnt' = (IF tx_cnt = m - 1 THEN 0 ELSE tx_cnt + 1)
      /\ tx_done_t' = FALSE /\ tx_bit_sel' = tx_bit_sel
      /\ data_sent' = data_sent /\ real_add_cnt' = real_add_cnt
  BY <1>4, Zenon DEF Tx!Stretch, Tx!KeepData
<1>6. tx_cnt = m - 1 <=> k + 1 \in {4, 12, 26}
  BY <1>3, <1>4
<1>7. tx_skip' <=> k + 1 \in {4, 12, 26}
  BY <1>5, <1>6, Zenon
<1>8. tx_cnt' = IF k + 1 \in {4, 12, 26} THEN 0 ELSE tx_cnt + 1
  BY <1>5, <1>6
<1> QED
  BY <1>1, <1>2, <1>3, <1>5, <1>7, <1>8 DEF TxAt

LEMMA TxIpHead ==
  ASSUME Steady, TxTakes, ~start_en_d0, NEW k \in 26 .. 53, TxAt(k)
  PROVE  TxAt(k + 1)'
<1> DEFINE p == PadTo(tx_data_num)
<1>1. p \in 18 .. (LenSize - 1) /\ tx_data_num \in 1 .. (LenSize - 1) /\ LenSize \in Nat
  BY TxTypes, LenSizeAssumption
<1>2. tx_data_num' = tx_data_num /\ tx_state' = Tx!tx_next
  BY TxShared
<1>3. /\ Tx!tx_next = "ip_head" /\ data_sent = 0 /\ real_add_cnt = 0
      /\ tx_bit_sel = (k - 26) % 4 /\ tx_cnt = (k - 26) \div 4
  <2>1. tx_state = (IF k <= 26 THEN "eth_head" ELSE "ip_head") /\ (tx_skip <=> k = 26)
    BY <1>1 DEF TxAt
  <2>2. data_sent = 0 /\ real_add_cnt = 0
    BY <1>1 DEF TxAt
  <2>3. k # 26 => tx_bit_sel = (k - 26) % 4 /\ tx_cnt = (k - 26) \div 4
    BY <1>1 DEF TxAt
  <2>4. k = 26 => tx_bit_sel = 0 /\ tx_cnt = 0
    BY <1>1 DEF TxAt
  <2> QED
    BY <2>1, <2>2, <2>3, <2>4 DEF Tx!tx_next
<1>4. /\ tx_bit_sel' = (tx_bit_sel + 1) % 4
      /\ tx_cnt' = (IF tx_bit_sel # 3 THEN tx_cnt ELSE IF tx_cnt = 6 THEN 0 ELSE tx_cnt + 1)
      /\ tx_skip' = (tx_bit_sel = 3 /\ tx_cnt = 6)
      /\ tx_done_t' = FALSE /\ data_sent' = data_sent /\ real_add_cnt' = real_add_cnt
  <2>1. Tx!IpHead
    BY <1>3, TxChoice
  <2> QED
    BY <2>1, Zenon DEF Tx!IpHead, Tx!KeepData
<1>5. tx_bit_sel = 3 /\ tx_cnt = 6 <=> k = 53
  BY <1>3
<1>6. tx_skip' <=> k = 53
  BY <1>4, <1>5, Zenon
<1>7. tx_bit_sel' = (k + 1 - 26) % 4 /\ tx_bit_sel' \in 0 .. 3 /\ (k = 53 => tx_bit_sel' = 0)
  BY <1>3, <1>4
<1>8. tx_cnt' = IF k = 53 THEN 0 ELSE (k + 1 - 26) \div 4
  BY <1>3, <1>4
<1> QED
  BY <1>1, <1>2, <1>3, <1>4, <1>6, <1>7, <1>8 DEF TxAt

LEMMA TxPayload ==
  ASSUME Steady, TxTakes, ~start_en_d0, NEW k \in Nat, TxAt(k),
         k >= 54, k < 54 + PadTo(tx_data_num)
  PROVE  TxAt(k + 1)'
<1> DEFINE p == PadTo(tx_data_num)
<1> DEFINE n == tx_data_num
<1> DEFINE j == k - 54
<1>1. p \in 18 .. (LenSize - 1) /\ n \in 1 .. (LenSize - 1) /\ LenSize \in Nat /\ n <= p
      /\ j \in 0 .. p - 1
  BY TxTypes, LenSizeAssumption
<1>2. tx_data_num' = tx_data_num /\ tx_state' = Tx!tx_next
  BY TxShared
<1>3. Tx!tx_next = "tx_data" /\ tx_bit_sel \in 0 .. 3 /\ tx_cnt = 0
      /\ data_sent = (IF j < n THEN j ELSE n - 1) /\ real_add_cnt = j - data_sent
  <2>1. tx_state = (IF k <= 54 THEN "ip_head" ELSE "tx_data") /\ (tx_skip <=> k = 54)
    BY <1>1 DEF TxAt
  <2>2. tx_bit_sel \in 0 .. 3 /\ tx_cnt = 0
    BY <1>1 DEF TxAt
  <2>3. data_sent = (IF j < n THEN j ELSE n - 1) /\ real_add_cnt = j - data_sent
    <3>1. CASE k = 54
      BY <1>1, <3>1 DEF TxAt
    <3>2. CASE k # 54
      <4>1. k \in 55 .. 53 + p
        BY <1>1, <3>2
      <4> QED
        BY <4>1 DEF TxAt
    <3> QED
      BY <3>1, <3>2
  <2> QED
    BY <2>1, <2>2, <2>3 DEF Tx!tx_next
<1>4. Tx!LastSent = n - 1 /\ (Tx!Padded - 1) % LenSize = p - 1
  <2>1. Tx!Padded = p
    BY DEF Tx!Padded, Tx!MIN_DATA_NUM, PadTo
  <2> QED
    BY <1>1, <2>1, Z3 DEF Tx!LastSent
<1>5. Tx!Ends <=> k = 53 + p
  BY <1>1, <1>3, <1>4 DEF Tx!Ends
<1>6. /\ data_sent' = (IF data_sent < Tx!LastSent THEN data_sent + 1
                       ELSE IF Tx!Ends THEN 0 ELSE data_sent)
      /\ real_add_cnt' = (IF data_sent # Tx!LastSent THEN real_add_cnt
                          ELSE IF Tx!Ends THEN 0 ELSE real_add_cnt + 1)
      /\ tx_bit_sel' = (IF Tx!Ends THEN 0 ELSE (tx_bit_sel + 1) % 4)
      /\ tx_skip' = Tx!Ends /\ tx_done_t' = FALSE /\ tx_cnt' = tx_cnt
  BY <1>3, TxChoice, Zenon DEF Tx!TxData
<1>7. tx_skip' <=> k = 53 + p
  BY <1>5, <1>6, Zenon
<1>8. tx_bit_sel' \in 0 .. 3 /\ (k = 53 + p => tx_bit_sel' = 0)
  BY <1>3, <1>5, <1>6
<1>9. CASE k = 53 + p
  <2>1. data_sent' = 0 /\ real_add_cnt' = 0
    BY <1>1, <1>3, <1>4, <1>5, <1>6, <1>9
  <2> QED
    BY <1>1, <1>2, <1>3, <1>6, <1>7, <1>8, <1>9, <2>1 DEF TxAt
<1>10. CASE k # 53 + p
  <2>1. /\ data_sent' = IF j + 1 < n THEN j + 1 ELSE n - 1
        /\ real_add_cnt' = j + 1 - data_sent'
    BY <1>1, <1>3, <1>4, <1>5, <1>6, <1>10
  <2>2. k + 1 \in 55 .. 53 + p
    BY <1>1, <1>10
  <2> QED
    BY <1>1, <1>2, <1>3, <1>6, <1>7, <1>8, <1>10, <2>1, <2>2 DEF TxAt
<1> QED
  BY <1>9, <1>10

LEMMA TxCrc ==
  ASSUME Steady, TxTakes, ~start_en_d0, NEW k \in Nat, TxAt(k),
         k >= 54 + PadTo(tx_data_num), k < 58 + PadTo(tx_data_num)
  PROVE  TxAt(k + 1)'
<1> DEFINE p == PadTo(tx_data_num)
<1>1. p \in 18 .. (LenSize - 1) /\ tx_data_num \in 1 .. (LenSize - 1) /\ LenSize \in Nat
  BY TxTypes, LenSizeAssumption
<1>2. tx_data_num' = tx_data_num /\ tx_state' = Tx!tx_next
  BY TxShared
<1>3. /\ Tx!tx_next = "crc" /\ tx_bit_sel = k - 54 - p
      /\ tx_cnt = 0 /\ data_sent = 0 /\ real_add_cnt = 0
  <2>1. tx_state = (IF k <= 54 + p THEN "tx_data" ELSE "crc") /\ (tx_skip <=> k = 54 + p)
    BY <1>1 DEF TxAt
  <2>2. tx_bit_sel = k - 54 - p /\ tx_cnt = 0 /\ data_sent = 0 /\ real_add_cnt = 0
    BY <1>1 DEF TxAt
  <2> QED
    BY <1>1, <2>1, <2>2 DEF Tx!tx_next
<1>4. /\ tx_bit_sel' = (tx_bit_sel + 1) % 4
      /\ tx_skip' = (tx_bit_sel = 3) /\ tx_done_t' = (tx_bit_sel = 3)
      /\ tx_cnt' = tx_cnt /\ data_sent' = data_sent /\ real_add_cnt' = real_add_cnt
  BY <1>3, TxChoice, Zenon DEF Tx!Crc, Tx!KeepData
<1>5. tx_bit_sel = 3 <=> k = 57 + p
  BY <1>1, <1>3
<1>6. (tx_skip' <=> k = 57 + p) /\ (tx_done_t' <=> k = 57 + p)
  BY <1>4, <1>5, Zenon
<1>7. tx_bit_sel' = IF k = 57 + p THEN 0 ELSE k + 1 - 54 - p
  BY <1>1, <1>3, <1>4
<1> QED
  BY <1>1, <1>2, <1>3, <1>4, <1>6, <1>7 DEF TxAt

LEMMA TxForward ==
  ASSUME Steady, TxTakes, ~start_en_d0, NEW k \in Nat, TxAt(k), k < 58 + PadTo(tx_data_num)
  PROVE  TxAt(k + 1)' /\ tx_data_num' = tx_data_num
<1>1. PadTo(tx_data_num) \in Nat /\ PadTo(tx_data_num) >= 18
  BY TxTypes
<1>2. CASE k <= 25
  BY <1>2, TxEarly, TxShared
<1>3. CASE k \in 26 .. 53
  BY <1>3, TxIpHead, TxShared
<1>4. CASE k >= 54 /\ k < 54 + PadTo(tx_data_num)
  BY <1>4, TxPayload, TxShared
<1>5. CASE k >= 54 + PadTo(tx_data_num)
  BY <1>5, TxCrc, TxShared
<1> QED
  BY <1>1, <1>2, <1>3, <1>4, <1>5

\* The last clock leaves udp_tx at rest and raises tx_done; at rest it waits
\* for the start.
LEMMA TxEnds ==
  ASSUME Steady, TxTakes, ~trig_tx_en, NEW k \in Nat, TxAt(k), k = 58 + PadTo(tx_data_num)
  PROVE  TxRests' /\ tx_done'
<1>1. PadTo(tx_data_num) \in Nat /\ PadTo(tx_data_num) >= 18
  BY TxTypes
<1>2. /\ tx_state = "crc" /\ tx_skip /\ tx_done_t
      /\ tx_cnt = 0 /\ tx_bit_sel = 0 /\ data_sent = 0 /\ real_add_cnt = 0
  BY <1>1 DEF TxAt
<1>3. Tx!tx_next = "idle"
  BY <1>2 DEF Tx!tx_next
<1>4. Tx!Idle
  BY <1>3, TxChoice
<1>5. /\ ~tx_skip' /\ ~tx_done_t' /\ tx_cnt' = tx_cnt /\ tx_bit_sel' = tx_bit_sel
      /\ data_sent' = data_sent /\ real_add_cnt' = real_add_cnt
  BY <1>4, Zenon DEF Tx!Idle, Tx!KeepData
<1>6. tx_state' = "idle" /\ tx_done'
  BY <1>2, <1>3, TxShared, Zenon
<1> QED
  BY <1>2, <1>5, <1>6 DEF TxRests

LEMMA TxWaits ==
  ASSUME TxTakes, TxRests
  PROVE  /\ ~tx_done'
         /\ ~trig_tx_en => TxRests'
         /\ /\ Steady /\ trig_tx_en /\ ~start_en_d0 /\ tx_data_num \in 1 .. (LenSize - 1)
            => TxAt(0)' /\ tx_data_num' = tx_data_num
<1>1. /\ Tx!tx_next = "idle" /\ ~tx_done_t
      /\ tx_cnt = 0 /\ tx_bit_sel = 0 /\ data_sent = 0 /\ real_add_cnt = 0
  <2>1. /\ tx_state = "idle" /\ ~tx_skip /\ ~tx_done_t
        /\ tx_cnt = 0 /\ tx_bit_sel = 0 /\ data_sent = 0 /\ real_add_cnt = 0
    BY Zenon DEF TxRests
  <2>2. Tx!tx_next = "idle"
    BY <2>1 DEF Tx!tx_next
  <2> QED
    BY <2>1, <2>2, Zenon
<1>2. Tx!Idle
  BY <1>1, TxChoice
<1>3. /\ (tx_skip' <=> trig_tx_en) /\ ~tx_done_t' /\ tx_cnt' = tx_cnt
      /\ tx_bit_sel' = tx_bit_sel /\ data_sent' = data_sent /\ real_add_cnt' = real_add_cnt
  BY <1>2, Zenon DEF Tx!Idle, Tx!KeepData
<1>4. tx_state' = "idle" /\ ~tx_done'
  <2>1. tx_state' = "idle"
    BY <1>1, TxShared
  <2>2. ~tx_done_t /\ tx_done' = tx_done_t
    BY <1>1, TxShared, Zenon
  <2> QED
    BY <2>1, <2>2, Zenon
<1>5. ~trig_tx_en => TxRests'
  BY <1>1, <1>3, <1>4 DEF TxRests
<1>6. ASSUME Steady, trig_tx_en, ~start_en_d0, tx_data_num \in 1 .. (LenSize - 1)
      PROVE  TxAt(0)' /\ tx_data_num' = tx_data_num
  <2>1. tx_data_num' = tx_data_num
    BY <1>6, TxShared
  <2>2. PadTo(tx_data_num) \in Nat /\ PadTo(tx_data_num) >= 18
    BY <1>6, PadRange, LenSizeAssumption
  <2> QED
    BY <1>1, <1>3, <1>4, <1>6, <2>1, <2>2 DEF TxAt
<1> QED
  BY <1>4, <1>5, <1>6

-----------------------------------------------------------------------------
\* arp_tx: clock by clock through a frame.
ArpTakes == ARP!Transmit(arp_tx_en)

LEMMA ArpShared ==
  ASSUME ArpTakes
  PROVE  /\ tx_en_d0' = arp_tx_en /\ tx_en_d1' = tx_en_d0
         /\ atx_state' = ARP!tx_next /\ arp_tx_done' = atx_done_t
         /\ arp_gmii_tx_en' <=> ARP!tx_next # "idle"
         /\ ARP!tx_next = "idle" => /\ atx_skip' <=> (tx_en_d0 /\ ~tx_en_d1)
                                    /\ ~atx_done_t' /\ atx_cnt' = atx_cnt
         /\ ARP!tx_next # "idle" =>
              LET last == atx_cnt = ARP!Clocks[ARP!tx_next] - 1
              IN  /\ atx_skip' <=> last
                  /\ atx_cnt' = IF last THEN 0 ELSE atx_cnt + 1
                  /\ atx_done_t' <=> last /\ ARP!tx_next = "crc"
  BY Zenon DEF ArpTakes, ARP!Transmit, ARP!TxIdle, ARP!TxPart

LEMMA ArpForward ==
  ASSUME ArpTakes, NEW k \in 0 .. 71, ArpTxAt(k)
  PROVE  ArpTxAt(k + 1)' /\ ~arp_tx_done'
<1>1. /\ ARP!tx_next = IF k < 8 THEN "preamble" ELSE IF k < 22 THEN "eth"
                       ELSE IF k < 68 THEN "arp" ELSE "crc"
      /\ atx_cnt = IF k < 8 THEN k ELSE IF k < 22 THEN k - 8 ELSE IF k < 68 THEN k - 22 ELSE k - 68
      /\ ~atx_done_t
  BY DEF ArpTxAt, ARP!tx_next
<1>2. ARP!Clocks[ARP!tx_next] = IF k < 8 THEN 8 ELSE IF k < 22 THEN 14 ELSE IF k < 68 THEN 46 ELSE 4
  BY <1>1 DEF ARP!Clocks
<1>3. ARP!tx_next # "idle"
  BY <1>1
<1>4. atx_cnt = ARP!Clocks[ARP!tx_next] - 1 <=> k + 1 \in {8, 22, 68, 72}
  BY <1>1, <1>2
<1>5. /\ atx_skip' <=> k + 1 \in {8, 22, 68, 72}
      /\ atx_done_t' <=> k + 1 \in {8, 22, 68, 72} /\ ARP!tx_next = "crc"
      /\ atx_cnt' = IF k + 1 \in {8, 22, 68, 72} THEN 0 ELSE atx_cnt + 1
      /\ atx_state' = ARP!tx_next /\ arp_gmii_tx_en'
  BY <1>3, <1>4, ArpShared, Zenon
<1>6. atx_done_t' <=> k + 1 = 72
  BY <1>1, <1>5
<1>7. ~arp_tx_done'
  BY <1>1, ArpShared, Zenon
<1> QED
  BY <1>1, <1>5, <1>6, <1>7 DEF ArpTxAt

\* At rest, or with the frame's last clock, a rising tx_en_d0 starts a frame.
LEMMA ArpWaits ==
  ASSUME ArpTakes, ArpTxRests \/ ArpTxAt(72)
  PROVE  /\ arp_tx_done' <=> ArpTxAt(72)
         /\ ~(tx_en_d0 /\ ~tx_en_d1) => ArpTxRests'
         /\ tx_en_d0 /\ ~tx_en_d1 => ArpTxAt(0)'
<1>1. /\ ARP!tx_next = "idle" /\ atx_cnt = 0 /\ (atx_done_t <=> ArpTxAt(72))
  <2>1. CASE ArpTxRests
    <3>1. atx_state = "idle" /\ ~atx_skip /\ ~atx_done_t /\ atx_cnt = 0
      BY <2>1, Zenon DEF ArpTxRests
    <3>2. ~ArpTxAt(72)
      BY <3>1 DEF ArpTxAt
    <3>3. ARP!tx_next = "idle"
      BY <3>1 DEF ARP!tx_next
    <3> QED
      BY <3>1, <3>2, <3>3, Zenon
  <2>2. CASE ArpTxAt(72)
    <3>1. atx_state = "crc" /\ atx_skip /\ atx_done_t /\ atx_cnt = 0
      BY <2>2 DEF ArpTxAt
    <3>2. ARP!tx_next = "idle"
      BY <3>1 DEF ARP!tx_next
    <3> QED
      BY <2>2, <3>1, <3>2, Zenon
  <2> QED
    BY <2>1, <2>2
<1>2. /\ atx_skip' <=> (tx_en_d0 /\ ~tx_en_d1)
      /\ ~atx_done_t' /\ atx_cnt' = 0 /\ atx_state' = "idle" /\ ~arp_gmii_tx_en'
      /\ arp_tx_done' <=> ArpTxAt(72)
  <2>1. /\ atx_skip' <=> (tx_en_d0 /\ ~tx_en_d1)
        /\ ~atx_done_t' /\ atx_cnt' = atx_cnt
    BY <1>1, ArpShared
  <2>2. atx_state' = ARP!tx_next /\ (arp_gmii_tx_en' <=> ARP!tx_next # "idle")
    BY ArpShared
  <2>3. arp_tx_done' = atx_done_t
    BY ArpShared
  <2>4. arp_tx_done' <=> ArpTxAt(72)
    BY <1>1, <2>3, Zenon
  <2> QED
    BY <1>1, <2>1, <2>2, <2>4
<1> QED
  BY <1>2 DEF ArpTxAt, ArpTxRests

-----------------------------------------------------------------------------
\* Time: what Free promises when a strobe comes, and after it.
LEMMA PacketEnds ==
  ASSUME Steady, LineSide, Next, rec_pkt_done', NEW q \in Int, Free("udp", q)
  PROVE  q <= 1
<1>1. gap = 0 /\ frame.kind = "udp" /\ pos = Mark(frame) - 1
  BY PacketStrobe
<1>2. Mark(frame) \in Int /\ pos \in Int
  BY SteadyFrame DEF LineSide, LineInv
<1> QED
  BY <1>1, <1>2, FreeEnds

LEMMA RequestEnds ==
  ASSUME Steady, LineSide, ARP!Receive, arp_rx_done', NEW q \in Int, Free("arp", q)
  PROVE  q <= 1
<1>1. gap = 0 /\ frame.kind = "arp" /\ pos = Mark(frame) - 1
  BY ArpStrobe
<1>2. Mark(frame) \in Int /\ pos \in Int
  BY SteadyFrame DEF LineSide, LineInv
<1> QED
  BY <1>1, <1>2, FreeEnds

LEMMA FreePast ==
  ASSUME NEW k, NEW q \in Int, frame' = frame, gap' = 0, pos' = Mark(frame), Mark(frame) \in Int,
         \A g \in Frames : g.kind = k => q <= frame.size + 8 - Mark(frame) + MinGap + Mark(g)
  PROVE  Free(k, q)'
<1>1. ~(pos' < Mark(frame'))
  BY Z3
<1>2. ToStart' = frame.size + 8 - Mark(frame) + MinGap
  BY DEF ToStart
<1> QED
  BY <1>1, <1>2 DEF Free

LEMMA FreeNext ==
  ASSUME Steady, LineSide, Next, NEW k \in {"udp", "arp"},
         NEW q \in Int, NEW r \in Int, r <= q - 1, Free(k, q)
  PROVE  Free(k, r)'
<1>1. LineInv /\ Line!Next /\ r + 1 <= q /\ r + 1 \in Int /\ (r + 1) - 1 = r
  BY DEF LineSide, Next
<1>2. Free(k, r + 1)
  BY <1>1, FreeFewer
<1>3. Free(k, (r + 1) - 1)'
  BY <1>1, <1>2, FreeStep
<1> QED
  BY <1>1, <1>3

LEMMA ApartRange ==
  ASSUME Steady, NEW a \in Requests, NEW g \in Packets
  PROVE  Apart(a, g) \in Int /\ Apart(a, g) >= 76
<1>1. a \in Frames /\ g \in Frames /\ g.kind = "udp"
  BY DEF Requests, Packets
<1>2. /\ a.size \in Nat /\ a.size >= 64 /\ Mark(g) \in Nat /\ Mark(g) >= 51
      /\ MinGap \in Nat /\ MinGap >= 12
  BY <1>1, SteadyFrame, GapAssumption DEF Steady
<1> QED
  BY <1>2 DEF Apart

\* What a packet leaves until the next packet, and until the next request.
LEMMA AfterPacket ==
  ASSUME Steady, LineSide, Next, rec_pkt_done', NEW n, n = frame.n,
         NEW l \in Nat, l = 62 + PadTo(n)
  PROVE  /\ rec_byte_num' = n /\ n \in 1 .. (LenSize - 1)
         /\ Free("udp", l - 1)'
         /\ \A a \in Requests, g \in Packets :
              Free("arp", l + 76 - Apart(a, g))'
<1>1. /\ gap = 0 /\ frame.kind = "udp" /\ pos = Mark(frame) - 1 /\ rec_byte_num' = frame.n
  BY PacketStrobe
<1>2. frame \in Frames /\ MinGap \in Nat /\ MinGap >= 12
  BY GapAssumption DEF LineSide, LineInv, Steady
<1>3. /\ n \in 1 .. (LenSize - 1) /\ Mark(frame) = 50 + n /\ Mark(frame) \in Int
      /\ frame.size \in Nat /\ frame.size >= 46 + PadTo(n)
      /\ PadTo(n) \in Nat /\ l = 62 + PadTo(n) /\ frame \in Packets /\ n \in Nat
  BY <1>1, <1>2, SteadyFrame, PadRange, LenSizeAssumption DEF Packets
<1>4. frame' = frame /\ gap' = 0 /\ pos' = Mark(frame)
  BY <1>1, ByteMoves DEF LineSide, Next
<1>5. ASSUME NEW g \in Packets PROVE g.n \in Nat /\ Mark(g) = 50 + g.n /\ n <= g.n + 5
  <2>1. g \in Frames /\ g.kind = "udp"
    BY DEF Packets
  <2>2. n <= g.n + 5
    BY <1>3 DEF Steady
  <2> QED
    BY <2>1, <2>2, SteadyFrame, LenSizeAssumption
<1>6. Free("udp", l - 1)'
  <2>1. ASSUME NEW g \in Frames, g.kind = "udp"
        PROVE  l - 1 <= frame.size + 8 - Mark(frame) + MinGap + Mark(g)
    <3>1. g.n \in Nat /\ Mark(g) = 50 + g.n /\ n <= g.n + 5
      BY <1>5, <2>1 DEF Packets
    <3> QED
      BY <1>2, <1>3, <3>1
  <2>2. l - 1 \in Int
    BY <1>3
  <2> QED
    BY <1>3, <1>4, <2>1, <2>2, FreePast
<1>7. ASSUME NEW a \in Requests, NEW g \in Packets
      PROVE  Free("arp", l + 76 - Apart(a, g))'
  <2>1. /\ a \in Frames /\ a.size \in Nat /\ a.size >= 64
        /\ g.n \in Nat /\ Mark(g) = 50 + g.n /\ n <= g.n + 5
    BY <1>5, SteadyFrame DEF Requests
  <2>2. Apart(a, g) = a.size + 7 + MinGap + g.n
    BY <1>2, <2>1 DEF Apart
  <2>3. ASSUME NEW h \in Frames, h.kind = "arp"
        PROVE  l + 76 - Apart(a, g)
                 <= frame.size + 8 - Mark(frame) + MinGap + Mark(h)
    <3>1. Mark(h) = 51
      BY <2>3 DEF Mark
    <3> QED
      BY <1>2, <1>3, <2>1, <2>2, <3>1
  <2>4. l + 76 - Apart(a, g) \in Int
    BY <1>2, <1>3, <2>1, <2>2
  <2> QED
    BY <1>3, <1>4, <2>3, <2>4, FreePast
<1> QED
  BY <1>1, <1>3, <1>6, <1>7

\* What a request leaves until the next packet.
LEMMA AfterRequest ==
  ASSUME Steady, LineSide, Next, ARP!Receive, arp_rx_done', NEW q \in Int,
         \A a \in Requests, g \in Packets : q <= Apart(a, g)
  PROVE  Free("udp", q)'
<1>1. gap = 0 /\ frame.kind = "arp" /\ pos = Mark(frame) - 1
  BY ArpStrobe
<1>2. frame \in Frames /\ frame \in Requests /\ MinGap \in Nat
  BY <1>1, GapAssumption DEF LineSide, LineInv, Requests
<1>3. Mark(frame) = 51 /\ frame.size \in Nat
  BY <1>1, <1>2, SteadyFrame
<1>4. frame' = frame /\ gap' = 0 /\ pos' = Mark(frame)
  BY <1>1, ByteMoves DEF LineSide, Next
<1>5. ASSUME NEW g \in Frames, g.kind = "udp"
      PROVE  q <= frame.size + 8 - Mark(frame) + MinGap + Mark(g)
  <2>1. q <= Apart(frame, g) /\ Mark(g) \in Nat
    BY <1>2, <1>5, SteadyFrame DEF Packets
  <2> QED
    BY <1>2, <1>3, <2>1 DEF Apart
<1> QED
  BY <1>3, <1>4, <1>5, FreePast

-----------------------------------------------------------------------------
\* The echo's clocks.
LEMMA EchoRuns ==
  ASSUME Steady, LineSide, Next, TxTakes, NEW l \in Nat, l >= 1, Echo(l), ~rec_pkt_done'
  PROVE  Echo(l - 1)'
<1>0. /\ rec_byte_num' = rec_byte_num /\ LenSize \in Nat
      /\ start_en_d0' = rec_pkt_done /\ start_en_d1' = start_en_d0
      /\ trig_tx_en' = (start_en_d0 /\ ~start_en_d1)
      /\ ~start_en_d0 => tx_data_num' = tx_data_num
  BY PacketLength, TxShared, LenSizeAssumption DEF LineSide
<1>1. CASE /\ rec_pkt_done /\ ~start_en_d0 /\ ~trig_tx_en
           /\ TxRests \/ TxAt(58 + PadTo(tx_data_num))
           /\ l = 62 + PadTo(rec_byte_num)
  <2>1. TxRests'
    <3>1. CASE TxRests
      BY <1>1, <3>1, TxWaits
    <3>2. CASE TxAt(58 + PadTo(tx_data_num))
      <4>1. 58 + PadTo(tx_data_num) \in Nat
        BY <3>2, LenSizeAssumption DEF TxAt, PadTo
      <4> QED
        BY <1>1, <3>2, <4>1, TxEnds
    <3> QED
      BY <1>1, <3>1, <3>2
  <2>2. start_en_d0' /\ ~start_en_d1' /\ ~trig_tx_en'
    BY <1>0, <1>1, Zenon
  <2>3. rec_byte_num \in 1 .. (LenSize - 1) /\ PadTo(rec_byte_num) \in Nat
    <3>1. rec_byte_num = frame.n /\ frame.kind = "udp" /\ frame \in Frames
      BY <1>1 DEF LineSide, LineInv, StrobeInv
    <3> QED
      BY <3>1, SteadyFrame, PadRange, LenSizeAssumption
  <2>4. rec_byte_num' \in 1 .. (LenSize - 1) /\ l - 1 = 61 + PadTo(rec_byte_num')
    BY <1>0, <1>1, <2>3
  <2> QED
    BY <2>1, <2>2, <2>4 DEF Echo
<1>2. CASE /\ ~rec_pkt_done /\ start_en_d0 /\ ~start_en_d1 /\ ~trig_tx_en /\ TxRests
           /\ rec_byte_num \in 1 .. (LenSize - 1) /\ l = 61 + PadTo(rec_byte_num)
  <2>1. TxRests'
    BY <1>2, TxWaits
  <2>2. ~start_en_d0' /\ trig_tx_en'
    BY <1>0, <1>2, Zenon
  <2>3. tx_data_num' = rec_byte_num
    BY <1>2, TxShared DEF TxRests
  <2>4. PadTo(rec_byte_num) \in Nat
    BY <1>0, <1>2, PadRange
  <2>5. tx_data_num' \in 1 .. (LenSize - 1) /\ l - 1 = 60 + PadTo(tx_data_num')
    BY <1>2, <2>3, <2>4
  <2> QED
    BY <2>1, <2>2, <2>5 DEF Echo
<1>3. CASE /\ ~rec_pkt_done /\ ~start_en_d0 /\ trig_tx_en /\ TxRests
           /\ tx_data_num \in 1 .. (LenSize - 1) /\ l = 60 + PadTo(tx_data_num)
  <2>1. TxAt(0)' /\ tx_data_num' = tx_data_num
    BY <1>3, TxWaits
  <2>2. ~start_en_d0' /\ ~trig_tx_en'
    BY <1>0, <1>3, Zenon
  <2>3. PadTo(tx_data_num) \in Nat
    BY <1>0, <1>3, PadRange
  <2>4. l - 1 = 59 + PadTo(tx_data_num') - 0
    BY <1>3, <2>1, <2>3
  <2> QED
    BY <2>1, <2>2, <2>4 DEF Echo
<1>4. ASSUME ~rec_pkt_done, ~start_en_d0, ~trig_tx_en,
             NEW k \in Nat, TxAt(k), l = 59 + PadTo(tx_data_num) - k
      PROVE  Echo(l - 1)'
  <2>1. PadTo(tx_data_num) \in Nat /\ k <= 58 + PadTo(tx_data_num)
    BY <1>4, TxTypes
  <2>2. ~start_en_d0' /\ ~trig_tx_en'
    BY <1>0, <1>4, Zenon
  <2>3. CASE k < 58 + PadTo(tx_data_num)
    <3>1. TxAt(k + 1)' /\ tx_data_num' = tx_data_num
      BY <1>4, <2>3, TxForward
    <3>2. k + 1 \in Nat /\ l - 1 = 59 + PadTo(tx_data_num') - (k + 1)
      BY <1>4, <2>1, <3>1
    <3> QED
      BY <2>2, <3>1, <3>2 DEF Echo
  <2>4. CASE k = 58 + PadTo(tx_data_num)
    <3>1. TxRests' /\ tx_done'
      BY <1>4, <2>4, TxEnds
    <3>2. l - 1 = 0
      BY <1>4, <2>1, <2>4
    <3> QED
      BY <2>2, <3>1, <3>2 DEF Echo
  <2> QED
    BY <2>1, <2>3, <2>4
<1> QED
  BY <1>1, <1>2, <1>3, <1>4 DEF Echo

\* A packet announced at rest, or in the last clocks of an echo, starts one.
LEMMA EchoStarts ==
  ASSUME Steady, LineSide, Next, TxTakes, rec_pkt_done',
         NoEcho \/ \E l \in 0 .. 2 : Echo(l),
         NEW m \in Nat, m = 62 + PadTo(rec_byte_num')
  PROVE  Echo(m)'
<1>1. /\ ~rec_pkt_done /\ ~start_en_d0 /\ ~trig_tx_en
      /\ TxRests \/ \E k \in Nat : TxAt(k) /\ k >= 57 + PadTo(tx_data_num)
  <2>1. CASE NoEcho
    BY <2>1, Zenon DEF NoEcho
  <2>2. ASSUME NEW l \in 0 .. 2, Echo(l)
        PROVE  /\ ~rec_pkt_done /\ ~start_en_d0 /\ ~trig_tx_en
               /\ TxRests \/ \E k \in Nat : TxAt(k) /\ k >= 57 + PadTo(tx_data_num)
    <3>1. rec_byte_num \in Nat /\ PadTo(rec_byte_num) \in Nat
      BY PadRange, LenSizeAssumption DEF LineSide, LenInv, TypeOK
    <3>2. tx_data_num \in 1 .. (LenSize - 1) => PadTo(tx_data_num) \in Nat
      BY PadRange, LenSizeAssumption
    <3>3. \/ /\ ~rec_pkt_done /\ ~start_en_d0 /\ ~trig_tx_en
             /\ \E k \in Nat : TxAt(k) /\ l = 59 + PadTo(tx_data_num) - k
          \/ ~rec_pkt_done /\ ~start_en_d0 /\ ~trig_tx_en /\ TxRests
      BY <2>2, <3>1, <3>2, SMTT(30) DEF Echo
    <3>4. ASSUME NEW k \in Nat, TxAt(k), l = 59 + PadTo(tx_data_num) - k
          PROVE  k >= 57 + PadTo(tx_data_num)
      BY <3>4, TxTypes
    <3> QED
      BY <3>3, <3>4, Zenon
  <2> QED
    BY <2>1, <2>2
<1>2. ~start_en_d0' /\ ~trig_tx_en'
  <2>1. start_en_d0' = rec_pkt_done /\ trig_tx_en' = (start_en_d0 /\ ~start_en_d1)
    BY TxShared
  <2>2. ~rec_pkt_done /\ ~start_en_d0
    BY <1>1
  <2> QED
    BY <2>1, <2>2, Zenon
<1>3. TxRests' \/ TxAt(58 + PadTo(tx_data_num))'
  <2>1. CASE TxRests
    BY <1>1, <2>1, TxWaits
  <2>2. ASSUME NEW k \in Nat, TxAt(k), k >= 57 + PadTo(tx_data_num)
        PROVE  TxRests' \/ TxAt(58 + PadTo(tx_data_num))'
    <3>1. PadTo(tx_data_num) \in Nat /\ k <= 58 + PadTo(tx_data_num)
      BY <2>2, TxTypes
    <3>2. CASE k = 58 + PadTo(tx_data_num)
      BY <1>1, <2>2, <3>2, TxEnds
    <3>3. CASE k = 57 + PadTo(tx_data_num)
      <4>1. TxAt(k + 1)' /\ tx_data_num' = tx_data_num
        BY <1>1, <2>2, <3>1, <3>3, TxForward
      <4>2. k + 1 = 58 + PadTo(tx_data_num')
        BY <3>1, <3>3, <4>1
      <4> QED
        BY <4>1, <4>2
    <3> QED
      BY <2>2, <3>1, <3>2, <3>3
  <2> QED
    BY <1>1, <2>1, <2>2
<1> QED
  BY <1>2, <1>3, Zenon DEF Echo

-----------------------------------------------------------------------------
\* A request that waits in the next clock waits now or has just come, and
\* the pins were not free for it.
LEMMA WaitsFrom ==
  ASSUME EthCtrl, ReplyInv, Waits'
  PROVE  /\ arp_rx_done \/ Waits
         /\ ~arp_rx_done => rec_pkt_done \/ udp_tx_busy
<1>1. /\ arp_rx_flag' = IF arp_rx_done THEN TRUE ELSE arp_rx_flag /\ protocol_sw
      /\ ~rec_pkt_done /\ arp_rx_flag /\ ~udp_tx_busy => arp_tx_en'
      /\ arp_rx_flag' /\ ~arp_tx_en'
      /\ arp_tx_en => ~protocol_sw
  BY Zenon DEF EthCtrl, ReplyInv, Waits
<1>2. ~arp_rx_done => arp_rx_flag /\ protocol_sw
  BY <1>1, Zenon
<1> QED
  BY <1>1, <1>2, Zenon DEF Waits

LEMMA BusyFrom ==
  ASSUME EthCtrl, ~rec_pkt_done
  PROVE  tx_done \/ ~udp_tx_busy => ~udp_tx_busy'
BY Zenon DEF EthCtrl

\* Without an echo: none comes, or the packet that has come starts one.
LEMMA RestStep ==
  ASSUME Steady, LineSide, Next, ARP!Receive, TxTakes, EthCtrl, ReplyInv, ~rec_pkt_done',
         ~rec_pkt_done, ~start_en_d0, ~trig_tx_en, TxRests, tx_done \/ ~udp_tx_busy,
         arp_rx_done => Free("udp", 76),
         Waits => ~udp_tx_busy \/ Free("udp", 76)
  PROVE  EchoInv'
<1>1. NoEcho'
  <2>1. TxRests'
    BY TxWaits
  <2>2. start_en_d0' = rec_pkt_done /\ trig_tx_en' = (start_en_d0 /\ ~start_en_d1)
    BY TxShared
  <2>3. ~start_en_d0' /\ ~trig_tx_en'
    BY <2>2, Zenon
  <2>4. ~udp_tx_busy'
    BY BusyFrom
  <2> QED
    BY <2>1, <2>3, <2>4, Zenon DEF NoEcho
<1>2. arp_rx_done' => Free("udp", 76)'
  BY ApartRange, AfterRequest
<1>3. Waits' => Free("udp", 75)'
  <2>1. Waits' => Free("udp", 76)
    BY WaitsFrom, Zenon
  <2> QED
    BY <2>1, FreeNext
<1> QED
  BY <1>1, <1>2, <1>3, Zenon DEF EchoInv

\* During an echo: it goes on, and whoever asks now leaves time for the rest.
LEMMA BusyStep ==
  ASSUME Steady, LineSide, Next, ARP!Receive, TxTakes, EthCtrl, ReplyInv, ~rec_pkt_done',
         NEW l \in Nat, l >= 1, Echo(l), Free("udp", l - 1),
         \A a \in Requests, g \in Packets : Free("arp", l + 76 - Apart(a, g)),
         arp_rx_done \/ Waits => Free("udp", l + 76)
  PROVE  EchoInv'
<1>1. Echo(l - 1)' /\ l - 1 \in Nat
  BY EchoRuns
<1>2. Free("udp", (l - 1) - 1)'
  BY FreeNext
<1>3. ASSUME NEW a \in Requests, NEW g \in Packets
      PROVE  Free("arp", (l - 1) + 76 - Apart(a, g))'
  <2>1. Apart(a, g) \in Int
    BY ApartRange
  <2>2. /\ l + 76 - Apart(a, g) \in Int /\ (l - 1) + 76 - Apart(a, g) \in Int
        /\ (l - 1) + 76 - Apart(a, g) <= (l + 76 - Apart(a, g)) - 1
    BY <2>1
  <2> QED
    BY <2>2, FreeNext
<1>4. arp_rx_done' => Free("udp", (l - 1) + 76)'
  <2> SUFFICES ASSUME arp_rx_done' PROVE Free("udp", (l - 1) + 76)'
    OBVIOUS
  <2>1. ASSUME NEW a \in Requests, NEW g \in Packets PROVE (l - 1) + 76 <= Apart(a, g)
    <3>1. Apart(a, g) \in Int /\ l + 76 - Apart(a, g) \in Int
      BY ApartRange
    <3>2. l + 76 - Apart(a, g) <= 1
      BY <3>1, RequestEnds
    <3> QED
      BY <3>1, <3>2
  <2> QED
    BY <2>1, AfterRequest
<1>5. Waits' => Free("udp", (l - 1) + 76)'
  <2>1. Waits' => Free("udp", l + 76)
    BY WaitsFrom, Zenon
  <2> QED
    BY <2>1, FreeNext
<1> QED
  BY <1>1, <1>2, <1>3, <1>4, <1>5, Zenon DEF EchoInv

\* A packet is announced: nobody waits for the pins, and it is echoed.
LEMMA PacketStep ==
  ASSUME Steady, LineSide, Next, ARP!Receive, TxTakes, EthCtrl, ReplyInv, EchoInv, rec_pkt_done'
  PROVE  EchoInv'
<1>1. /\ NoEcho \/ \E l \in 0 .. 2 : Echo(l)
      /\ ~arp_rx_done /\ (Waits => ~rec_pkt_done /\ ~udp_tx_busy)
  <2>1. CASE /\ NoEcho /\ (arp_rx_done => Free("udp", 76)) /\ (Waits => Free("udp", 75))
    <3>1. ~arp_rx_done /\ ~Waits
      BY <2>1, PacketEnds
    <3> QED
      BY <2>1, <3>1
  <2>2. ASSUME NEW l \in Nat, Echo(l), Free("udp", l - 1), arp_rx_done \/ Waits => Free("udp", l + 76)
        PROVE  l \in 0 .. 2 /\ ~arp_rx_done /\ ~Waits
    <3>1. l - 1 <= 1
      BY <2>2, PacketEnds
    <3>2. ~Free("udp", l + 76)
      BY <2>2, PacketEnds
    <3> QED
      BY <2>2, <3>1, <3>2
  <2> QED
    BY <2>1, <2>2, Zenon DEF EchoInv
<1>2. ~Waits'
  BY <1>1, WaitsFrom, Zenon
<1>3. ~arp_rx_done'
  <2>1. frame.kind = "udp"
    BY PacketStrobe
  <2>2. arp_rx_done' => frame.kind = "arp"
    BY ArpStrobe
  <2> QED
    BY <2>1, <2>2
<1>4. PICK n : n = frame.n
  OBVIOUS
<1>5. n \in Nat
  BY <1>4, SteadyFrame, LenSizeAssumption DEF LineSide, LineInv
<1>6. PICK l \in Nat : l = 62 + PadTo(n)
  BY <1>5, PadRange
<1>7. /\ rec_byte_num' = n
      /\ Free("udp", l - 1)'
      /\ \A a \in Requests, g \in Packets : Free("arp", l + 76 - Apart(a, g))'
  BY <1>4, <1>6, AfterPacket
<1>8. Echo(l)'
  <2>1. l = 62 + PadTo(rec_byte_num')
    BY <1>6, <1>7
  <2>2. NoEcho \/ \E k \in 0 .. 2 : Echo(k)
    BY <1>1
  <2> QED
    BY <2>1, <2>2, EchoStarts
<1> QED
  BY <1>2, <1>3, <1>7, <1>8, Zenon DEF EchoInv

LEMMA EchoStep ==
  ASSUME Steady, LineSide, Next, ARP!Receive, TxTakes, EthCtrl, ReplyInv, EchoInv
  PROVE  EchoInv'
<1>1. CASE rec_pkt_done'
  BY <1>1, PacketStep
<1>2. CASE ~rec_pkt_done'
  <2>1. CASE /\ NoEcho
             /\ arp_rx_done => Free("udp", 76)
             /\ Waits => Free("udp", 75)
    <3>1. /\ ~rec_pkt_done /\ ~start_en_d0 /\ ~trig_tx_en /\ TxRests
          /\ tx_done \/ ~udp_tx_busy
          /\ Waits => ~udp_tx_busy \/ Free("udp", 76)
      BY <2>1, Zenon DEF NoEcho
    <3> QED
      BY <1>2, <2>1, <3>1, RestStep
  <2>2. ASSUME NEW l \in Nat, Echo(l), Free("udp", l - 1),
               \A a \in Requests, g \in Packets : Free("arp", l + 76 - Apart(a, g)),
               arp_rx_done \/ Waits => Free("udp", l + 76)
        PROVE  EchoInv'
    <3>1. CASE l >= 1
      BY <1>2, <2>2, <3>1, BusyStep
    <3>2. CASE l = 0
      <4>1. ~rec_pkt_done /\ ~start_en_d0 /\ ~trig_tx_en /\ TxRests /\ tx_done
        <5>1. rec_byte_num \in Nat /\ PadTo(rec_byte_num) \in Nat
          BY PadRange, LenSizeAssumption DEF LineSide, LenInv, TypeOK
        <5>2. tx_data_num \in 1 .. (LenSize - 1) => PadTo(tx_data_num) \in Nat
          BY PadRange, LenSizeAssumption
        <5>3. ASSUME NEW k \in Nat, TxAt(k) PROVE 0 # 59 + PadTo(tx_data_num) - k
          BY <5>3, TxTypes
        <5>4. /\ 0 # 62 + PadTo(rec_byte_num) /\ 0 # 61 + PadTo(rec_byte_num)
              /\ tx_data_num \in 1 .. (LenSize - 1) => 0 # 60 + PadTo(tx_data_num)
          BY <5>1, <5>2
        <5> QED
          BY <2>2, <3>2, <5>3, <5>4, Zenon DEF Echo
      <4>2. arp_rx_done \/ Waits => Free("udp", 76)
        BY <2>2, <3>2
      <4> QED
        BY <1>2, <4>1, <4>2, RestStep
    <3> QED
      BY <2>2, <3>1, <3>2
  <2> QED
    BY <2>1, <2>2, Zenon DEF EchoInv
<1> QED
  BY <1>1, <1>2

-----------------------------------------------------------------------------
\* A request that gets the pins has them for as long as a reply takes.
LEMMA Granted ==
  ASSUME Steady, LineSide, Next, EchoInv, EthCtrl, arp_tx_en', ~arp_tx_en
  PROVE  ~rec_pkt_done' /\ Free("udp", 74)'
<1>1. Waits /\ ~rec_pkt_done /\ ~udp_tx_busy
  BY Zenon DEF EthCtrl, Waits
<1>2. Free("udp", 75)
  <2>1. CASE Waits => Free("udp", 75)
    BY <1>1, <2>1
  <2>2. ASSUME NEW l \in Nat, Free("udp", l + 76) PROVE Free("udp", 75)
    <3>1. l + 76 \in Int /\ 75 <= l + 76
      OBVIOUS
    <3> QED
      BY <2>2, <3>1, FreeFewer DEF LineSide
  <2> QED
    BY <1>1, <2>1, <2>2, Zenon DEF EchoInv
<1>3. ~rec_pkt_done'
  BY <1>2, PacketEnds
<1> QED
  BY <1>2, <1>3, FreeNext

LEMMA PinsHeld ==
  ASSUME EthCtrl, ~protocol_sw, ~rec_pkt_done
  PROVE  ~protocol_sw'
BY Zenon DEF EthCtrl

\* The bytes that reach the pins are counted.
LEMMA PinsCount ==
  ASSUME EchoRecord
  PROVE  arpOnPins' = IF arp_tx_done THEN 0
                      ELSE IF ~protocol_sw /\ arp_gmii_tx_en THEN arpOnPins + 1 ELSE arpOnPins
BY Zenon DEF EchoRecord, arpPin

LEMMA ReplyStep ==
  ASSUME Steady, LineSide, Next, EchoInv, ReplyInv, ArpTakes, EthCtrl, EchoRecord
  PROVE  ReplyInv'
<1>1. tx_en_d0' = arp_tx_en /\ tx_en_d1' = tx_en_d0
  BY ArpShared
<1>2. arp_tx_en' => ~protocol_sw' /\ (~tx_en_d0' => ~rec_pkt_done' /\ Free("udp", 74)')
  <2>1. arp_tx_en' => ~protocol_sw'
    BY Zenon DEF EthCtrl
  <2>2. ASSUME arp_tx_en', ~tx_en_d0' PROVE ~rec_pkt_done' /\ Free("udp", 74)'
    <3>1. ~arp_tx_en
      BY <1>1, <2>2, Zenon
    <3> QED
      BY <2>2, <3>1, Granted
  <2> QED
    BY <2>1, <2>2
<1>3. tx_en_d0' /\ ~tx_en_d1' => ~protocol_sw' /\ ~rec_pkt_done' /\ Free("udp", 73)'
  <2> SUFFICES ASSUME tx_en_d0', ~tx_en_d1'
               PROVE  ~protocol_sw' /\ ~rec_pkt_done' /\ Free("udp", 73)'
    OBVIOUS
  <2>1. arp_tx_en /\ ~tx_en_d0
    BY <1>1, Zenon
  <2>2. ~protocol_sw /\ ~rec_pkt_done /\ Free("udp", 74)
    BY <2>1, Zenon DEF ReplyInv
  <2> QED
    BY <2>2, PinsHeld, PacketEnds, FreeNext
<1> DEFINE starts == tx_en_d0 /\ ~tx_en_d1
<1>4. ASSUME starts PROVE ~protocol_sw' /\ ~rec_pkt_done' /\ Free("udp", 72)'
  <2>1. ~protocol_sw /\ ~rec_pkt_done /\ Free("udp", 73)
    BY <1>4, Zenon DEF ReplyInv
  <2> QED
    BY <2>1, PinsHeld, PacketEnds, FreeNext
\* The reply is out, or none was under way.
<1>5. ASSUME ArpTxRests \/ ArpTxAt(72), arp_tx_done' <=> ArpTxAt(72), PinsBefore'
      PROVE  \/ ArpTxRests' /\ PinsBefore'
             \/ ArpTxAt(0)' /\ ~protocol_sw' /\ Free("udp", 72)' /\ ~rec_pkt_done' /\ PinsBefore'
  BY <1>4, <1>5, ArpWaits
<1>6. CASE ArpTxRests /\ PinsBefore
  <2>1. ~arp_gmii_tx_en /\ arpOnPins = (IF arp_tx_done THEN 72 ELSE 0) /\ ~ArpTxAt(72)
    BY <1>6 DEF ArpTxRests, PinsBefore, ArpTxAt
  <2>2. arpOnPins' = 0 /\ ~arp_tx_done' /\ (arp_tx_done' <=> ArpTxAt(72))
    BY <1>6, <2>1, PinsCount, ArpWaits
  <2>3. PinsBefore'
    BY <2>2 DEF PinsBefore
  <2>4. \/ ArpTxRests' /\ PinsBefore'
        \/ ArpTxAt(0)' /\ ~protocol_sw' /\ Free("udp", 72)' /\ ~rec_pkt_done' /\ PinsBefore'
    BY <1>5, <1>6, <2>2, <2>3
  <2>5. 72 - 0 = 72 /\ 0 \in Nat
    OBVIOUS
  <2> QED
    BY <1>2, <1>3, <2>4, <2>5, ZenonT(60) DEF ReplyInv
<1>7. ASSUME NEW k \in Nat, ArpTxAt(k), ~protocol_sw, Free("udp", 72 - k),
             k <= 71 => ~rec_pkt_done,
             IF k = 0 THEN PinsBefore ELSE ~arp_tx_done /\ arpOnPins = k - 1
      PROVE  ReplyInv'
  <2>1. k \in 0 .. 72 /\ (arp_gmii_tx_en <=> k >= 1)
    BY <1>7 DEF ArpTxAt
  <2>2. arpOnPins' = k
    BY <1>7, <2>1, PinsCount DEF PinsBefore
  <2>3. CASE k = 72
    <3>1. arp_tx_done' /\ (arp_tx_done' <=> ArpTxAt(72))
      BY <1>7, <2>3, ArpWaits
    <3>2. PinsBefore'
      BY <2>2, <2>3, <3>1 DEF PinsBefore
    <3>3. \/ ArpTxRests' /\ PinsBefore'
          \/ ArpTxAt(0)' /\ ~protocol_sw' /\ Free("udp", 72)' /\ ~rec_pkt_done' /\ PinsBefore'
      BY <1>5, <1>7, <2>3, <3>1, <3>2
    <3>4. 72 - 0 = 72 /\ 0 \in Nat
      OBVIOUS
    <3> QED
      BY <1>2, <1>3, <3>3, <3>4, ZenonT(60) DEF ReplyInv
  <2>4. CASE k # 72
    <3>1. k \in 0 .. 71 /\ k <= 71
      BY <2>1, <2>4
    <3>2. ArpTxAt(k + 1)' /\ ~arp_tx_done'
      BY <1>7, <3>1, ArpForward
    <3>3. ~protocol_sw'
      BY <1>7, <3>1, PinsHeld
    <3>4. Free("udp", 72 - (k + 1))'
      BY <1>7, <3>1, FreeNext
    <3>5. k + 1 <= 71 => ~rec_pkt_done'
      <4>1. rec_pkt_done' => 72 - k <= 1
        BY <1>7, PacketEnds
      <4> QED
        BY <4>1
    <3>6. k + 1 \in Nat /\ k + 1 # 0 /\ arpOnPins' = (k + 1) - 1
      BY <2>2
    <3> QED
      BY <1>2, <1>3, <3>2, <3>3, <3>4, <3>5, <3>6, ZenonT(60) DEF ReplyInv
  <2> QED
    BY <2>3, <2>4
<1> QED
  BY <1>6, <1>7, Zenon DEF ReplyInv

-----------------------------------------------------------------------------
LEMMA WholeInit == Steady /\ EchoInit => WholeInv
<1> SUFFICES ASSUME Steady, EchoInit PROVE WholeInv
  OBVIOUS
<1>1. /\ ~rec_pkt_done /\ ~arp_rx_done /\ ~start_en_d0 /\ ~trig_tx_en /\ ~udp_tx_busy
      /\ ~arp_rx_flag /\ ~arp_tx_en /\ ~tx_en_d0 /\ ~arp_tx_done /\ arpOnPins = 0
  BY Zenon DEF EchoInit, Init, RxInit, Tx!TxInit, ARP!Init
<1>2. TxRests
  BY Zenon DEF EchoInit, Tx!TxInit, TxRests
<1>3. ArpTxRests
  BY Zenon DEF EchoInit, ARP!Init, ArpTxRests
<1>4. EchoInv
  BY <1>1, <1>2, Zenon DEF EchoInv, NoEcho, Waits
<1>5. PinsBefore
  BY <1>1 DEF PinsBefore
<1>6. ReplyInv
  BY <1>1, <1>3, <1>5, Zenon DEF ReplyInv
<1> QED
  BY <1>4, <1>6, LineSideInit DEF WholeInv

LEMMA WholeStep == Steady /\ WholeInv /\ [EchoNext]_echo_vars => WholeInv'
<1> SUFFICES ASSUME Steady, WholeInv, [EchoNext]_echo_vars PROVE WholeInv'
  OBVIOUS
<1>1. CASE EchoNext
  <2>1. Next /\ ARP!Receive /\ TxTakes /\ ArpTakes /\ EthCtrl /\ EchoRecord
    BY <1>1 DEF EchoNext, TxTakes, ArpTakes
  <2>2. LineSide /\ EchoInv /\ ReplyInv
    BY DEF WholeInv
  <2> QED
    BY <2>1, <2>2, LineSideStep, EchoStep, ReplyStep DEF WholeInv
<1>2. CASE UNCHANGED echo_vars
  <2>1. /\ UNCHANGED vars /\ UNCHANGED Tx!tx /\ UNCHANGED ARP!arp_rx /\ UNCHANGED ARP!arp_tx
        /\ UNCHANGED ctrl /\ UNCHANGED history
    BY <1>2 DEF echo_vars
  <2>2. UNCHANGED line /\ UNCHANGED rx /\ right' = right /\ words' = words
    BY <2>1 DEF vars
  <2>3. LineSide'
    BY <2>1, <2>2 DEF WholeInv, LineSide, line, rx, ARP!arp_rx, LineInv, LenInv, TypeOK, LastByte,
       GoodInv, Reads, next_state, ArpRxInv, ARP!rx_next, StrobeInv
  <2>4. ToStart' = ToStart
    BY <2>2 DEF line, ToStart
  <2>5. \A k, q : Free(k, q)' <=> Free(k, q)
    BY <2>2, <2>4 DEF line, Free
  <2>6. /\ tx_state' = tx_state /\ tx_skip' = tx_skip /\ tx_done_t' = tx_done_t
         /\ tx_cnt' = tx_cnt /\ tx_bit_sel' = tx_bit_sel /\ data_sent' = data_sent
         /\ real_add_cnt' = real_add_cnt /\ tx_data_num' = tx_data_num
    BY <2>1 DEF Tx!tx
  <2>7. TxRests' <=> TxRests
    BY <2>6, Zenon DEF TxRests
  <2>8. ASSUME NEW k PROVE TxAt(k)' <=> TxAt(k)
    BY <2>6, ZenonT(60) DEF TxAt
  <2>9. TxAt(58 + PadTo(tx_data_num))' <=> TxAt(58 + PadTo(tx_data_num))
    BY <2>6, ZenonT(60) DEF TxAt
  <2>10. ASSUME NEW l PROVE Echo(l)' <=> Echo(l)
    <3>1. /\ rec_pkt_done' = rec_pkt_done /\ rec_byte_num' = rec_byte_num
          /\ start_en_d0' = start_en_d0 /\ start_en_d1' = start_en_d1
          /\ trig_tx_en' = trig_tx_en /\ tx_data_num' = tx_data_num /\ tx_done' = tx_done
      BY <2>1, <2>2, Zenon DEF rx, Tx!tx
    <3> QED
      BY <2>7, <2>8, <2>9, <3>1, Zenon DEF Echo
  <2>11. NoEcho' <=> NoEcho
    BY <2>1, <2>2, <2>7, Zenon DEF rx, Tx!tx, ctrl, NoEcho
  <2>12. (Waits' <=> Waits) /\ (arp_rx_done' = arp_rx_done)
    BY <2>1, Zenon DEF ctrl, ARP!arp_rx, Waits
  <2>13. EchoInv'
    BY <2>5, <2>10, <2>11, <2>12, Zenon DEF WholeInv, EchoInv
  <2>14. /\ ArpTxRests' <=> ArpTxRests
         /\ \A k : ArpTxAt(k)' <=> ArpTxAt(k)
    <3>1. /\ atx_state' = atx_state /\ atx_skip' = atx_skip /\ atx_done_t' = atx_done_t
          /\ atx_cnt' = atx_cnt /\ arp_gmii_tx_en' = arp_gmii_tx_en
      BY <2>1 DEF ARP!arp_tx
    <3>2. ArpTxRests' <=> ArpTxRests
      BY <3>1, Zenon DEF ArpTxRests
    <3>3. ASSUME NEW k PROVE ArpTxAt(k)' <=> ArpTxAt(k)
      BY <3>1, ZenonT(60) DEF ArpTxAt
    <3> QED
      BY <3>2, <3>3
  <2>15. /\ arp_tx_en' = arp_tx_en /\ tx_en_d0' = tx_en_d0 /\ tx_en_d1' = tx_en_d1
         /\ protocol_sw' = protocol_sw /\ rec_pkt_done' = rec_pkt_done
         /\ arp_tx_done' = arp_tx_done /\ arpOnPins' = arpOnPins
    BY <2>1, <2>2, Zenon DEF ctrl, ARP!arp_tx, rx, history
  <2>16. PinsBefore' <=> PinsBefore
    BY <2>15, Zenon DEF PinsBefore
  <2>17. ReplyInv'
    BY <2>5, <2>14, <2>15, <2>16, Zenon DEF WholeInv, ReplyInv
  <2> QED
    BY <2>3, <2>13, <2>17 DEF WholeInv
<1> QED
  BY <1>1, <1>2

\* Every ARP reply leaves as one whole frame: no echo takes the pins from it,
\* although eth_ctrl gives them to the echo at once, for every set of whole
\* frames in which the packets' lengths differ by no more than 5, in every
\* order, and every pause that Ethernet allows.
THEOREM RepliesWhole == Steady => (EchoSpec => []ArpWhole)
<1> SUFFICES ASSUME Steady PROVE EchoSpec => []ArpWhole
  OBVIOUS
<1>1. EchoInit => WholeInv
  BY WholeInit
<1>2. WholeInv /\ [EchoNext]_echo_vars => WholeInv'
  BY WholeStep
<1>3. WholeInv => ArpWhole
  <2>1. ReplyInv /\ arp_tx_done => arpOnPins = 72
    BY DEF ReplyInv, PinsBefore
  <2> QED
    BY <2>1 DEF WholeInv, ArpWhole
<1> QED
  BY <1>1, <1>2, <1>3, PTL DEF EchoSpec

-----------------------------------------------------------------------------
\* The buffer's words, and word i of packet d of n bytes.
FourBytes == [0 .. 3 -> Int \X Int]
WordOf(w, i, d, n) == \A b \in 0 .. 3 : 4 * i + b < n => w[b] = <<d, 4 * i + b>>

\* udp_rx hands out the words of the packet it is receiving.
WordInv ==
  /\ rec_en \in BOOLEAN /\ rec_data \in FourBytes
  /\ rec_en => /\ gap = 0 /\ frame.kind = "udp" /\ words >= 1
               /\ WordOf(rec_data, words - 1, id, frame.n)
  /\ rec_pkt_done => rec_en

\* How many of its words are in the buffer.
Coming == words - (IF rec_en THEN 1 ELSE 0)

\* The buffer holds r words of packet d from word t on, and behind them those
\* that have come of the packet that is being received.
Held(r, t, d, n) ==
  /\ fifo \in Seq(FourBytes) /\ Len(fifo) = r + Coming
  /\ \A i \in 1 .. r : WordOf(fifo[i], t + i - 1, d, n)
  /\ \A i \in 1 .. Coming : WordOf(fifo[r + i], i - 1, id, frame.n)

-----------------------------------------------------------------------------
LEMMA WordsNow ==
  ASSUME Steady, LineSide
  PROVE  /\ words \in Nat /\ rec_pkt_done \in BOOLEAN
         /\ rec_pkt_done => words = WordCount(frame.n)
         /\ ~rec_pkt_done /\ words > 0 =>
              gap = 0 /\ frame.kind = "udp" /\ words <= WordCount(frame.n)
<1>1. /\ frame \in Frames /\ frame.n \in 0 .. (LenSize - 1) /\ LenSize \in Nat
      /\ frame.ihl \in 20 .. 60 /\ pos \in Nat
      /\ frame.kind \in {"udp", "arp", "mac", "type", "ip"}
      /\ frame.kind = "udp" => frame.n >= 1
  BY SteadyFrame, LenSizeAssumption DEF LineSide, LineInv
<1>2. /\ data_cnt \in 0 .. (LenSize - 1) /\ rec_pkt_done \in BOOLEAN
      /\ data_cnt <= LastByte
      /\ data_cnt # 0 => cur_state = "data" /\ ~skip_en
      /\ rec_pkt_done => (rec_byte_num # 0 => words = WordCount(rec_byte_num))
      /\ ~rec_pkt_done => words = data_cnt \div 4
  BY DEF LineSide, LenInv, TypeOK
<1>3. CASE rec_pkt_done
  <2>1. rec_byte_num = frame.n /\ frame.kind = "udp"
    BY <1>3 DEF LineSide, StrobeInv
  <2> QED
    BY <1>1, <1>2, <1>3, <2>1 DEF WordCount
<1>4. CASE ~rec_pkt_done /\ words > 0
  <2>1. data_cnt # 0
    BY <1>2, <1>4
  <2>2. next_state = "data"
    BY <1>2, <2>1 DEF next_state
  <2>3. gap = 0 /\ Reads(pos)
    BY <2>2 DEF LineSide, GoodInv
  <2>4. StateAt(frame, pos) = "data" /\ data_byte_num = frame.n
    BY <2>2, <2>3 DEF Reads
  <2>5. frame.kind = "udp"
    BY <1>1, <2>4 DEF StateAt
  <2>6. LastByte = frame.n - 1
    BY <1>1, <2>4, <2>5, LastByteRange DEF LastByte
  <2> QED
    BY <1>1, <1>2, <1>4, <2>3, <2>5, <2>6 DEF WordCount
<1>5. CASE ~rec_pkt_done /\ ~(words > 0)
  BY <1>2, <1>5
<1> QED
  BY <1>2, <1>3, <1>4, <1>5

LEMMA WordCounts ==
  ASSUME Steady, LineSide, WordInv, Next
  PROVE  /\ Coming' = IF rec_pkt_done THEN 0 ELSE words
         /\ words' = (IF rec_pkt_done THEN 0 ELSE words) + (IF rec_en' THEN 1 ELSE 0)
<1>1. words' = (IF rec_pkt_done THEN 0 ELSE words) + (IF rec_en' THEN 1 ELSE 0)
  BY Zenon DEF Next, Record
<1> QED
  BY <1>1, WordsNow DEF Coming

\* Every word is the next one of its packet.
LEMMA WordStep ==
  ASSUME Steady, LineSide, LineSide', WordInv, Next
  PROVE  WordInv'
<1>1. /\ frame \in Frames /\ frame.n \in 0 .. (LenSize - 1) /\ LenSize \in Nat
      /\ frame.ihl \in 20 .. 60 /\ pos \in Nat
      /\ frame.kind = "udp" => Mark(frame) <= 7 + frame.size
  BY SteadyFrame, LenSizeAssumption DEF LineSide, LineInv
<1>2. NoData \/ RxData
  BY Zenon DEF Next, Receive, Idle, Preamble, EthHead, IpHead, UdpHead, Wait, Quiet, End
<1>3. rec_en' \in BOOLEAN /\ (rec_pkt_done' => rec_en')
  BY <1>2, Zenon DEF NoData, RxData
<1>4. rec_data' \in FourBytes
  <2>1. CASE NoData
    BY <2>1 DEF NoData, WordInv
  <2>2. CASE RxData
    <3>1. rec_data' = [rec_data EXCEPT ![rec_en_cnt] = Datum]
      BY <2>2, Zenon DEF RxData
    <3>2. id \in Int /\ Ids \in Int /\ frame.ihl \in Int /\ pos \in Int
      BY IdsAssumption, SteadyFrame DEF LineSide, LineInv
    <3>3. Datum \in Int \X Int
      BY <3>2 DEF Datum, Junk, Line!Field
    <3> QED
      BY <3>1, <3>3 DEF FourBytes, WordInv
  <2> QED
    BY <1>2, <2>1, <2>2
<1>5. ASSUME rec_en'
      PROVE  /\ gap' = 0 /\ frame'.kind = "udp" /\ words' >= 1
             /\ WordOf(rec_data, words - 1, id, frame.n)'
  <2>1. RxData /\ next_state = "data" /\ gap = 0
    BY <1>2, <1>5, Zenon DEF NoData, RxData, dv
  <2>2. Reads(pos) /\ Line!Byte /\ Record
    BY <2>1, GapAssumption DEF LineSide, GoodInv, Next, Line!Next, Line!Pause, Line!Arrive
  <2>3. /\ StateAt(frame, pos) = "data" /\ data_cnt = pos - 30 - frame.ihl
        /\ pos > 0 => right = WordsAt(frame, pos)
    BY <2>1, <2>2 DEF Reads
  <2>4. /\ frame.kind = "udp" /\ 29 + frame.ihl < pos /\ pos <= 29 + frame.ihl + frame.n
        /\ frame.kind = "udp" => Mark(frame) = 30 + frame.ihl + frame.n
    <3>1. frame.kind \in {"udp", "arp", "mac", "type", "ip"}
      BY SteadyFrame DEF LineSide, LineInv
    <3> QED
      BY <1>1, <2>3, <3>1 DEF StateAt, Mark
  <2>5. pos < 7 + frame.size /\ pos \in Nat /\ frame.size \in Nat
    BY <1>1, <2>4, SteadyFrame
  <2>6. frame' = frame /\ id' = id /\ gap' = 0 /\ pos' = pos + 1
    BY <2>1, <2>2, <2>5 DEF Line!Byte
  <2>7. right = data_cnt \div 4 /\ data_cnt \in Nat
    BY <1>1, <2>3, <2>4 DEF WordsAt
  <2>8. ~rec_pkt_done
    BY <1>1, <2>4 DEF LineSide, StrobeInv
  <2>9. words = right
    BY <2>7, <2>8 DEF LineSide, LenInv
  <2>10. WordRight(right, frame.n)
    <3> SUFFICES ASSUME ~WordRight(right, frame.n) PROVE FALSE
      OBVIOUS
    <3>1. right' = Spoilt \/ right' = Wrong
      <4>1. ~(dv /\ pos = 0)
        BY <1>1, <2>4
      <4> QED
        BY <1>5, <2>2, <4>1, Zenon DEF Record
    <3>2. right' = WordsAt(frame, pos + 1)
      BY <2>5, <2>6 DEF LineSide, GoodInv, Reads
    <3>3. WordsAt(frame, pos + 1) <= LenSize - 1 /\ WordsAt(frame, pos + 1) \in Nat
      BY <1>1, <2>4, LenSizeAssumption DEF WordsAt, WordCount
    <3> QED
      BY <3>1, <3>2, <3>3, LenSizeAssumption DEF Wrong, Spoilt
  <2>11. words' = words + 1
    BY <1>5, <2>8, WordCounts
  <2>12. words' - 1 = right /\ words' >= 1
    BY <2>7, <2>9, <2>11
  <2> QED
    BY <2>4, <2>6, <2>10, <2>12 DEF WordRight, WordOf
<1> QED
  BY <1>3, <1>4, <1>5 DEF WordInv

-----------------------------------------------------------------------------
\* The buffer, one word taken and one put in at most.
LEMMA FifoMoves ==
  ASSUME Fifo, fifo \in Seq(FourBytes), rec_data \in FourBytes, rec_en => Len(fifo) < FifoDepth,
         tx_req => fifo # <<>>,
         NEW h, h = (IF tx_req THEN 1 ELSE 0), NEW m, m = Len(fifo) - h
  PROVE  /\ fifo' \in Seq(FourBytes) /\ m \in Nat
         /\ Len(fifo') = m + (IF rec_en THEN 1 ELSE 0)
         /\ \A i \in 1 .. m : fifo'[i] = fifo[i + h]
         /\ rec_en => fifo'[m + 1] = rec_data
         /\ tx_data' = IF tx_req THEN fifo[1] ELSE tx_data
<1> DEFINE rest == IF tx_req THEN Tail(fifo) ELSE fifo
<1>1. /\ fifo' = (IF rec_en THEN Append(rest, rec_data) ELSE rest)
      /\ tx_data' = (IF tx_req THEN Head(fifo) ELSE tx_data)
  BY Zenon DEF Fifo
<1>2. /\ rest \in Seq(FourBytes) /\ Len(rest) = m /\ m \in Nat
      /\ \A i \in 1 .. m : rest[i] = fifo[i + h]
      /\ tx_req => Head(fifo) = fifo[1]
  <2>1. CASE tx_req
    <3>1. fifo # <<>> /\ rest = Tail(fifo) /\ h = 1 /\ Len(fifo) >= 1 /\ Len(fifo) \in Nat
      BY <2>1
    <3> QED
      BY <2>1, <3>1
  <2>2. CASE ~tx_req
    <3>1. rest = fifo /\ h = 0 /\ Len(fifo) \in Nat
      BY <2>2
    <3> QED
      BY <2>2, <3>1
  <2> QED
    BY <2>1, <2>2
<1> HIDE DEF rest
<1>3. CASE rec_en
  <2>1. fifo' = Append(rest, rec_data)
    BY <1>1, <1>3
  <2>2. /\ fifo' \in Seq(FourBytes) /\ Len(fifo') = m + 1 /\ fifo'[m + 1] = rec_data
        /\ \A i \in 1 .. m : fifo'[i] = rest[i]
    BY <1>2, <2>1
  <2> QED
    BY <1>1, <1>2, <1>3, <2>2
<1>4. CASE ~rec_en
  BY <1>1, <1>2, <1>4
<1> QED
  BY <1>3, <1>4

\* While a packet comes in, it stays the one on the line.
LEMMA SamePacket ==
  ASSUME Steady, LineSide, WordInv, Next, words > 0 \/ rec_en
  PROVE  frame' = frame /\ id' = id
<1>1. gap = 0
  <2>1. CASE rec_en
    BY <2>1 DEF WordInv
  <2>2. CASE ~rec_en
    BY <2>2, WordsNow DEF WordInv
  <2> QED
    BY <2>1, <2>2
<1>2. Line!Byte
  BY <1>1, GapAssumption DEF Next, Line!Next, Line!Pause, Line!Arrive
<1> QED
  BY <1>2 DEF Line!Byte

\* A clock that ends no packet: a word may leave and a word may come.
LEMMA HeldStep ==
  ASSUME Steady, LineSide, WordInv, Next, Fifo, ~rec_pkt_done,
         NEW r \in Nat, NEW t \in Int, NEW d, NEW n \in Nat, Held(r, t, d, n),
         frame.kind = "udp" => r + WordCount(frame.n) <= FifoDepth, FifoDepth \in Nat,
         tx_req => r >= 1,
         NEW h, h = (IF tx_req THEN 1 ELSE 0)
  PROVE  /\ Held(r - h, t + h, d, n)'
         /\ tx_req => WordOf(tx_data', t, d, n)
         /\ ~tx_req => tx_data' = tx_data
<1> DEFINE m == Len(fifo) - h
<1>1. /\ words \in Nat /\ rec_en \in BOOLEAN /\ rec_data \in FourBytes
      /\ words > 0 => words <= WordCount(frame.n)
      /\ rec_en => words >= 1 /\ WordOf(rec_data, words - 1, id, frame.n)
      /\ Coming' = words
  BY WordsNow, WordCounts DEF WordInv
<1>2. /\ fifo \in Seq(FourBytes) /\ Len(fifo) = r + Coming
      /\ \A i \in 1 .. r : WordOf(fifo[i], t + i - 1, d, n)
      /\ \A i \in 1 .. Coming : WordOf(fifo[r + i], i - 1, id, frame.n)
  BY DEF Held
<1>3. Coming = words - (IF rec_en THEN 1 ELSE 0) /\ Coming \in Nat /\ h \in {0, 1}
  BY <1>1 DEF Coming
<1>4. rec_en => Len(fifo) < FifoDepth
  <2>1. WordCount(frame.n) \in Int
    BY SteadyFrame DEF LineSide, LineInv, WordCount
  <2>2. rec_en => frame.kind = "udp"
    BY DEF WordInv
  <2> QED
    BY <1>1, <1>2, <1>3, <2>1, <2>2
<1>5. tx_req => fifo # <<>>
  BY <1>2, <1>3
<1>6. /\ fifo' \in Seq(FourBytes) /\ m \in Nat
      /\ Len(fifo') = m + (IF rec_en THEN 1 ELSE 0)
      /\ \A i \in 1 .. m : fifo'[i] = fifo[i + h]
      /\ rec_en => fifo'[m + 1] = rec_data
      /\ tx_data' = IF tx_req THEN fifo[1] ELSE tx_data
  BY <1>1, <1>2, <1>4, <1>5, FifoMoves
<1>7. m = (r - h) + Coming /\ r - h \in Nat
  BY <1>2, <1>3
<1> HIDE DEF m
<1>8. Len(fifo') = (r - h) + words
  BY <1>1, <1>3, <1>6, <1>7
<1>9. ASSUME NEW i \in 1 .. (r - h) PROVE WordOf(fifo'[i], (t + h) + i - 1, d, n)
  <2>1. fifo'[i] = fifo[i + h] /\ i + h \in 1 .. r /\ t + (i + h) - 1 = (t + h) + i - 1
    BY <1>3, <1>6, <1>7
  <2>2. WordOf(fifo[i + h], t + (i + h) - 1, d, n)
    BY <1>2, <2>1
  <2> QED
    BY <2>1, <2>2
<1>10. ASSUME NEW i \in 1 .. words PROVE WordOf(fifo'[(r - h) + i], i - 1, id', frame'.n)
  <2>1. frame' = frame /\ id' = id
    <3>1. words > 0
      BY <1>1
    <3> QED
      BY <3>1, SamePacket
  <2>2. CASE i <= Coming
    <3>1. (r - h) + i \in 1 .. m /\ ((r - h) + i) + h = r + i
      BY <1>3, <1>7, <2>2
    <3>2. fifo'[(r - h) + i] = fifo[r + i]
      BY <1>6, <3>1
    <3> QED
      BY <1>2, <2>1, <2>2, <3>2
  <2>3. CASE ~(i <= Coming)
    <3>1. rec_en /\ i = words /\ (r - h) + i = m + 1
      BY <1>1, <1>3, <1>7, <2>3
    <3> QED
      BY <1>1, <1>6, <2>1, <3>1
  <2> QED
    BY <2>2, <2>3
<1>11. Held(r - h, t + h, d, n)'
  BY <1>1, <1>6, <1>8, <1>9, <1>10 DEF Held
<1>12. tx_req => WordOf(tx_data', t, d, n)
  <2> SUFFICES ASSUME tx_req PROVE WordOf(tx_data', t, d, n)
    OBVIOUS
  <2>1. tx_data' = fifo[1] /\ 1 \in 1 .. r /\ t + 1 - 1 = t
    BY <1>6
  <2>2. WordOf(fifo[1], t + 1 - 1, d, n)
    BY <1>2, <2>1
  <2> QED
    BY <2>1, <2>2
<1> QED
  BY <1>6, <1>11, <1>12

\* Without a word of an earlier packet, it does not matter whose they were.
LEMMA HeldNone ==
  ASSUME NEW t, NEW d, NEW n, Held(0, t, d, n), NEW u, NEW e, NEW k
  PROVE  Held(0, u, e, k)
<1>1. \A i \in 1 .. 0 : FALSE
  OBVIOUS
<1> QED
  BY <1>1, Zenon DEF Held

\* The clock after a packet's end: all its words are in the buffer.
LEMMA HeldPacket ==
  ASSUME Steady, LineSide, WordInv, Next, Fifo, rec_pkt_done, ~tx_req,
         NEW t, NEW d, NEW k, Held(0, t, d, k),
         WordCount(frame.n) <= FifoDepth, FifoDepth \in Nat, NEW n, n = frame.n
  PROVE  Held(WordCount(n), 0, id, n)'
<1>1. /\ words \in Nat /\ words = WordCount(n) /\ rec_en /\ rec_data \in FourBytes
      /\ words >= 1 /\ WordOf(rec_data, words - 1, id, n) /\ Coming' = 0
  BY WordsNow, WordCounts DEF WordInv
<1>2. /\ fifo \in Seq(FourBytes) /\ Len(fifo) = words - 1
      /\ \A i \in 1 .. words - 1 : WordOf(fifo[i], i - 1, id, n)
  <2>1. Coming = words - 1
    BY <1>1 DEF Coming
  <2>2. /\ fifo \in Seq(FourBytes) /\ Len(fifo) = 0 + Coming
        /\ \A i \in 1 .. Coming : WordOf(fifo[0 + i], i - 1, id, n)
    BY DEF Held
  <2>3. \A i \in 1 .. Coming : 0 + i = i
    BY <1>1, <2>1
  <2> QED
    BY <1>1, <2>1, <2>2, <2>3
<1>3. /\ fifo' \in Seq(FourBytes) /\ Len(fifo') = words
      /\ \A i \in 1 .. words - 1 : fifo'[i] = fifo[i]
      /\ fifo'[words] = rec_data
  <2>1. Len(fifo) < FifoDepth /\ 0 = (IF tx_req THEN 1 ELSE 0) /\ words - 1 = Len(fifo) - 0
    BY <1>1, <1>2
  <2> DEFINE m == words - 1
  <2>2. /\ fifo' \in Seq(FourBytes) /\ Len(fifo') = m + (IF rec_en THEN 1 ELSE 0)
        /\ \A i \in 1 .. m : fifo'[i] = fifo[i + 0]
        /\ rec_en => fifo'[m + 1] = rec_data
    <3> HIDE DEF m
    <3>1. m = Len(fifo) - 0
      BY <2>1 DEF m
    <3> QED
      BY <1>1, <1>2, <2>1, <3>1, FifoMoves
  <2>3. (words - 1) + 1 = words /\ \A i \in 1 .. words - 1 : i + 0 = i
    BY <1>1
  <2> QED
    BY <1>1, <2>2, <2>3
<1>4. id' = id
  BY <1>1, SamePacket
<1>5. ASSUME NEW i \in 1 .. words PROVE WordOf(fifo'[i], 0 + i - 1, id', n)
  <2>1. 0 + i - 1 = i - 1
    OBVIOUS
  <2>2. CASE i = words
    BY <1>1, <1>3, <1>4, <2>1, <2>2
  <2>3. CASE i # words
    <3>1. i \in 1 .. words - 1
      BY <1>1, <2>3
    <3> QED
      BY <1>2, <1>3, <1>4, <2>1, <3>1
  <2> QED
    BY <2>2, <2>3
<1>6. Len(fifo') = WordCount(n) + Coming' /\ 1 .. Coming' = {}
  BY <1>1, <1>3
<1> QED
  BY <1>1, <1>3, <1>5, <1>6 DEF Held

-----------------------------------------------------------------------------
\* An echo of n bytes, k clocks after udp_tx has begun: its start is on its
\* way, its frame is going out, or tx_done is up.
Phase(k, n) ==
  \/ /\ k = -2 /\ start_en_d0 /\ ~start_en_d1 /\ ~trig_tx_en /\ TxRests /\ ~tx_done
     /\ rec_byte_num = n
  \/ /\ k = -1 /\ ~start_en_d0 /\ trig_tx_en /\ TxRests /\ ~tx_done
     /\ tx_data_num = n
  \/ /\ k \in 0 .. 58 + PadTo(n) /\ ~start_en_d0 /\ ~trig_tx_en /\ TxAt(k) /\ ~tx_done
     /\ tx_data_num = n
  \/ /\ k = 59 + PadTo(n) /\ ~start_en_d0 /\ ~trig_tx_en /\ TxRests /\ tx_done

\* What udp_tx shows then, of packet d.
Pins(k, d, n) ==
  /\ tx_req <=> k >= 53 /\ (k - 53) % 4 = 0 /\ k - 53 <= n
  /\ gmii_tx_en <=> k \in 5 .. 58 + PadTo(n)
  /\ IF k \in 55 .. 54 + PadTo(n) THEN k - 55 < n => gmii_txd = <<d, k - 55>>
     ELSE gmii_txd = <<>>
  /\ k \in 54 .. 53 + PadTo(n) => tx_bit_sel = (k - 54) % 4
  /\ k >= 54 /\ k - 54 < n => WordOf(tx_data, (k - 54) \div 4, d, n)
Silent == ~tx_req /\ ~gmii_tx_en /\ gmii_txd = <<>>

LEMMA PhaseStep ==
  ASSUME Steady, LineSide, Next, TxTakes, ~rec_pkt_done, NEW n \in 1 .. (LenSize - 1),
         NEW k \in Int, Phase(k, n), k <= 58 + PadTo(n)
  PROVE  Phase(k + 1, n)'
<1>1. /\ start_en_d0' = rec_pkt_done /\ trig_tx_en' = (start_en_d0 /\ ~start_en_d1)
      /\ tx_done' = tx_done_t
  BY TxShared
<1>2. ~start_en_d0'
  BY <1>1, Zenon
<1>3. PadTo(n) \in Nat /\ PadTo(n) >= 18
  BY PadRange, LenSizeAssumption
<1>4. CASE /\ k = -2 /\ start_en_d0 /\ ~start_en_d1 /\ ~trig_tx_en /\ TxRests
           /\ rec_byte_num = n
  <2>1. TxRests' /\ ~tx_done'
    BY <1>4, TxWaits
  <2>2. trig_tx_en'
    BY <1>1, <1>4, Zenon
  <2>3. tx_data_num' = n
    BY <1>4, TxShared DEF TxRests
  <2>4. k + 1 = -1
    BY <1>4
  <2> QED
    BY <1>2, <2>1, <2>2, <2>3, <2>4, Zenon DEF Phase
<1>5. CASE k = -1 /\ ~start_en_d0 /\ trig_tx_en /\ TxRests /\ tx_data_num = n
  <2>1. TxAt(0)' /\ tx_data_num' = n /\ ~tx_done'
    BY <1>5, TxWaits
  <2>2. ~trig_tx_en'
    BY <1>1, <1>5, Zenon
  <2>3. k + 1 = 0 /\ k + 1 \in 0 .. 58 + PadTo(n)
    BY <1>3, <1>5
  <2> QED
    BY <1>2, <2>1, <2>2, <2>3, Zenon DEF Phase
<1>6. CASE /\ k \in 0 .. 58 + PadTo(n) /\ ~start_en_d0 /\ ~trig_tx_en /\ TxAt(k)
           /\ tx_data_num = n
  <2>1. ~trig_tx_en'
    BY <1>1, <1>6, Zenon
  <2>2. tx_done_t <=> k = 58 + PadTo(n)
    BY <1>6 DEF TxAt
  <2>3. CASE k < 58 + PadTo(n)
    <3>1. TxAt(k + 1)' /\ tx_data_num' = n
      BY <1>6, <2>3, TxForward
    <3>2. k + 1 \in 0 .. 58 + PadTo(n) /\ ~tx_done_t
      BY <1>3, <1>6, <2>2, <2>3
    <3>3. ~tx_done'
      BY <1>1, <3>2, Zenon
    <3> QED
      BY <1>2, <2>1, <3>1, <3>2, <3>3, Zenon DEF Phase
  <2>4. CASE k = 58 + PadTo(n)
    <3>1. TxRests' /\ tx_done'
      BY <1>6, <2>4, TxEnds
    <3>2. k + 1 = 59 + PadTo(n)
      BY <1>3, <2>4
    <3> QED
      BY <1>2, <2>1, <3>1, <3>2, Zenon DEF Phase
  <2> QED
    BY <1>3, <1>6, <2>3, <2>4
<1>7. k # 59 + PadTo(n)
  BY <1>3
<1> QED
  BY <1>4, <1>5, <1>6, <1>7, Zenon DEF Phase

\* Outside a frame udp_tx shows nothing.
LEMMA SilentStep ==
  ASSUME TxTakes, tx_state' = "idle"
  PROVE  Silent'
<1>1. Tx!tx_next = "idle"
  BY TxShared
<1>2. ~tx_req'
  BY <1>1, TxChoice, Zenon DEF Tx!Idle
<1>3. /\ gmii_tx_en' = (Tx!tx_next \notin {"idle", "check_sum"})
      /\ gmii_txd' = IF Tx!tx_next = "tx_data" THEN tx_data[tx_bit_sel] ELSE <<>>
  BY Zenon DEF TxTakes, Tx!Transmit
<1>4. ~gmii_tx_en'
  BY <1>1, <1>3
<1>5. gmii_txd' = <<>>
  BY <1>1, <1>3
<1> QED
  BY <1>2, <1>4, <1>5 DEF Silent

LEMMA SilentPins ==
  ASSUME Silent', NEW k \in Int, NEW d, NEW n \in Nat, k < 5 \/ k = 59 + PadTo(n)
  PROVE  Pins(k, d, n)'
<1>1. PadTo(n) \in Nat /\ PadTo(n) >= 18 /\ PadTo(n) >= n
  BY PadRange
<1>2. /\ ~(k >= 53 /\ (k - 53) % 4 = 0 /\ k - 53 <= n)
      /\ k \notin 5 .. 58 + PadTo(n) /\ k \notin 55 .. 54 + PadTo(n)
      /\ k \notin 54 .. 53 + PadTo(n) /\ ~(k >= 54 /\ k - 54 < n)
  BY <1>1
<1> QED
  BY <1>2, Zenon DEF Silent, Pins

LEMMA PinsSilent ==
  ASSUME NEW n \in Nat, NEW k \in Int, k = 59 + PadTo(n), NEW d, Pins(k, d, n)
  PROVE  Silent
<1>1. PadTo(n) \in Nat /\ PadTo(n) >= 18 /\ PadTo(n) >= n
  BY PadRange
<1>2. /\ ~(k >= 53 /\ (k - 53) % 4 = 0 /\ k - 53 <= n)
      /\ k \notin 5 .. 58 + PadTo(n) /\ k \notin 55 .. 54 + PadTo(n)
  BY <1>1
<1> QED
  BY <1>2, Zenon DEF Silent, Pins

\* Within a frame: the request for each word, four clocks before its last
\* byte, and the bytes in their order.
LEMMA PinsStep ==
  ASSUME Steady, TxTakes, NEW n \in 1 .. (LenSize - 1), NEW k \in 0 .. 57 + PadTo(n),
         TxAt(k), tx_data_num = n, TxAt(k + 1)', tx_data_num' = n,
         NEW d, Pins(k, d, n),
         tx_req => WordOf(tx_data', (k - 53) \div 4, d, n),
         ~tx_req => tx_data' = tx_data
  PROVE  Pins(k + 1, d, n)'
<1> DEFINE p == PadTo(n)
<1>1. p \in Nat /\ p >= 18 /\ p >= n /\ n \in Nat /\ n >= 1 /\ k \in Int
      /\ LenSize \in Nat /\ p <= LenSize - 1 /\ n <= LenSize - 1
  BY TxTypes, PadRange, LenSizeAssumption
<1> HIDE DEF p
<1>2. /\ Tx!tx_next = tx_state'
      /\ gmii_tx_en' = (Tx!tx_next \notin {"idle", "check_sum"})
      /\ gmii_txd' = IF Tx!tx_next = "tx_data" THEN tx_data[tx_bit_sel] ELSE <<>>
  BY TxShared, Zenon DEF TxTakes, Tx!Transmit
<1>3. tx_state' = IF k + 1 <= 4 THEN "check_sum"
                    ELSE IF k + 1 <= 12 THEN "preamble" ELSE IF k + 1 <= 26 THEN "eth_head"
                    ELSE IF k + 1 <= 54 THEN "ip_head" ELSE IF k + 1 <= 54 + p THEN "tx_data"
                    ELSE "crc"
  <2>1. k + 1 # 0
    BY <1>1
  <2> QED
    BY <2>1 DEF TxAt, p
<1>4. tx_bit_sel \in 0 .. 3
      /\ (k \in 27 .. 53 => tx_bit_sel = (k - 26) % 4 /\ tx_cnt = (k - 26) \div 4)
      /\ (k = 26 => tx_bit_sel = 0)
      /\ (k \in 54 .. 53 + p => tx_bit_sel = (k - 54) % 4)
      /\ (k \in 54 .. 53 + p => data_sent = IF k - 54 < n THEN k - 54 ELSE n - 1)
  <2>1. /\ tx_bit_sel \in 0 .. 3 /\ (k \in 27 .. 53 => tx_bit_sel = (k - 26) % 4)
        /\ k \in 27 .. 53 => tx_cnt = (k - 26) \div 4
        /\ k = 26 => tx_bit_sel = 0
    BY <1>1 DEF TxAt
  <2>2. k \in 54 .. 53 + p => tx_bit_sel = (k - 54) % 4
    BY Zenon DEF Pins, p
  <2>3. k \in 54 .. 53 + p => data_sent = IF k - 54 < n THEN k - 54 ELSE n - 1
    <3>1. CASE k = 54
      BY <1>1, <3>1 DEF TxAt
    <3>2. CASE k \in 55 .. 53 + p
      BY <1>1, <3>2 DEF TxAt, p
    <3> QED
      BY <1>1, <3>1, <3>2
  <2> QED
    BY <2>1, <2>2, <2>3
<1>5. gmii_tx_en' <=> k + 1 \in 5 .. 58 + p
  <2>1. Tx!tx_next \notin {"idle", "check_sum"} <=> k + 1 \in 5 .. 58 + p
    BY <1>1, <1>2, <1>3 DEF p
  <2> QED
    BY <1>2, <2>1, Zenon
<1>6. Tx!tx_next = "tx_data" <=> k + 1 \in 55 .. 54 + p
  BY <1>1, <1>2, <1>3
<1>7. IF k + 1 \in 55 .. 54 + p THEN (k + 1) - 55 < n => gmii_txd' = <<d, (k + 1) - 55>>
      ELSE gmii_txd' = <<>>
  <2>1. CASE k + 1 \in 55 .. 54 + p
    <3> SUFFICES ASSUME (k + 1) - 55 < n PROVE gmii_txd' = <<d, (k + 1) - 55>>
      BY <2>1
    <3>1. gmii_txd' = tx_data[tx_bit_sel]
      BY <1>2, <1>6, <2>1
    <3>2. WordOf(tx_data, (k - 54) \div 4, d, n)
      <4>1. k >= 54 /\ k - 54 < n
        BY <1>1, <2>1
      <4> QED
        BY <4>1 DEF Pins
    <3>3. tx_bit_sel = (k - 54) % 4 /\ tx_bit_sel \in 0 .. 3
      BY <1>1, <1>4, <2>1
    <3>4. 4 * ((k - 54) \div 4) + tx_bit_sel = k - 54 /\ (k + 1) - 55 = k - 54
      BY <1>1, <3>3
    <3>5. tx_data[tx_bit_sel] = <<d, k - 54>>
      BY <3>2, <3>3, <3>4 DEF WordOf
    <3> QED
      BY <3>1, <3>4, <3>5
  <2>2. CASE k + 1 \notin 55 .. 54 + p
    BY <1>2, <1>6, <2>2
  <2> QED
    BY <2>1, <2>2
<1>8. tx_req' <=> k + 1 >= 53 /\ ((k + 1) - 53) % 4 = 0 /\ (k + 1) - 53 <= n
  <2>1. CASE k <= 25
    <3>1. Tx!tx_next \in {"check_sum", "preamble", "eth_head"}
      BY <1>1, <1>2, <1>3, <2>1
    <3>2. ~tx_req'
      BY <3>1, TxChoice, Zenon DEF Tx!Stretch
    <3> QED
      BY <1>1, <2>1, <3>2
  <2>2. CASE k \in 26 .. 53
    <3>1. Tx!tx_next = "ip_head"
      BY <1>1, <1>2, <1>3, <2>2
    <3>2. tx_req' = (tx_bit_sel = 2 /\ tx_cnt = 6)
      BY <3>1, TxChoice, Zenon DEF Tx!IpHead
    <3>3. tx_bit_sel = 2 /\ tx_cnt = 6 <=> k = 52
      BY <1>4, <2>2
    <3>4. k = 52 <=> k + 1 >= 53 /\ ((k + 1) - 53) % 4 = 0 /\ (k + 1) - 53 <= n
      BY <1>1, <2>2
    <3> QED
      BY <3>2, <3>3, <3>4, Zenon
  <2>3. CASE k \in 54 .. 53 + p
    <3>1. Tx!tx_next = "tx_data"
      BY <1>1, <1>2, <1>3, <2>3
    <3>2. tx_req' = (tx_bit_sel = 2 /\ data_sent # Tx!LastSent)
      BY <3>1, TxChoice, Zenon DEF Tx!TxData
    <3>3. Tx!LastSent = n - 1
      BY <1>1, Z3 DEF Tx!LastSent
    <3>4. tx_bit_sel = (k - 54) % 4 /\ data_sent = IF k - 54 < n THEN k - 54 ELSE n - 1
      BY <1>4, <2>3
    <3>5. data_sent # n - 1 <=> (k + 1) - 53 <= n
      BY <1>1, <2>3, <3>4
    <3>6. tx_bit_sel = 2 <=> ((k + 1) - 53) % 4 = 0
      BY <1>1, <2>3, <3>4
    <3>7. k + 1 >= 53
      BY <1>1, <2>3
    <3> QED
      BY <3>2, <3>3, <3>5, <3>6, <3>7, Zenon
  <2>4. CASE k >= 54 + p
    <3>1. Tx!tx_next = "crc"
      BY <1>1, <1>2, <1>3, <2>4
    <3>2. ~tx_req'
      BY <3>1, TxChoice, Zenon DEF Tx!Crc
    <3> QED
      BY <1>1, <2>4, <3>2
  <2> QED
    BY <1>1, <2>1, <2>2, <2>3, <2>4
<1>9. k + 1 \in 54 .. 53 + p => tx_bit_sel' = ((k + 1) - 54) % 4
  <2>1. CASE k + 1 = 54
    <3>1. tx_bit_sel' = 0
      BY <1>1, <2>1 DEF TxAt
    <3> QED
      BY <2>1, <3>1
  <2>2. CASE k + 1 \in 55 .. 53 + p
    <3>1. Tx!tx_next = "tx_data" /\ k \in 54 .. 53 + p
      BY <1>1, <1>2, <1>3, <2>2
    <3>2. tx_bit_sel' = IF Tx!Ends THEN 0 ELSE (tx_bit_sel + 1) % 4
      BY <3>1, TxChoice, Zenon DEF Tx!TxData
    <3>3. ~Tx!Ends
      <4>1. ~tx_skip'
        BY <1>1, <2>2 DEF TxAt, p
      <4>2. tx_skip' = Tx!Ends
        BY <3>1, TxChoice, Zenon DEF Tx!TxData
      <4> QED
        BY <4>1, <4>2, Zenon
    <3>4. tx_bit_sel' = (tx_bit_sel + 1) % 4 /\ tx_bit_sel = (k - 54) % 4
      BY <1>4, <3>1, <3>2, <3>3
    <3> QED
      BY <1>1, <3>1, <3>4
  <2> QED
    BY <1>1, <2>1, <2>2
<1>10. k + 1 >= 54 /\ (k + 1) - 54 < n => WordOf(tx_data', ((k + 1) - 54) \div 4, d, n)
  <2> SUFFICES ASSUME k + 1 >= 54, (k + 1) - 54 < n
               PROVE  WordOf(tx_data', ((k + 1) - 54) \div 4, d, n)
    OBVIOUS
  <2>1. (k + 1) - 54 = k - 53 /\ k >= 53
    BY <1>1
  <2>2. CASE (k - 53) % 4 = 0
    <3>1. tx_req
      <4>1. k >= 53 /\ (k - 53) % 4 = 0 /\ k - 53 <= n
        BY <1>1, <2>1, <2>2
      <4> QED
        BY <4>1, Zenon DEF Pins
    <3> QED
      BY <2>1, <3>1
  <2>3. CASE (k - 53) % 4 # 0
    <3>1. ~tx_req
      BY <2>3, Zenon DEF Pins
    <3>2. k >= 54 /\ k - 54 < n /\ (k - 53) \div 4 = (k - 54) \div 4
      BY <1>1, <2>1, <2>3
    <3>3. WordOf(tx_data, (k - 54) \div 4, d, n)
      BY <3>2 DEF Pins
    <3> QED
      BY <2>1, <3>1, <3>2, <3>3
  <2> QED
    BY <2>2, <2>3
<1> QED
  BY <1>5, <1>7, <1>8, <1>9, <1>10, Zenon DEF Pins, p

-----------------------------------------------------------------------------
\* How many words of its packet an echo has taken from the buffer: it takes
\* all of them, and as its length is no multiple of 4 it asks for no more.
Taken(k, n) == IF k < 54 THEN 0 ELSE IF k - 54 < n THEN (k - 54) \div 4 + 1 ELSE WordCount(n)

LEMMA TakenStep ==
  ASSUME NEW n \in Nat, n >= 1, n % 4 # 0, NEW k \in Int, NEW d, Pins(k, d, n),
         NEW h, h = (IF tx_req THEN 1 ELSE 0)
  PROVE  /\ Taken(k + 1, n) = Taken(k, n) + h
         /\ Taken(k, n) \in Nat /\ WordCount(n) - Taken(k, n) \in Nat
         /\ tx_req => Taken(k, n) = (k - 53) \div 4 /\ WordCount(n) - Taken(k, n) >= 1
<1>1. tx_req <=> k >= 53 /\ (k - 53) % 4 = 0 /\ k - 53 <= n
  BY Zenon DEF Pins
<1>2. h = IF k >= 53 /\ (k - 53) % 4 = 0 /\ k - 53 <= n THEN 1 ELSE 0
  BY <1>1
<1>3. CASE k < 53
  BY <1>1, <1>2, <1>3 DEF Taken, WordCount
<1>4. CASE k = 53
  BY <1>1, <1>2, <1>4 DEF Taken, WordCount
<1>5. CASE k > 53 /\ k - 53 < n
  BY <1>1, <1>2, <1>5 DEF Taken, WordCount
<1>6. CASE k > 53 /\ k - 53 = n
  BY <1>1, <1>2, <1>6 DEF Taken, WordCount
<1>7. CASE k > 53 /\ k - 53 > n
  BY <1>1, <1>2, <1>7 DEF Taken, WordCount
<1> QED
  BY <1>3, <1>4, <1>5, <1>6, <1>7

\* What the history says of an echo of n bytes after its clock k: its bytes
\* on the pins, and the right ones among them.
OnPins(k) == IF k <= 5 THEN 0 ELSE k - 5
RightBytes(k, n) == IF k <= 55 THEN 0 ELSE IF k - 55 <= n THEN k - 55 ELSE n

LEMMA CountStep ==
  ASSUME NEW n \in Nat, n >= 1, NEW k \in Int, k <= 58 + PadTo(n), NEW d, Pins(k, d, n),
         EchoRecord, ~tx_done,
         owed = <<<<d, n>>>>, sent = RightBytes(k, n), onPins = OnPins(k), protocol_sw
  PROVE  sent' = RightBytes(k + 1, n) /\ onPins' = OnPins(k + 1)
<1> DEFINE p == PadTo(n)
<1>1. p \in Nat /\ p >= 18 /\ p >= n
  BY PadRange
<1> HIDE DEF p
<1>2. owed # <<>> /\ Head(owed)[1] = d /\ Head(owed)[2] = n
  OBVIOUS
<1>3. gmii_tx_en <=> k \in 5 .. 58 + p
  BY Zenon DEF Pins, p
<1>4. onPins' = IF udpPin THEN onPins + 1 ELSE onPins
  BY Zenon DEF EchoRecord
<1>5. udpPin <=> k \in 5 .. 58 + p
  BY <1>3, Zenon DEF udpPin
<1>6. onPins' = OnPins(k + 1)
  BY <1>1, <1>4, <1>5 DEF OnPins, p
<1>7. sent' = IF ~udpPin \/ gmii_txd = <<>> THEN sent
              ELSE IF sent >= n THEN sent
              ELSE IF gmii_txd = <<d, sent>> THEN sent + 1 ELSE LenSize
  BY <1>2, Zenon DEF EchoRecord, Sent
<1>8. CASE k \in 55 .. 54 + p
  <2>1. CASE k - 55 < n
    <3>1. sent = k - 55 /\ ~(sent >= n)
      BY <1>8, <2>1 DEF RightBytes
    <3>2. gmii_txd = <<d, k - 55>>
      BY <1>8, <2>1 DEF Pins, p
    <3>3. gmii_txd # <<>>
      BY <3>2
    <3>4. udpPin
      BY <1>1, <1>5, <1>8
    <3>5. sent' = sent + 1
      BY <1>7, <3>1, <3>2, <3>3, <3>4
    <3> QED
      BY <1>6, <1>8, <2>1, <3>1, <3>5 DEF RightBytes
  <2>2. CASE ~(k - 55 < n)
    <3>1. sent = n
      BY <1>8, <2>2 DEF RightBytes
    <3>2. sent' = sent
      BY <1>7, <3>1
    <3> QED
      BY <1>6, <1>8, <2>2, <3>1, <3>2 DEF RightBytes
  <2> QED
    BY <1>6, <2>1, <2>2
<1>9. CASE k \notin 55 .. 54 + p
  <2>1. gmii_txd = <<>>
    BY <1>9 DEF Pins, p
  <2>2. sent' = sent
    BY <1>7, <2>1
  <2>3. RightBytes(k + 1, n) = RightBytes(k, n)
    BY <1>1, <1>9 DEF RightBytes
  <2> QED
    BY <1>6, <2>2, <2>3
<1> QED
  BY <1>8, <1>9

\* The history's sequences of one and two packets.
LEMMA AppendNone == ASSUME NEW s, s = <<>>, NEW x PROVE Append(s, x) = <<x>>
OBVIOUS

LEMMA AppendOne == ASSUME NEW y, NEW s, s = <<y>>, NEW x PROVE Append(s, x) = <<y, x>>
<1> DEFINE S == {x, y}
<1> DEFINE t == Append(s, x)
<1>1. x \in S /\ y \in S
  OBVIOUS
<1> HIDE DEF S
<1>2. s \in Seq(S) /\ Len(s) = 1 /\ s[1] = y
  BY <1>1
<1>3. t \in Seq(S) /\ Len(t) = 2 /\ t[1] = y /\ t[2] = x
  BY <1>1, <1>2
<1> HIDE DEF t
<1>4. t = <<y, x>>
  BY <1>3
<1> QED
  BY <1>4 DEF t

LEMMA OwedStep ==
  ASSUME EchoRecord, Next, NEW left, left = (IF tx_done /\ owed # <<>> THEN Tail(owed) ELSE owed)
  PROVE  /\ ~rec_pkt_done' => owed' = left
         /\ rec_pkt_done' /\ Len(left) < 3 => owed' = Append(left, <<id, frame.n>>)
<1>1. owed' = IF RxData /\ rec_pkt_done' /\ Len(left) < MaxOwed
                THEN Append(left, <<id, frame.n>>) ELSE left
  BY Zenon DEF EchoRecord
<1>2. rec_pkt_done' => RxData
  BY Zenon DEF Next, Receive, Idle, Preamble, EthHead, IpHead, UdpHead, Wait, Quiet, End, NoData
<1>3. MaxOwed = 3
  BY DEF MaxOwed
<1> QED
  BY <1>1, <1>2, <1>3, Zenon

\* With lengths that differ by 4 at most an echo is out before the next
\* packet's last byte.
LEMMA PacketAlone ==
  ASSUME Steady, \A f, g \in Packets : f.n <= g.n + 4, LineSide, Next, rec_pkt_done',
         NEW n, n = frame.n
  PROVE  /\ n \in 1 .. (LenSize - 1) /\ rec_byte_num' = n /\ frame \in Packets
         /\ frame' = frame /\ id' = id
         /\ Free("udp", 62 + PadTo(n))'
<1>1. /\ gap = 0 /\ frame.kind = "udp" /\ pos = Mark(frame) - 1 /\ rec_byte_num' = frame.n
  BY PacketStrobe
<1>2. frame \in Frames /\ MinGap \in Nat /\ MinGap >= 12
  BY GapAssumption DEF LineSide, LineInv, Steady
<1>3. /\ n \in 1 .. (LenSize - 1) /\ Mark(frame) = 50 + n /\ Mark(frame) \in Int
      /\ frame.size \in Nat /\ frame.size >= 46 + PadTo(n)
      /\ PadTo(n) \in Nat /\ frame \in Packets /\ n \in Nat
  BY <1>1, <1>2, SteadyFrame, PadRange, LenSizeAssumption DEF Packets
<1>4. frame' = frame /\ gap' = 0 /\ pos' = Mark(frame)
  BY <1>1, ByteMoves DEF LineSide, Next
<1>5. id' = id
  BY <1>1, GapAssumption DEF Next, Line!Next, Line!Pause, Line!Arrive, Line!Byte
<1>6. ASSUME NEW g \in Frames, g.kind = "udp"
      PROVE  62 + PadTo(n) <= frame.size + 8 - Mark(frame) + MinGap + Mark(g)
  <2>1. g \in Packets
    BY <1>6 DEF Packets
  <2>2. g.n \in Nat /\ Mark(g) = 50 + g.n
    BY <1>6, SteadyFrame, LenSizeAssumption
  <2>3. n <= g.n + 4
    BY <1>3, <2>1
  <2> QED
    BY <1>2, <1>3, <2>2, <2>3
<1>7. 62 + PadTo(n) \in Int
  BY <1>3
<1> QED
  BY <1>1, <1>3, <1>4, <1>5, <1>6, <1>7, FreePast

-----------------------------------------------------------------------------
\* Nothing is owed; a packet has just been announced; or one is being sent
\* back, and the line brings no other before that is done.
Rests ==
  /\ ~rec_pkt_done /\ ~start_en_d0 /\ ~trig_tx_en /\ TxRests /\ ~tx_done /\ Silent
  /\ owed = <<>> /\ sent = 0 /\ onPins = 0 /\ Held(0, 0, 0, 0)
Done(d, m) ==
  owed = <<<<d, m>>, <<id, frame.n>>>> /\ sent = m /\ onPins = 54 + PadTo(m)
Announced ==
  /\ rec_pkt_done /\ ~start_en_d0 /\ ~trig_tx_en /\ TxRests /\ Silent /\ Held(0, 0, 0, 0)
  /\ Free("udp", 62 + PadTo(frame.n))
  /\ IF tx_done THEN \E d \in Int, m \in Nat : Done(d, m)
     ELSE owed = <<<<id, frame.n>>>> /\ sent = 0 /\ onPins = 0
Sends(k, d, n) ==
  /\ ~rec_pkt_done /\ Phase(k, n) /\ Pins(k, d, n) /\ Free("udp", 59 + PadTo(n) - k)
  /\ Held(WordCount(n) - Taken(k, n), Taken(k, n), d, n)
  /\ owed = <<<<d, n>>>> /\ sent = RightBytes(k, n) /\ onPins = OnPins(k)
  /\ k <= 58 + PadTo(n) => udp_tx_busy /\ protocol_sw
LoopInv ==
  Rests \/ Announced \/ \E f \in Packets, d \in Int, k \in Int : Sends(k, d, f.n)

LEMMA LoopPacket ==
  ASSUME Loopable, NEW f \in Packets
  PROVE  /\ f \in Frames /\ f.n \in 1 .. (LenSize - 1) /\ f.n \in Nat /\ f.n >= 1 /\ f.n % 4 # 0
         /\ PadTo(f.n) \in Nat /\ PadTo(f.n) >= 18 /\ PadTo(f.n) >= f.n
         /\ WordCount(f.n) \in Nat /\ FifoDepth \in Nat
         /\ WordCount(f.n) <= FifoDepth
         /\ \A g \in Frames : g.kind = "udp" => WordCount(f.n) + WordCount(g.n) <= FifoDepth
<1>1. f \in Frames /\ f.kind = "udp"
  BY DEF Packets
<1>2. f.n \in 1 .. (LenSize - 1) /\ f.n \in Nat
  BY <1>1, SteadyFrame, LenSizeAssumption DEF Loopable
<1>3. WordCount(f.n) \in Nat
  BY <1>2 DEF WordCount
<1>4. WordCount(f.n) <= FifoDepth
  <2>1. WordCount(f.n) + WordCount(f.n) <= FifoDepth /\ FifoDepth \in Nat
    BY DEF Loopable
  <2> QED
    BY <1>3, <2>1
<1>5. \A g \in Frames : g.kind = "udp" => WordCount(f.n) + WordCount(g.n) <= FifoDepth
  BY DEF Loopable, Packets
<1> QED
  BY <1>1, <1>2, <1>3, <1>4, <1>5, PadRange DEF Loopable

\* With no word of an earlier packet left.
LEMMA HeldWaits ==
  ASSUME Loopable, LineSide, WordInv, Next, Fifo, ~rec_pkt_done, ~tx_req, Held(0, 0, 0, 0)
  PROVE  Held(0, 0, 0, 0)'
<1>1. frame.kind = "udp" => WordCount(frame.n) <= FifoDepth
  BY LoopPacket DEF Packets, LineSide, LineInv
<1>2. /\ 0 + WordCount(frame.n) = WordCount(frame.n) /\ 0 - 0 = 0 /\ 0 + 0 = 0
      /\ 0 = (IF tx_req THEN 1 ELSE 0) /\ (tx_req => 0 >= 1)
  BY SteadyFrame DEF Loopable, LineSide, LineInv, WordCount
<1>3. FifoDepth \in Nat /\ Steady
  BY DEF Loopable
<1>4. Held(0 - 0, 0 + 0, 0, 0)'
  BY <1>1, <1>2, <1>3, HeldStep
<1> QED
  BY <1>2, <1>4

\* The clock in which a packet is announced, at rest or in the last clocks
\* of an echo.
LEMMA LoopAnnounces ==
  ASSUME Loopable, LineSide, Next, TxTakes, EchoRecord, rec_pkt_done', ~rec_pkt_done,
         ~start_en_d0, TxRests', Held(0, 0, 0, 0)',
         \/ owed = <<>> /\ ~tx_done /\ ~tx_done' /\ sent' = 0 /\ onPins' = 0
         \/ ~tx_done' /\ tx_done /\ \E d \in Int, m \in Nat : owed = <<<<d, m>>>>
         \/ \E d \in Int, m \in Nat :
              /\ ~tx_done /\ tx_done' /\ owed = <<<<d, m>>>>
              /\ sent' = m /\ onPins' = 54 + PadTo(m)
  PROVE  Announced'
<1>1. PICK n : n = frame.n
  OBVIOUS
<1>2. frame' = frame /\ id' = id /\ Free("udp", 62 + PadTo(n))'
  BY <1>1, PacketAlone DEF Loopable
<1>3. Free("udp", 62 + PadTo(frame.n))'
  BY <1>1, <1>2
<1>4. Silent'
  BY SilentStep DEF TxRests
<1>5. ~start_en_d0' /\ ~trig_tx_en'
  <2>1. start_en_d0' = rec_pkt_done /\ trig_tx_en' = (start_en_d0 /\ ~start_en_d1)
    BY TxShared
  <2> QED
    BY <2>1, Zenon
<1>6. IF tx_done' THEN \E d \in Int, m \in Nat : Done(d, m)'
      ELSE owed' = <<<<id', frame'.n>>>> /\ sent' = 0 /\ onPins' = 0
  <2> DEFINE left == IF tx_done /\ owed # <<>> THEN Tail(owed) ELSE owed
  <2>1. Len(left) < 3 => owed' = Append(left, <<id, n>>)
    BY <1>1, OwedStep
  <2>2. CASE owed = <<>> /\ ~tx_done /\ ~tx_done' /\ sent' = 0 /\ onPins' = 0
    <3>1. left = <<>> /\ Len(left) < 3
      BY <2>2
    <3>2. owed' = <<<<id, n>>>>
      BY <2>1, <3>1, AppendNone
    <3>3. owed' = <<<<id', frame'.n>>>>
      BY <1>1, <1>2, <3>2
    <3> QED
      BY <2>2, <3>3, Zenon
  <2>3. CASE ~tx_done' /\ tx_done /\ \E d \in Int, m \in Nat : owed = <<<<d, m>>>>
    <3>1. owed # <<>> /\ left = <<>> /\ Len(left) < 3
      BY <2>3
    <3>2. owed' = <<<<id, n>>>>
      BY <2>1, <3>1, AppendNone
    <3>3. sent' = 0 /\ onPins' = 0
      BY <2>3, Zenon DEF EchoRecord, Sent
    <3>4. owed' = <<<<id', frame'.n>>>>
      BY <1>1, <1>2, <3>2
    <3> QED
      BY <2>3, <3>3, <3>4, Zenon
  <2>4. ASSUME NEW d \in Int, NEW m \in Nat, ~tx_done, tx_done', owed = <<<<d, m>>>>,
               sent' = m, onPins' = 54 + PadTo(m)
        PROVE  tx_done' /\ Done(d, m)'
    <3>1. left = <<<<d, m>>>> /\ Len(left) < 3
      BY <2>4
    <3>2. owed' = <<<<d, m>>, <<id, n>>>>
      <4> HIDE DEF left
      <4> QED
        BY <2>1, <3>1, AppendOne
    <3> QED
      BY <1>1, <1>2, <2>4, <3>2 DEF Done
  <2> QED
    BY <2>2, <2>3, <2>4
<1> QED
  BY <1>3, <1>4, <1>5, <1>6, Zenon DEF Announced

\* Nothing owed: nothing comes, or a packet is announced.
LEMMA LoopRests ==
  ASSUME Loopable, LineSide, WordInv, Next, Fifo, TxTakes, EchoRecord,
         ~rec_pkt_done, ~start_en_d0, ~trig_tx_en, TxRests, Silent, Held(0, 0, 0, 0),
         \/ owed = <<>> /\ ~tx_done /\ sent = 0 /\ onPins = 0
         \/ tx_done /\ \E d \in Int, m \in Nat : owed = <<<<d, m>>>>
  PROVE  LoopInv'
<1>1. TxRests' /\ ~tx_done'
  BY TxWaits
<1>2. ~tx_req /\ ~gmii_tx_en /\ gmii_txd = <<>>
  BY DEF Silent
<1>3. Held(0, 0, 0, 0)'
  BY <1>2, HeldWaits
<1>4. (owed = <<>> => sent' = 0 /\ onPins' = 0) /\ (tx_done => sent' = 0 /\ onPins' = 0)
  <2>1. ~udpPin
    BY <1>2, Zenon DEF udpPin
  <2>2. /\ sent' = IF tx_done THEN 0 ELSE sent
        /\ onPins' = IF tx_done THEN 0 ELSE onPins
    BY <2>1, Zenon DEF EchoRecord, Sent
  <2> QED
    BY <2>2, Zenon
<1>5. CASE rec_pkt_done'
  BY <1>1, <1>3, <1>4, <1>5, LoopAnnounces DEF LoopInv
<1>6. CASE ~rec_pkt_done'
  <2>1. Silent'
    BY <1>1, SilentStep DEF TxRests
  <2>2. ~start_en_d0' /\ ~trig_tx_en'
    <3>1. start_en_d0' = rec_pkt_done /\ trig_tx_en' = (start_en_d0 /\ ~start_en_d1)
      BY TxShared
    <3> QED
      BY <3>1, Zenon
  <2>3. owed' = <<>>
    <3>1. PICK left : left = IF tx_done /\ owed # <<>> THEN Tail(owed) ELSE owed
      OBVIOUS
    <3>2. owed' = left
      BY <1>6, <3>1, OwedStep
    <3>3. CASE owed = <<>>
      BY <3>1, <3>2, <3>3
    <3>4. ASSUME NEW d \in Int, NEW m \in Nat, tx_done, owed = <<<<d, m>>>> PROVE owed' = <<>>
      BY <3>1, <3>2, <3>4
    <3> QED
      BY <3>3, <3>4
  <2> QED
    BY <1>1, <1>3, <1>4, <1>6, <2>1, <2>2, <2>3, Zenon DEF LoopInv, Rests
<1> QED
  BY <1>5, <1>6

\* An announced packet's echo starts.
LEMMA LoopStarts ==
  ASSUME Loopable, LineSide, WordInv, Next, Fifo, TxTakes, EthCtrl, EchoRecord, Announced
  PROVE  LoopInv'
<1>1. PICK n, d : n = frame.n /\ d = id
  OBVIOUS
<1>2. /\ rec_pkt_done /\ ~start_en_d0 /\ ~trig_tx_en /\ TxRests /\ Silent /\ Held(0, 0, 0, 0)
      /\ Free("udp", 62 + PadTo(n))
      /\ IF tx_done THEN \E e \in Int, m \in Nat : Done(e, m)
         ELSE owed = <<<<id, frame.n>>>> /\ sent = 0 /\ onPins = 0
  BY <1>1, Zenon DEF Announced
<1>3. frame \in Packets /\ rec_byte_num = n /\ d \in Int /\ Steady
  BY <1>1, <1>2 DEF LineSide, LineInv, StrobeInv, Packets, Loopable
<1>4. /\ n \in 1 .. (LenSize - 1) /\ n \in Nat /\ WordCount(n) \in Nat /\ WordCount(n) <= FifoDepth
      /\ PadTo(n) \in Nat /\ PadTo(n) >= 18 /\ FifoDepth \in Nat
  BY <1>1, <1>3, LoopPacket
<1>5. ~rec_pkt_done'
  <2>1. 62 + PadTo(n) \in Int /\ ~(62 + PadTo(n) <= 1)
    BY <1>4
  <2> QED
    BY <1>2, <1>3, <2>1, PacketEnds
<1>6. TxRests' /\ ~tx_done'
  BY <1>2, TxWaits
<1>7. Phase(-2, n)'
  <2>1. start_en_d0' = rec_pkt_done /\ start_en_d1' = start_en_d0
        /\ trig_tx_en' = (start_en_d0 /\ ~start_en_d1)
    BY TxShared
  <2>2. start_en_d0' /\ ~start_en_d1' /\ ~trig_tx_en'
    BY <1>2, <2>1, Zenon
  <2>3. rec_byte_num' = n
    BY <1>3, <1>5, PacketLength DEF LineSide
  <2> QED
    BY <1>6, <2>2, <2>3, Zenon DEF Phase
<1>8. Pins(-2, d, n)'
  <2>1. Silent'
    BY <1>6, SilentStep DEF TxRests
  <2>2. -2 \in Int /\ -2 < 5
    OBVIOUS
  <2> QED
    BY <1>4, <2>1, <2>2, SilentPins
<1>9. Free("udp", 59 + PadTo(n) - (-2))'
  <2>1. /\ 59 + PadTo(n) - (-2) \in Int /\ 62 + PadTo(n) \in Int
        /\ 59 + PadTo(n) - (-2) <= (62 + PadTo(n)) - 1
    BY <1>4
  <2> QED
    BY <1>2, <1>3, <2>1, FreeNext
<1>10. Held(WordCount(n) - Taken(-2, n), Taken(-2, n), d, n)'
  <2>1. Taken(-2, n) = 0 /\ WordCount(n) - 0 = WordCount(n)
    BY <1>4 DEF Taken
  <2>2. ~tx_req /\ WordCount(frame.n) <= FifoDepth
    BY <1>1, <1>2, <1>4 DEF Silent
  <2>3. Held(WordCount(n), 0, id, n)'
    BY <1>1, <1>2, <1>3, <1>4, <2>2, HeldPacket
  <2>4. id' = d
    <3>1. rec_en
      BY <1>2 DEF WordInv
    <3> QED
      BY <1>1, <1>3, <3>1, SamePacket
  <2> QED
    BY <2>1, <2>3, <2>4
<1>11. owed' = <<<<d, n>>>> /\ sent' = 0 /\ onPins' = 0
  <2>1. PICK left : left = IF tx_done /\ owed # <<>> THEN Tail(owed) ELSE owed
    OBVIOUS
  <2>2. owed' = left
    BY <1>5, <2>1, OwedStep
  <2>3. left = <<<<d, n>>>>
    <3>1. CASE tx_done
      <4>1. PICK e \in Int, m \in Nat : owed = <<<<e, m>>, <<d, n>>>>
        BY <1>1, <1>2, <3>1 DEF Done
      <4>2. owed # <<>> /\ Tail(owed) = <<<<d, n>>>>
        BY <4>1
      <4> QED
        BY <2>1, <3>1, <4>2
    <3>2. CASE ~tx_done
      BY <1>1, <1>2, <2>1, <3>2
    <3> QED
      BY <3>1, <3>2
  <2>4. ~udpPin
    BY <1>2, Zenon DEF udpPin, Silent
  <2>5. /\ sent' = IF tx_done THEN 0 ELSE sent
        /\ onPins' = IF tx_done THEN 0 ELSE onPins
    BY <2>4, Zenon DEF EchoRecord, Sent
  <2> QED
    BY <1>2, <2>2, <2>3, <2>5
<1>12. udp_tx_busy' /\ protocol_sw'
  BY <1>2, Zenon DEF EthCtrl
<1>13. RightBytes(-2, n) = 0 /\ OnPins(-2) = 0 /\ -2 \in Int
  BY DEF RightBytes, OnPins
<1>14. Sends(-2, d, n)'
  BY <1>5, <1>7, <1>8, <1>9, <1>10, <1>11, <1>12, <1>13, Zenon DEF Sends
<1>15. \E f \in Packets, e \in Int, k \in Int : Sends(k, e, f.n)'
  <2>1. PICK f \in Packets : f.n = n
    BY <1>1, <1>3
  <2> QED
    BY <1>3, <1>13, <1>14, <2>1
<1> QED
  BY <1>15, Zenon DEF LoopInv

\* An echo goes on, clock by clock; the only packet that can be announced
\* meanwhile comes when it is done.
LEMMA LoopGoes ==
  ASSUME Loopable, LineSide, WordInv, Next, Fifo, TxTakes, EthCtrl, EchoRecord,
         NEW f \in Packets, NEW n, n = f.n, NEW d \in Int, NEW k \in Int, Sends(k, d, n),
         k <= 58 + PadTo(n)
  PROVE  LoopInv'
<1>1. /\ n \in 1 .. (LenSize - 1) /\ n \in Nat /\ n >= 1 /\ n % 4 # 0
      /\ PadTo(n) \in Nat /\ PadTo(n) >= 18 /\ PadTo(n) >= n
      /\ WordCount(n) \in Nat /\ FifoDepth \in Nat /\ Steady
      /\ WordCount(n) <= FifoDepth
      /\ frame.kind = "udp" => WordCount(n) + WordCount(frame.n) <= FifoDepth
      /\ WordCount(frame.n) \in Nat
  BY LoopPacket, SteadyFrame DEF Loopable, LineSide, LineInv, WordCount
<1>2. /\ ~rec_pkt_done /\ Phase(k, n) /\ Pins(k, d, n) /\ Free("udp", 59 + PadTo(n) - k)
      /\ Held(WordCount(n) - Taken(k, n), Taken(k, n), d, n)
      /\ owed = <<<<d, n>>>> /\ sent = RightBytes(k, n) /\ onPins = OnPins(k)
      /\ udp_tx_busy /\ protocol_sw
  BY Zenon DEF Sends
<1>3. Phase(k + 1, n)'
  BY <1>1, <1>2, PhaseStep
<1>4. /\ ~tx_done
      /\ \/ k \in {-2, -1}
         \/ k \in 0 .. 58 + PadTo(n) /\ ~start_en_d0 /\ ~trig_tx_en /\ TxAt(k) /\ tx_data_num = n
  <2>1. k # 59 + PadTo(n)
    BY <1>1
  <2>2. k = -2 => k \in {-2, -1}
    OBVIOUS
  <2>3. k = -1 => k \in {-2, -1}
    OBVIOUS
  <2> QED
    BY <1>2, <2>1, <2>2, <2>3, Zenon DEF Phase
\* The buffer.
<1>5. PICK h : h = IF tx_req THEN 1 ELSE 0
  OBVIOUS
<1>6. /\ Taken(k + 1, n) = Taken(k, n) + h
      /\ Taken(k, n) \in Nat /\ WordCount(n) - Taken(k, n) \in Nat
      /\ tx_req => Taken(k, n) = (k - 53) \div 4 /\ WordCount(n) - Taken(k, n) >= 1
  BY <1>1, <1>2, <1>5, TakenStep
<1>7. PICK r \in Nat, t \in Nat : r = WordCount(n) - Taken(k, n) /\ t = Taken(k, n)
  BY <1>6
<1>8. /\ frame.kind = "udp" => r + WordCount(frame.n) <= FifoDepth
      /\ tx_req => r >= 1 /\ t = (k - 53) \div 4
      /\ r - h = WordCount(n) - Taken(k + 1, n) /\ t + h = Taken(k + 1, n)
  BY <1>1, <1>5, <1>6, <1>7
<1>9. Held(r, t, d, n)
  BY <1>2, <1>7
<1>10. /\ Held(r - h, t + h, d, n)'
       /\ tx_req => WordOf(tx_data', t, d, n)
       /\ ~tx_req => tx_data' = tx_data
  BY <1>1, <1>2, <1>5, <1>8, <1>9, HeldStep
<1>11. Held(WordCount(n) - Taken(k + 1, n), Taken(k + 1, n), d, n)'
  BY <1>8, <1>10
\* The pins.
<1>12. Pins(k + 1, d, n)'
  <2>1. CASE k \in 0 .. 57 + PadTo(n)
    <3>1. TxAt(k) /\ tx_data_num = n
      BY <1>4, <2>1
    <3>2. TxAt(k + 1)' /\ tx_data_num' = n
      <4>1. k # -2 /\ k # -1
        BY <2>1
      <4>2. ~start_en_d0 /\ k \in Nat /\ k < 58 + PadTo(tx_data_num)
        BY <1>1, <1>4, <2>1, <3>1
      <4> QED
        BY <1>1, <3>1, <4>2, TxForward
    <3>3. tx_req => WordOf(tx_data', (k - 53) \div 4, d, n)
      BY <1>8, <1>10
    <3> QED
      BY <1>1, <1>2, <1>10, <2>1, <3>1, <3>2, <3>3, PinsStep
  <2>2. CASE ~(k \in 0 .. 57 + PadTo(n))
    <3>1. k + 1 \in {-1, 0, 59 + PadTo(n)} /\ k + 1 \in Int
      BY <1>1, <1>4, <2>2
    <3>2. tx_state' = "idle"
      <4>1. TxAt(k + 1)' /\ k + 1 = 0 => tx_state' = "idle"
        BY DEF TxAt
      <4>2. k + 1 \in 0 .. 58 + PadTo(n) => k + 1 = 0
        BY <1>1, <3>1
      <4> QED
        BY <1>3, <4>1, <4>2, Zenon DEF Phase, TxRests
    <3>3. Silent'
      BY <3>2, SilentStep
    <3>4. k + 1 < 5 \/ k + 1 = 59 + PadTo(n)
      BY <3>1
    <3> QED
      BY <1>1, <3>1, <3>3, <3>4, SilentPins
  <2> QED
    BY <2>1, <2>2
<1>13. sent' = RightBytes(k + 1, n) /\ onPins' = OnPins(k + 1)
  BY <1>1, <1>2, <1>4, CountStep
<1>14. CASE ~rec_pkt_done'
  <2>1. owed' = <<<<d, n>>>>
    <3>1. PICK left : left = IF tx_done /\ owed # <<>> THEN Tail(owed) ELSE owed
      OBVIOUS
    <3>2. left = owed
      BY <1>4, <3>1
    <3>3. owed' = left
      BY <1>14, <3>1, OwedStep
    <3> QED
      BY <1>2, <3>2, <3>3
  <2>2. udp_tx_busy' /\ protocol_sw'
    BY <1>2, <1>4, Zenon DEF EthCtrl
  <2>3. Free("udp", 59 + PadTo(n) - (k + 1))'
    <3>1. /\ 59 + PadTo(n) - (k + 1) \in Int /\ 59 + PadTo(n) - k \in Int
          /\ 59 + PadTo(n) - (k + 1) <= (59 + PadTo(n) - k) - 1
      BY <1>1
    <3> QED
      BY <1>1, <1>2, <3>1, FreeNext
  <2>4. Sends(k + 1, d, n)'
    BY <1>3, <1>11, <1>12, <1>13, <1>14, <2>1, <2>2, <2>3, Zenon DEF Sends
  <2>5. k + 1 \in Int
    OBVIOUS
  <2>6. \E g \in Packets, e \in Int, j \in Int : Sends(j, e, g.n)'
    BY <2>4, <2>5
  <2> QED
    BY <2>6, Zenon DEF LoopInv
<1>15. CASE rec_pkt_done'
  <2>1. k = 58 + PadTo(n) /\ k + 1 = 59 + PadTo(n)
    <3>1. 59 + PadTo(n) - k \in Int
      BY <1>1
    <3>2. 59 + PadTo(n) - k <= 1
      BY <1>1, <1>2, <1>15, <3>1, PacketEnds
    <3> QED
      BY <1>1, <3>2
  <2>2. TxRests' /\ tx_done'
    <3>1. k + 1 # -2 /\ k + 1 # -1 /\ ~(k + 1 \in 0 .. 58 + PadTo(n))
      BY <1>1, <2>1
    <3> QED
      BY <1>3, <3>1, Zenon DEF Phase
  <2>3. ~start_en_d0
    <3>1. k # -2 /\ k # -1
      BY <1>1, <2>1
    <3> QED
      BY <1>4, <3>1
  <2>4. sent' = n /\ onPins' = 54 + PadTo(n)
    BY <1>1, <1>13, <2>1 DEF RightBytes, OnPins
  <2>5. Held(0, 0, 0, 0)'
    <3>1. Taken(k, n) = WordCount(n)
      BY <1>1, <2>1 DEF Taken
    <3>2. r = 0 /\ ~tx_req
      BY <1>1, <1>7, <1>8, <3>1
    <3>3. Held(0, 0, 0, 0)
      BY <1>9, <3>2, HeldNone
    <3> QED
      BY <1>2, <3>2, <3>3, HeldWaits
  <2>6. Announced'
    BY <1>1, <1>2, <1>4, <1>15, <2>2, <2>3, <2>4, <2>5, LoopAnnounces
  <2> QED
    BY <2>6, Zenon DEF LoopInv
<1> QED
  BY <1>14, <1>15

LEMMA LoopStep ==
  ASSUME Loopable, LineSide, WordInv, Next, Fifo, TxTakes, EthCtrl, EchoRecord, LoopInv
  PROVE  LoopInv'
<1>1. CASE Rests
  BY <1>1, LoopRests DEF Rests
<1>2. CASE Announced
  BY <1>2, LoopStarts
<1>3. ASSUME NEW f \in Packets, NEW d \in Int, NEW k \in Int, Sends(k, d, f.n)
      PROVE  LoopInv'
  <2>1. PICK n : n = f.n
    OBVIOUS
  <2>2. n \in Nat /\ PadTo(n) \in Nat /\ PadTo(n) >= 18 /\ PadTo(n) >= n
    BY <2>1, LoopPacket
  <2>3. CASE k <= 58 + PadTo(n)
    BY <1>3, <2>1, <2>3, LoopGoes
  <2>4. CASE ~(k <= 58 + PadTo(n))
    <3>1. /\ ~rec_pkt_done /\ Phase(k, n) /\ Pins(k, d, n)
          /\ Held(WordCount(n) - Taken(k, n), Taken(k, n), d, n)
          /\ owed = <<<<d, n>>>>
      BY <1>3, <2>1, Zenon DEF Sends
    <3>2. k # -2 /\ k # -1 /\ ~(k \in 0 .. 58 + PadTo(n))
      BY <2>2, <2>4
    <3>3. k = 59 + PadTo(n) /\ ~start_en_d0 /\ ~trig_tx_en /\ TxRests /\ tx_done
      BY <3>1, <3>2, Zenon DEF Phase
    <3>4. Silent
      BY <2>2, <3>1, <3>3, PinsSilent
    <3>5. Held(0, 0, 0, 0)
      <4>1. Taken(k, n) = WordCount(n) /\ WordCount(n) - WordCount(n) = 0
        BY <2>2, <3>3 DEF Taken, WordCount
      <4>2. Held(0, WordCount(n), d, n)
        BY <3>1, <4>1
      <4> QED
        BY <4>2, HeldNone
    <3> QED
      BY <2>2, <3>1, <3>3, <3>4, <3>5, LoopRests
  <2> QED
    BY <2>3, <2>4
<1> QED
  BY <1>1, <1>2, <1>3, Zenon DEF LoopInv

-----------------------------------------------------------------------------
LEMMA LoopInit == Steady /\ EchoInit => WordInv /\ LoopInv
<1> SUFFICES ASSUME Steady, EchoInit PROVE WordInv /\ LoopInv
  OBVIOUS
<1>1. /\ ~rec_pkt_done /\ rec_en = FALSE /\ rec_data = [i \in 0 .. 3 |-> Junk] /\ words = 0
      /\ ~start_en_d0 /\ ~trig_tx_en /\ ~tx_done /\ tx_req = FALSE /\ gmii_tx_en = FALSE
      /\ gmii_txd = <<>> /\ owed = <<>> /\ sent = 0 /\ onPins = 0 /\ fifo = <<>>
  BY Zenon DEF EchoInit, Init, RxInit, Tx!TxInit
<1>2. WordInv
  <2>1. Junk \in Int \X Int
    BY IdsAssumption DEF Junk
  <2> QED
    BY <1>1, <2>1 DEF WordInv, FourBytes
<1>3. TxRests
  BY Zenon DEF EchoInit, Tx!TxInit, TxRests
<1>4. Silent
  BY <1>1 DEF Silent
<1>5. Held(0, 0, 0, 0)
  <2>1. Coming = 0
    <3>1. words = 0 /\ rec_en = FALSE
      BY <1>1, Zenon
    <3>2. (IF rec_en THEN 1 ELSE 0) = 0
      BY <3>1, Zenon
    <3>3. Coming = words - 0
      BY <3>2, Zenon DEF Coming
    <3> QED
      BY <3>1, <3>3
  <2>2. fifo \in Seq(FourBytes) /\ Len(fifo) = 0
    <3>1. fifo = <<>>
      BY <1>1
    <3> QED
      BY <3>1
  <2>3. \A i \in 1 .. 0 : FALSE
    OBVIOUS
  <2>4. 0 + 0 = 0
    OBVIOUS
  <2> QED
    BY <2>1, <2>2, <2>3, <2>4, Zenon DEF Held
<1> QED
  BY <1>1, <1>2, <1>3, <1>4, <1>5, Zenon DEF LoopInv, Rests

LEMMA LoopSame ==
  ASSUME UNCHANGED echo_vars, WordInv, LoopInv
  PROVE  WordInv' /\ LoopInv'
<1>1. /\ UNCHANGED vars /\ UNCHANGED Tx!tx /\ UNCHANGED ctrl /\ UNCHANGED history
      /\ fifo' = fifo /\ tx_data' = tx_data
  BY DEF echo_vars
<1>2. /\ frame' = frame /\ id' = id /\ pos' = pos /\ gap' = gap
      /\ rec_en' = rec_en /\ rec_data' = rec_data /\ rec_byte_num' = rec_byte_num
      /\ rec_pkt_done' = rec_pkt_done /\ words' = words
  BY <1>1 DEF vars, line, rx
<1>3. /\ tx_state' = tx_state /\ tx_skip' = tx_skip /\ tx_done_t' = tx_done_t
      /\ tx_cnt' = tx_cnt /\ tx_bit_sel' = tx_bit_sel /\ data_sent' = data_sent
      /\ real_add_cnt' = real_add_cnt /\ tx_data_num' = tx_data_num
      /\ start_en_d0' = start_en_d0 /\ start_en_d1' = start_en_d1 /\ trig_tx_en' = trig_tx_en
      /\ tx_req' = tx_req /\ tx_done' = tx_done /\ gmii_tx_en' = gmii_tx_en
      /\ gmii_txd' = gmii_txd
  BY <1>1 DEF Tx!tx
<1>4. /\ udp_tx_busy' = udp_tx_busy /\ protocol_sw' = protocol_sw
      /\ owed' = owed /\ sent' = sent /\ onPins' = onPins
  BY <1>1 DEF ctrl, history
<1>5. WordInv'
  BY <1>2 DEF WordInv, WordOf
<1>6. TxRests' <=> TxRests
  BY <1>3, Zenon DEF TxRests
<1>7. ASSUME NEW k PROVE TxAt(k)' <=> TxAt(k)
  BY <1>3, ZenonT(60) DEF TxAt
<1>8. ASSUME NEW k, NEW n PROVE Phase(k, n)' <=> Phase(k, n)
  BY <1>2, <1>3, <1>6, <1>7, Zenon DEF Phase
<1>9. ASSUME NEW k, NEW d, NEW n PROVE Pins(k, d, n)' <=> Pins(k, d, n)
  BY <1>1, <1>3, ZenonT(60) DEF Pins, WordOf
<1>10. Coming' = Coming
  BY <1>2 DEF Coming
<1>11. ASSUME NEW r, NEW t, NEW d, NEW n PROVE Held(r, t, d, n)' <=> Held(r, t, d, n)
  BY <1>1, <1>2, <1>10, ZenonT(60) DEF Held, WordOf
<1>12. ASSUME NEW k, NEW q PROVE Free(k, q)' <=> Free(k, q)
  BY <1>2 DEF Free, ToStart
<1>13. Silent' <=> Silent
  BY <1>3, Zenon DEF Silent
<1>14. Free("udp", 62 + PadTo(frame.n))' <=> Free("udp", 62 + PadTo(frame.n))
  BY <1>2 DEF Free, ToStart
<1>15. ASSUME NEW d, NEW m PROVE Done(d, m)' <=> Done(d, m)
  BY <1>2, <1>4 DEF Done
<1>16. Rests => Rests'
  BY <1>2, <1>3, <1>4, <1>6, <1>11, <1>13, Zenon DEF Rests
<1>17. Announced => Announced'
  BY <1>2, <1>3, <1>4, <1>6, <1>11, <1>13, <1>14, <1>15, ZenonT(60) DEF Announced
<1>18. ASSUME NEW k, NEW d, NEW n PROVE Sends(k, d, n) => Sends(k, d, n)'
  BY <1>2, <1>4, <1>8, <1>9, <1>11, <1>12, ZenonT(60) DEF Sends
<1>19. LoopInv'
  BY <1>16, <1>17, <1>18, Zenon DEF LoopInv
<1> QED
  BY <1>5, <1>19

LEMMA LoopWhole == Loopable /\ LoopInv => EchoesPackets
<1> SUFFICES ASSUME Loopable, LoopInv PROVE EchoesPackets
  OBVIOUS
<1>1. CASE Rests
  BY <1>1 DEF Rests, EchoesPackets
<1>2. CASE Announced
  <2>1. CASE tx_done
    <3>1. PICK d \in Int, m \in Nat : Done(d, m)
      BY <1>2, <2>1 DEF Announced
    <3>2. Len(owed) = 2 /\ owed # <<>> /\ Head(owed)[2] = m
      BY <3>1 DEF Done
    <3>3. sent = m /\ onPins = 54 + PadTo(sent) /\ PadTo(sent) \in Nat
      BY <3>1, PadRange DEF Done
    <3> QED
      BY <3>2, <3>3 DEF EchoesPackets
  <2>2. CASE ~tx_done
    <3>1. Len(owed) = 1
      BY <1>2, <2>2 DEF Announced
    <3> QED
      BY <2>2, <3>1 DEF EchoesPackets
  <2> QED
    BY <2>1, <2>2
<1>3. ASSUME NEW f \in Packets, NEW d \in Int, NEW k \in Int, Sends(k, d, f.n)
      PROVE  EchoesPackets
  <2>1. PICK n : n = f.n
    OBVIOUS
  <2>2. n \in Nat /\ PadTo(n) \in Nat /\ PadTo(n) >= 18
    BY <2>1, LoopPacket
  <2>3. /\ Phase(k, n) /\ owed = <<<<d, n>>>> /\ sent = RightBytes(k, n) /\ onPins = OnPins(k)
    BY <1>3, <2>1, Zenon DEF Sends
  <2>4. Len(owed) = 1 /\ owed # <<>> /\ Head(owed)[2] = n
    BY <2>3
  <2>5. tx_done => k = 59 + PadTo(n)
    BY <2>3, Zenon DEF Phase
  <2>6. tx_done => sent = n /\ onPins = 54 + PadTo(n)
    <3>1. PadTo(n) >= n
      BY <2>2, PadRange
    <3> QED
      BY <2>2, <2>3, <2>5, <3>1 DEF RightBytes, OnPins
  <2> QED
    BY <2>2, <2>4, <2>6 DEF EchoesPackets
<1> QED
  BY <1>1, <1>2, <1>3, Zenon DEF LoopInv

\* Every packet is echoed once, whole, in its own order and before the packet
\* after the next is there, although nothing queues them: for every set of
\* whole frames in which the packets' lengths differ by no more than 4 and
\* none is a multiple of 4, in every order, with requests between them and
\* every pause that Ethernet allows.
THEOREM EchoesWhole == Loopable => (EchoSpec => []EchoesPackets)
<1> SUFFICES ASSUME Loopable PROVE EchoSpec => []EchoesPackets
  OBVIOUS
<1> DEFINE Inv == WholeInv /\ WordInv /\ LoopInv
<1>1. Steady
  BY DEF Loopable
<1>2. EchoInit => Inv
  BY <1>1, WholeInit, LoopInit
<1>3. Inv /\ [EchoNext]_echo_vars => Inv'
  <2> SUFFICES ASSUME Inv, [EchoNext]_echo_vars PROVE Inv'
    OBVIOUS
  <2>1. WholeInv'
    BY <1>1, WholeStep
  <2>2. WordInv' /\ LoopInv'
    <3>1. CASE EchoNext
      <4>1. Next /\ Fifo /\ TxTakes /\ EthCtrl /\ EchoRecord
        BY <3>1 DEF EchoNext, TxTakes
      <4>2. LineSide /\ LineSide'
        BY <2>1 DEF WholeInv
      <4> QED
        BY <1>1, <4>1, <4>2, WordStep, LoopStep
    <3>2. CASE UNCHANGED echo_vars
      BY <3>2, LoopSame
    <3> QED
      BY <3>1, <3>2
  <2> QED
    BY <2>1, <2>2
<1>4. Inv => EchoesPackets
  BY LoopWhole
<1> QED
  BY <1>2, <1>3, <1>4, PTL DEF EchoSpec

=============================================================================
