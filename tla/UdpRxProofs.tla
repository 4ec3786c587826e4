------------------------------ MODULE UdpRxProofs ------------------------------
(***************************************************************************)
(* What udp_rx does with any sequence of frames, for every set of frames,  *)
(* length of the length registers and pause of two clocks or more.         *)
(***************************************************************************)
EXTENDS UdpRx, TLAPS

-----------------------------------------------------------------------------
\* The index of a payload's last byte, as the receiver computes it.
LastByte == (data_byte_num - 1) % LenSize

States == {"idle", "preamble", "eth", "ip", "udp", "data", "end"}

\* The counters agree with each other in every state: bytes are counted only
\* in the data state, never past the last one, and the words written since
\* the last packet are those of the bytes counted.
LenInv ==
  /\ TypeOK
  /\ data_cnt <= LastByte
  /\ data_cnt # 0 => cur_state = "data" /\ ~skip_en
  /\ rec_en_cnt = data_cnt % 4
  /\ rec_pkt_done \in BOOLEAN
  /\ IF rec_pkt_done
       THEN data_cnt = 0 /\ (rec_byte_num # 0 => words = WordCount(rec_byte_num))
       ELSE words = data_cnt \div 4

LEMMA LastByteRange ==
  ASSUME NEW n \in 0 .. (LenSize - 1)
  PROVE  /\ (n - 1) % LenSize \in 0 .. (LenSize - 1)
         /\ n # 0 => (n - 1) % LenSize = n - 1
<1>1. CASE n = 0
  <2>1. (n - 1) % LenSize = LenSize - 1
    BY <1>1, LenSizeAssumption, Z3
  <2> QED
    BY <1>1, <2>1, LenSizeAssumption
<1>2. CASE n # 0
  <2>1. (n - 1) % LenSize = n - 1
    BY <1>2, LenSizeAssumption, Z3
  <2> QED
    BY <1>2, <2>1, LenSizeAssumption
<1> QED
  BY <1>1, <1>2

LEMMA LenInit == Init => LenInv
<1> SUFFICES ASSUME Init PROVE LenInv
  OBVIOUS
<1>1. skip_en \in BOOLEAN /\ error_en \in BOOLEAN /\ rec_pkt_done \in BOOLEAN /\ ~rec_pkt_done
  BY Zenon DEF Init, RxInit
<1>2. /\ cur_state = "idle" /\ cnt = 0 /\ data_cnt = 0 /\ rec_en_cnt = 0
      /\ data_byte_num = 0 /\ rec_byte_num = 0 /\ words = 0
  BY Zenon DEF Init, RxInit
<1>3. TypeOK
  BY <1>1, <1>2, LenSizeAssumption DEF TypeOK
<1>4. LastByte \in 0 .. (LenSize - 1)
  BY <1>3, LastByteRange DEF TypeOK, LastByte
<1> QED
  BY <1>1, <1>2, <1>3, <1>4, LenSizeAssumption DEF LenInv

\* A clock that takes no payload byte keeps the counters, and the word count
\* starts anew after a packet.
LEMMA QuietStep ==
  ASSUME LenInv, Record, NoData,
         cur_state' \in States, skip_en' \in BOOLEAN, error_en' \in BOOLEAN,
         cnt' \in 0 .. 31, data_byte_num' \in Lengths,
         data_cnt # 0 => cur_state' = "data" /\ ~skip_en' /\ data_byte_num' = data_byte_num
  PROVE  LenInv'
<1>1. /\ data_cnt' = data_cnt /\ rec_en_cnt' = rec_en_cnt /\ rec_byte_num' = rec_byte_num
      /\ ~rec_pkt_done' /\ rec_pkt_done' \in BOOLEAN /\ ~rec_en'
  BY Zenon DEF NoData
<1>2. words' = IF rec_pkt_done THEN 0 ELSE words
  <2>1. words' = (IF rec_pkt_done THEN 0 ELSE words) + 0
    BY <1>1, Zenon DEF Record
  <2>2. data_cnt \in Nat /\ (~rec_pkt_done => words = data_cnt \div 4)
    BY LenSizeAssumption DEF LenInv, TypeOK
  <2> QED
    BY <2>1, <2>2
<1>3. words' = data_cnt' \div 4
  BY <1>1, <1>2 DEF LenInv
<1>4. TypeOK'
  BY <1>1 DEF LenInv, TypeOK, States, Lengths
<1>5. data_cnt' <= LastByte'
  <2>1. LastByte' \in 0 .. (LenSize - 1)
    BY LastByteRange DEF LastByte, Lengths
  <2>2. data_cnt # 0 => LastByte' = LastByte
    BY DEF LastByte
  <2> QED
    BY <1>1, <2>1, <2>2, LenSizeAssumption DEF LenInv
<1> QED
  BY <1>1, <1>3, <1>4, <1>5 DEF LenInv

\* A payload byte.
LEMMA DataStep ==
  ASSUME LenInv, Record, RxData, cur_state' = next_state
  PROVE  LenInv'
<1> DEFINE last == data_cnt = LastByte
<1>1. /\ cur_state' = "data" /\ data_byte_num' = data_byte_num
      /\ skip_en' = last /\ error_en' = FALSE /\ cnt' = cnt
      /\ data_cnt' = (IF last THEN 0 ELSE (data_cnt + 1) % LenSize)
      /\ rec_en_cnt' = (IF last THEN 0 ELSE (rec_en_cnt + 1) % 4)
      /\ rec_en' = (last \/ rec_en_cnt = 3)
      /\ rec_pkt_done' = last
      /\ rec_byte_num' = (IF last THEN data_byte_num ELSE rec_byte_num)
  BY Zenon DEF RxData, Go, KeepLengths, LastByte
<1>2. /\ data_cnt \in 0 .. (LenSize - 1) /\ data_byte_num \in 0 .. (LenSize - 1)
      /\ rec_en_cnt = data_cnt % 4 /\ data_cnt <= LastByte
      /\ cnt \in 0 .. 31 /\ rec_byte_num \in 0 .. (LenSize - 1)
      /\ LastByte \in 0 .. (LenSize - 1)
      /\ data_byte_num # 0 => LastByte = data_byte_num - 1
  BY LastByteRange DEF LenInv, TypeOK, LastByte
<1>3. words' = data_cnt \div 4 + (IF last \/ rec_en_cnt = 3 THEN 1 ELSE 0)
  <2>1. (IF rec_pkt_done THEN 0 ELSE words) = data_cnt \div 4
    BY DEF LenInv
  <2>2. words' = (IF rec_pkt_done THEN 0 ELSE words) + (IF last \/ rec_en_cnt = 3 THEN 1 ELSE 0)
    BY <1>1, Zenon DEF Record
  <2> QED
    BY <2>1, <2>2
<1>4. LastByte' = LastByte
  BY <1>1 DEF LastByte
<1>5. CASE last
  <2>1. /\ skip_en' /\ skip_en' \in BOOLEAN /\ error_en' \in BOOLEAN
        /\ rec_pkt_done' /\ rec_pkt_done' \in BOOLEAN
    BY <1>1, <1>5, Zenon
  <2>2. data_cnt' = 0 /\ rec_en_cnt' = 0 /\ rec_byte_num' = data_byte_num
    BY <1>1, <1>5, Zenon
  <2>3. TypeOK'
    BY <1>1, <1>2, <2>1, <2>2, LenSizeAssumption DEF TypeOK
  <2>4. data_byte_num # 0 => words' = WordCount(data_byte_num)
    BY <1>2, <1>3, <1>5, LenSizeAssumption DEF WordCount
  <2> QED
    BY <1>2, <1>4, <2>1, <2>2, <2>3, <2>4, LenSizeAssumption DEF LenInv, WordCount
<1>6. CASE ~last
  <2>1. /\ ~skip_en' /\ skip_en' \in BOOLEAN /\ error_en' \in BOOLEAN
        /\ ~rec_pkt_done' /\ rec_pkt_done' \in BOOLEAN
    BY <1>1, <1>6, Zenon
  <2>2. /\ data_cnt' = (data_cnt + 1) % LenSize /\ rec_en_cnt' = (rec_en_cnt + 1) % 4
        /\ rec_byte_num' = rec_byte_num
    BY <1>1, <1>6, Zenon
  <2>3. data_cnt + 1 \in 0 .. (LenSize - 1)
    BY <1>2, <1>6, LenSizeAssumption
  <2>4. data_cnt' = data_cnt + 1
    BY <2>2, <2>3, LenSizeAssumption, Z3
  <2>5. rec_en_cnt' = data_cnt' % 4 /\ words' = data_cnt' \div 4
    BY <1>2, <1>3, <1>6, <2>2, <2>4, LenSizeAssumption
  <2>6. rec_en_cnt' \in 0 .. 3
    BY <1>2, <2>2
  <2>7. TypeOK'
    BY <1>1, <1>2, <2>1, <2>2, <2>3, <2>4, <2>6, LenSizeAssumption DEF TypeOK
  <2> QED
    BY <1>1, <1>2, <1>4, <1>6, <2>1, <2>3, <2>4, <2>5, <2>7, LenSizeAssumption DEF LenInv
<1> QED
  BY <1>5, <1>6

-----------------------------------------------------------------------------
\* The line: a frame's bytes are counted to its end, and a pause has none.
LineInv ==
  /\ frame \in Frames /\ id \in 0 .. (Ids - 1)
  /\ gap \in 0 .. MinGap
  /\ pos \in 0 .. (7 + frame.size) /\ (gap > 0 => pos = 0)

LEMMA FrameType ==
  ASSUME NEW f \in Frames
  PROVE  /\ f.kind \in {"udp", "arp", "mac", "type", "ip"}
         /\ f.ihl \in {4 * k : k \in 5 .. 15} /\ f.ihl \in 20 .. 60
         /\ f.n \in 0 .. (LenSize - 1) /\ f.size \in Nat /\ f.bad \in 0 .. 8
<1>1. f \in [kind : {"udp", "arp", "mac", "type", "ip"}, ihl : {4 * k : k \in 5 .. 15},
             n : 0 .. (LenSize - 1), size : Nat, bad : 0 .. 8]
  BY FramesAssumption
<1> QED
  BY <1>1

LEMMA LineInit == Init => LineInv
  BY FrameType, GapAssumption, IdsAssumption DEF Init, Line!Init, LineInv

LEMMA LineStep == LineInv /\ Line!Next => LineInv'
<1> SUFFICES ASSUME LineInv, Line!Next PROVE LineInv'
  OBVIOUS
<1>0. frame.size \in Nat
  BY FrameType DEF LineInv
<1>1. CASE Line!Pause
  BY <1>0, <1>1, GapAssumption DEF LineInv, Line!Pause
<1>2. CASE Line!Byte
  BY <1>0, <1>2, GapAssumption DEF LineInv, Line!Byte
<1>3. ASSUME NEW f \in Frames, Line!Arrive(f) PROVE LineInv'
  <2>1. f.size \in Nat
    BY FrameType
  <2>2. (id + 1) % Ids \in 0 .. (Ids - 1)
    BY IdsAssumption, Z3 DEF LineInv
  <2> QED
    BY <1>3, <2>1, <2>2, GapAssumption DEF LineInv, Line!Arrive
<1> QED
  BY <1>1, <1>2, <1>3 DEF Line!Next

-----------------------------------------------------------------------------
\* The state machine's next state is a state, and while payload is counted it
\* is the data state.
LEMMA NextStateType ==
  ASSUME LenInv
  PROVE  /\ next_state \in States
         /\ data_cnt # 0 => next_state = "data"
  BY DEF LenInv, TypeOK, next_state, States

LEMMA CheckType == ASSUME NEW p \in BOOLEAN PROVE Check(p) \subseteq BOOLEAN
  BY Zenon DEF Check

\* Every clock keeps the counters in agreement.
LEMMA LenStep ==
  ASSUME LineInv, LenInv, Receive, Record
  PROVE  LenInv'
<1>0. /\ cur_state' = next_state /\ next_state \in States
      /\ data_cnt # 0 => next_state = "data"
  BY NextStateType DEF Receive
<1>1. cnt \in 0 .. 31 /\ data_byte_num \in Lengths
  BY DEF LenInv, TypeOK, Lengths
<1>2. ASSUME NEW s \in BOOLEAN, NEW e \in BOOLEAN, NEW c \in 0 .. 31, Go(s, e, c),
             NoData, data_byte_num' \in Lengths,
             data_cnt # 0 => ~s /\ data_byte_num' = data_byte_num
      PROVE  LenInv'
  <2>1. skip_en' = s /\ error_en' = e /\ cnt' = c
    BY <1>2, Zenon DEF Go
  <2>2. skip_en' \in BOOLEAN /\ error_en' \in BOOLEAN /\ cnt' \in 0 .. 31
    BY <1>2, <2>1
  <2>3. data_cnt # 0 => cur_state' = "data" /\ ~skip_en' /\ data_byte_num' = data_byte_num
    BY <1>0, <1>2, <2>1, Zenon
  <2>4. cur_state' \in States
    BY <1>0
  <2> QED
    BY <1>2, <2>2, <2>3, <2>4, QuietStep
<1>3. CASE Idle
  <2>1. PICK b : Go(dv /\ b = "55", FALSE, cnt)
    BY <1>3, Zenon DEF Idle
  <2>2. data_cnt = 0 /\ NoData /\ data_byte_num' = data_byte_num
    BY <1>0, <1>3 DEF Idle, KeepLengths
  <2> QED
    BY <1>1, <1>2, <2>1, <2>2
<1>4. CASE Preamble
  <2>1. skip_en' \in BOOLEAN /\ error_en' \in BOOLEAN
    BY <1>4, Zenon DEF Preamble, Go
  <2>5. cnt' \in 0 .. 31
    BY <1>1, <1>4 DEF Preamble, Go
  <2>2. data_cnt = 0 /\ NoData /\ data_byte_num' = data_byte_num
    BY <1>0, <1>4 DEF Preamble, KeepLengths
  <2> QED
    BY <1>0, <1>1, <2>1, <2>2, <2>5, QuietStep
<1>5. CASE EthHead
  <2>1. skip_en' \in BOOLEAN /\ error_en' \in BOOLEAN
    <3>1. CASE cnt = 13
      <4>1. PICK ok \in Check(frame.kind \notin {"mac", "type", "arp"}) : Go(ok, ~ok, 0)
        BY <1>5, <3>1, Zenon DEF EthHead
      <4>2. ok \in BOOLEAN
        BY CheckType
      <4> QED
        BY <4>1, <4>2, Zenon DEF Go
    <3>2. CASE cnt # 13
      BY <1>5, <3>2, Zenon DEF EthHead, Go
    <3> QED
      BY <3>1, <3>2
  <2>5. cnt' \in 0 .. 31
    BY <1>1, <1>5 DEF EthHead, Go
  <2>2. data_cnt = 0 /\ NoData /\ data_byte_num' = data_byte_num
    BY <1>0, <1>5 DEF EthHead, KeepLengths
  <2> QED
    BY <1>0, <1>1, <2>1, <2>2, <2>5, QuietStep
<1>6. CASE IpHead
  <2>1. skip_en' \in BOOLEAN /\ error_en' \in BOOLEAN
    BY <1>6, Zenon DEF IpHead, Go, Check
  <2>5. cnt' \in 0 .. 31
    BY <1>1, <1>6 DEF IpHead, Go
  <2>2. data_cnt = 0 /\ NoData /\ data_byte_num' = data_byte_num
    BY <1>0, <1>6 DEF IpHead
  <2> QED
    BY <1>0, <1>1, <2>1, <2>2, <2>5, QuietStep
<1>7. CASE UdpHead
  <2>1. skip_en' \in BOOLEAN /\ error_en' \in BOOLEAN
    BY <1>7, Zenon DEF UdpHead, Go
  <2>5. cnt' \in 0 .. 31
    BY <1>1, <1>7 DEF UdpHead, Go
  <2>2. data_cnt = 0 /\ NoData
    BY <1>0, <1>7 DEF UdpHead
  <2>3. frame.n \in Lengths
    BY FrameType DEF LineInv, Lengths
  <2>4. data_byte_num' \in Lengths
    BY <1>1, <1>7, <2>3 DEF UdpHead
  <2> QED
    BY <1>0, <1>1, <2>1, <2>2, <2>4, <2>5, QuietStep
<1>8. CASE RxData
  BY <1>0, <1>8, DataStep
<1>9. CASE Wait
  <2>1. Go(FALSE, FALSE, cnt) /\ NoData /\ data_byte_num' = data_byte_num
    BY <1>9 DEF Wait, Quiet, KeepLengths
  <2> QED
    BY <1>1, <1>2, <2>1
<1>10. CASE End
  <2>1. Go(~dv /\ ~skip_en, FALSE, cnt) /\ NoData /\ data_byte_num' = data_byte_num
    BY <1>10 DEF End, KeepLengths
  <2>2. data_cnt = 0
    BY <1>0, <1>10 DEF End
  <2> QED
    BY <1>1, <1>2, <2>1, <2>2
<1> QED
  BY <1>3, <1>4, <1>5, <1>6, <1>7, <1>8, <1>9, <1>10 DEF Receive

LEMMA LenNext == LineInv /\ LenInv /\ [Next]_vars => LineInv' /\ LenInv'
<1>1. ASSUME LineInv, LenInv, Next PROVE LineInv' /\ LenInv'
  BY <1>1, LineStep, LenStep DEF Next
<1>2. ASSUME LineInv, LenInv, UNCHANGED vars PROVE LineInv' /\ LenInv'
  BY <1>2 DEF vars, line, rx, LineInv, LenInv, TypeOK, LastByte
<1> QED
  BY <1>1, <1>2

\* The counters agree in every reachable state.
THEOREM CountersAgree == Spec => [](LineInv /\ LenInv)
  BY LineInit, LenInit, LenNext, PTL DEF Spec

\* Whatever frames come, whole, cut short, damaged or run together, udp_rx
\* announces a packet with exactly as many words as its length needs, so the
\* buffer udp_tx empties by that length stays in step: for every set of
\* frames and every width of the length registers.
THEOREM LengthsTrue == Spec => []WordsMatchLength
<1>1. LenInv => WordsMatchLength
  BY DEF LenInv, WordsMatchLength
<1> QED
  BY <1>1, CountersAgree, PTL

-----------------------------------------------------------------------------
\* Which state is to read byte p of an intact frame f, with which count, and
\* how many payload words have been written before it.
StateAt(f, p) ==
  IF p = 0 THEN "idle"
  ELSE IF p <= 7 THEN "preamble"
  ELSE IF p <= 21 THEN "eth"
  ELSE IF f.kind \in {"mac", "type", "arp"} \/ (f.kind = "ip" /\ p >= 42) THEN "end"
  ELSE IF p <= 21 + f.ihl THEN "ip"
  ELSE IF p <= 29 + f.ihl THEN "udp"
  ELSE IF p <= 29 + f.ihl + f.n THEN "data" ELSE "end"
CntAt(f, p) ==
  CASE StateAt(f, p) = "preamble" -> p - 1
    [] StateAt(f, p) = "eth" -> p - 8
    [] StateAt(f, p) = "ip" -> p - 22
    [] StateAt(f, p) = "udp" -> p - 22 - f.ihl
    [] OTHER -> 0
WordsAt(f, p) ==
  IF f.kind # "udp" \/ p <= 29 + f.ihl THEN 0
  ELSE IF p <= 29 + f.ihl + f.n THEN (p - 30 - f.ihl) \div 4 ELSE WordCount(f.n)

\* The receiver is where byte p finds it right.
Reads(p) ==
  /\ next_state = StateAt(frame, p) /\ cnt = CntAt(frame, p)
  /\ p > 0 => right = WordsAt(frame, p)
  /\ next_state = "ip" /\ cnt > 0 => ip_head_byte_num = frame.ihl
  /\ next_state = "data" =>
       /\ data_byte_num = frame.n /\ data_cnt = p - 30 - frame.ihl
       /\ \A i \in 0 .. 3 : i < rec_en_cnt => rec_data[i] = <<id, 4 * (data_cnt \div 4) + i>>

\* As long as all frames have been intact, the receiver reads each byte in
\* its state; and it is done with the frame, or leaving it, in the pause.
GoodInv ==
  /\ rec_data = [i \in 0 .. 3 |-> rec_data[i]]
  /\ right \in Nat
  /\ right # Spoilt =>
       IF gap = 0 THEN Reads(pos) /\ (pos > 0 => Intact(frame))
       ELSE /\ Intact(frame) /\ right = Expected(frame) /\ cnt = 0
            /\ \/ next_state = "end" /\ (gap = 1 \/ ~skip_en)
               \/ next_state = "idle" /\ gap > 1

\* The frames this receiver can read to the end: cnt, five bits wide, counts
\* an IP header of up to 32 bytes, and a packet has at least one byte.
Readable == \A f \in Frames : Intact(f) /\ f.kind = "udp" => f.ihl <= 32 /\ f.n >= 1

LEMMA Recorded ==
  ASSUME Record, right' # Spoilt
  PROVE  /\ right # Spoilt /\ Intact(frame)
         /\ gap = 0 /\ pos = 0 => right' = 0
         /\ ~(gap = 0 /\ pos = 0) /\ ~rec_en' => right' = right
         /\ ~(gap = 0 /\ pos = 0) /\ rec_en' /\ WordRight(right, frame.n) => right' = right + 1
  BY Zenon DEF Record, dv

\* An intact frame, as far as this receiver is concerned.
LEMMA FrameFacts ==
  ASSUME Readable, LineInv, Intact(frame)
  PROVE  /\ frame.kind \in {"udp", "arp", "mac", "type", "ip"}
         /\ frame.ihl \in 20 .. 60 /\ frame.n \in Nat /\ frame.size \in Nat
         /\ frame.n <= LenSize - 1
         /\ frame.bad = 0 /\ frame.size >= 22 + frame.ihl + frame.n
         /\ frame.kind = "udp" => frame.ihl <= 32 /\ frame.n >= 1
         /\ pos \in Nat /\ pos <= 7 + frame.size
<1>1. /\ frame.kind \in {"udp", "arp", "mac", "type", "ip"}
      /\ frame.ihl \in 20 .. 60 /\ frame.n \in 0 .. (LenSize - 1) /\ frame.size \in Nat
  BY FrameType DEF LineInv
<1>2. frame.bad = 0 /\ frame.size >= 14 + frame.ihl + 8 + frame.n
  BY DEF Intact
<1>3. frame.kind = "udp" => frame.ihl <= 32 /\ frame.n >= 1
  BY DEF Readable, LineInv
<1> QED
  BY <1>1, <1>2, <1>3, LenSizeAssumption DEF LineInv

\* The line shows the byte the state expects.
LEMMA FieldIs ==
  ASSUME Readable, LineInv, Intact(frame), StateAt(frame, pos) \in {"eth", "ip", "udp"}
  PROVE  Line!Field = <<StateAt(frame, pos), CntAt(frame, pos)>>
  BY FrameFacts DEF StateAt, CntAt, Line!Field

LEMMA ReadIdle ==
  ASSUME Readable, LineInv, GoodInv, gap = 0, pos = 0, Receive, Record, right' # Spoilt,
         UNCHANGED <<frame, id>>, NEW p, p = pos + 1
  PROVE  Reads(p)'
<1>1. next_state = "idle" /\ cnt = 0 /\ Intact(frame) /\ right' = 0
  BY Recorded DEF GoodInv, Reads, StateAt, CntAt
<1>2. PICK b \in Line!gmii_rxd : Go(dv /\ b = "55", FALSE, cnt)
  BY <1>1, Zenon DEF Receive, Idle, Preamble, EthHead, IpHead, UdpHead, RxData, Wait, End
<1>3. b = "55"
  BY <1>1, FrameFacts DEF Line!gmii_rxd
<1>4. skip_en' /\ cnt' = 0 /\ cur_state' = "idle"
  BY <1>1, <1>2, <1>3, Zenon DEF Go, dv, Receive
<1>5. next_state' = "preamble"
  BY <1>4 DEF next_state
<1>6. StateAt(frame, 1) = "preamble" /\ CntAt(frame, 1) = 0 /\ WordsAt(frame, 1) = 0
  BY <1>1, FrameFacts DEF StateAt, CntAt, WordsAt
<1> QED
  BY <1>1, <1>4, <1>5, <1>6 DEF Reads

LEMMA ReadPreamble ==
  ASSUME Readable, LineInv, GoodInv, gap = 0, pos \in 1 .. 7, Receive, Record,
         right' # Spoilt, UNCHANGED <<frame, id>>, NEW p, p = pos + 1
  PROVE  Reads(p)'
<1>1. /\ next_state = "preamble" /\ cnt = pos - 1 /\ Intact(frame)
      /\ right = WordsAt(frame, pos)
  BY Recorded DEF GoodInv, Reads, StateAt, CntAt
<1>2. Preamble
  BY <1>1, Zenon DEF Receive, Idle, EthHead, IpHead, UdpHead, RxData, Wait, End, dv
<1>3. PICK b \in Line!gmii_rxd :
        IF cnt < 6 THEN Go(FALSE, b # "55", cnt + 1)
        ELSE IF cnt = 6 THEN Go(b = "d5", b # "d5", 0)
        ELSE Go(FALSE, FALSE, (cnt + 1) % 32)
  BY <1>2, Zenon DEF Preamble
<1>4. b = IF pos = 7 THEN "d5" ELSE "55"
  BY <1>1, FrameFacts DEF Line!gmii_rxd
<1>5. cur_state' = "preamble" /\ ~rec_en'
  BY <1>1, <1>2, Zenon DEF Receive, Preamble, NoData
<1>6. right' = right
  BY <1>5, Recorded
<1>7. CASE pos < 7
  <2>1. cnt < 6
    BY <1>1, <1>7
  <2>2. Go(FALSE, b # "55", cnt + 1)
    BY <1>3, <2>1, Zenon
  <2>3. b = "55"
    BY <1>4, <1>7
  <2>4. ~skip_en' /\ ~error_en' /\ cnt' = cnt + 1
    BY <2>2, <2>3, Zenon DEF Go
  <2>5. next_state' = "preamble"
    BY <1>5, <2>4 DEF next_state
  <2> QED
    BY <1>1, <1>6, <1>7, <2>4, <2>5, FrameFacts DEF Reads, StateAt, CntAt, WordsAt
<1>8. CASE pos = 7
  <2>1. cnt = 6 /\ b = "d5"
    BY <1>1, <1>4, <1>8
  <2>2. Go(b = "d5", b # "d5", 0)
    BY <1>3, <2>1
  <2>3. skip_en' /\ cnt' = 0
    BY <2>1, <2>2, Zenon DEF Go
  <2>4. next_state' = "eth"
    BY <1>5, <2>3 DEF next_state
  <2> QED
    BY <1>1, <1>6, <1>8, <2>3, <2>4, FrameFacts DEF Reads, StateAt, CntAt, WordsAt
<1> QED
  BY <1>7, <1>8

LEMMA ReadEth ==
  ASSUME Readable, LineInv, GoodInv, gap = 0, pos \in 8 .. 21, Receive, Record,
         right' # Spoilt, UNCHANGED <<frame, id>>, NEW p, p = pos + 1
  PROVE  Reads(p)'
<1>1. /\ next_state = "eth" /\ cnt = pos - 8 /\ Intact(frame)
      /\ right = WordsAt(frame, pos) /\ StateAt(frame, pos) = "eth"
  BY Recorded DEF GoodInv, Reads, StateAt, CntAt
<1>2. EthHead
  BY <1>1, Zenon DEF Receive, Idle, Preamble, IpHead, UdpHead, RxData, Wait, End, dv
<1>3. cur_state' = "eth" /\ ~rec_en'
  BY <1>1, <1>2, Zenon DEF Receive, EthHead, NoData
<1>4. right' = right
  BY <1>1, <1>3, Recorded
<1>5. CASE pos < 21
  <2>1. cnt # 13 /\ (cnt + 1) % 32 = cnt + 1
    BY <1>1, <1>5
  <2>2. ~skip_en' /\ ~error_en' /\ cnt' = cnt + 1
    BY <1>2, <2>1, Zenon DEF EthHead, Go
  <2>3. next_state' = "eth"
    BY <1>3, <2>2 DEF next_state
  <2> QED
    BY <1>1, <1>4, <1>5, <2>2, <2>3, FrameFacts DEF Reads, StateAt, CntAt, WordsAt
<1>6. CASE pos = 21
  <2> DEFINE ours == frame.kind \notin {"mac", "type", "arp"}
  <2>1. cnt = 13 /\ InStep
    BY <1>1, <1>6, FieldIs DEF InStep, CntAt
  <2>2. Go(ours, ~ours, 0)
    BY <1>2, <2>1, Zenon DEF EthHead, Check
  <2>3. cnt' = 0 /\ (ours => skip_en') /\ (~ours => ~skip_en' /\ error_en')
    BY <2>2, Zenon DEF Go
  <2>4. next_state' = IF ours THEN "ip" ELSE "end"
    BY <1>3, <2>3 DEF next_state
  <2> QED
    BY <1>1, <1>4, <1>6, <2>3, <2>4, FrameFacts DEF Reads, StateAt, CntAt, WordsAt
<1> QED
  BY <1>5, <1>6

LEMMA ReadIp ==
  ASSUME Readable, LineInv, GoodInv, gap = 0, pos > 21, StateAt(frame, pos) = "ip", Receive,
         Record, right' # Spoilt, UNCHANGED <<frame, id>>, NEW p, p = pos + 1
  PROVE  Reads(p)'
<1>0. /\ pos \in Nat /\ frame.ihl \in 20 .. 60 /\ frame.n \in Nat /\ Intact(frame)
      /\ frame.kind = "udp" => frame.ihl <= 32 /\ frame.n >= 1
      /\ frame.kind \in {"udp", "ip"} /\ pos <= 21 + frame.ihl
      /\ frame.kind = "ip" => pos <= 41
  BY FrameFacts, Recorded DEF StateAt
<1>1. /\ next_state = "ip" /\ cnt = pos - 22
      /\ right = WordsAt(frame, pos) /\ InStep
      /\ cnt > 0 => ip_head_byte_num = frame.ihl
  BY <1>0, Recorded, FieldIs DEF GoodInv, Reads, CntAt, InStep
<1>2. IpHead
  BY <1>1, Zenon DEF Receive, Idle, Preamble, EthHead, UdpHead, RxData, Wait, End, dv
<1>3. cur_state' = "ip" /\ ~rec_en'
  BY <1>1, <1>2, Zenon DEF Receive, IpHead, NoData
<1>4. right' = right
  BY <1>0, <1>3, Recorded
<1>5. ip_head_byte_num' = frame.ihl
  <2>1. CASE cnt = 0
    BY <1>1, <1>2, <2>1, Zenon DEF IpHead
  <2>2. CASE cnt # 0
    <3>1. ip_head_byte_num' = ip_head_byte_num
      BY <1>2, <2>2, Zenon DEF IpHead
    <3> QED
      BY <1>0, <1>1, <2>2, <3>1
  <2> QED
    BY <2>1, <2>2
<1>6. right' = 0 /\ WordsAt(frame, pos + 1) = 0
  BY <1>0, <1>1, <1>4 DEF WordsAt
<1>7. CASE cnt = 19 /\ frame.kind = "ip"
  <2>1. Go(FALSE, TRUE, 0)
    BY <1>1, <1>2, <1>7, Zenon DEF IpHead, Check
  <2>2. ~skip_en' /\ error_en' /\ cnt' = 0
    BY <2>1, Zenon DEF Go
  <2>3. next_state' = "end"
    BY <1>3, <2>2 DEF next_state
  <2> QED
    BY <1>0, <1>1, <1>5, <1>6, <1>7, <2>2, <2>3 DEF Reads, StateAt, CntAt
<1>8. CASE pos = 21 + frame.ihl /\ frame.kind = "udp"
  <2>1. cnt = frame.ihl - 1 /\ ip_head_byte_num = frame.ihl /\ Last(cnt) /\ cnt # 0
    BY <1>0, <1>1, <1>8 DEF Last
  <2>2. cnt \notin 16 .. 18
    BY <1>0, <2>1
  <2>3. Go(TRUE, FALSE, 0)
    <3>1. CASE cnt = 19
      <4>1. PICK ok \in Check(frame.kind # "ip") :
              IF ~ok THEN Go(FALSE, TRUE, 0)
              ELSE IF Last(19) THEN Go(TRUE, FALSE, 0) ELSE Go(FALSE, FALSE, 20)
        BY <1>2, <3>1, Zenon DEF IpHead
      <4>2. frame.kind # "ip"
        BY <1>8
      <4>3. ok
        BY <1>1, <4>2, Zenon DEF Check
      <4> QED
        BY <2>1, <3>1, <4>1, <4>3, Zenon
    <3>2. CASE cnt # 19
      BY <1>2, <2>1, <2>2, <3>2, Zenon DEF IpHead
    <3> QED
      BY <3>1, <3>2
  <2>4. skip_en' /\ cnt' = 0
    BY <2>3, Zenon DEF Go
  <2>5. next_state' = "udp"
    BY <1>3, <2>4 DEF next_state
  <2> QED
    BY <1>0, <1>1, <1>5, <1>6, <1>8, <2>4, <2>5 DEF Reads, StateAt, CntAt
<1>9. CASE /\ ~(cnt = 19 /\ frame.kind = "ip")
           /\ ~(pos = 21 + frame.ihl /\ frame.kind = "udp")
  <2>1. cnt < 31 /\ (cnt + 1) % 32 = cnt + 1
    BY <1>0, <1>1, <1>9
  <2>2. cnt # 0 => ~Last(cnt)
    BY <1>0, <1>1, <1>9 DEF Last
  <2>3. Go(FALSE, FALSE, cnt + 1)
    <3>1. CASE cnt = 19
      <4>1. PICK ok \in Check(frame.kind # "ip") :
              IF ~ok THEN Go(FALSE, TRUE, 0)
              ELSE IF Last(19) THEN Go(TRUE, FALSE, 0) ELSE Go(FALSE, FALSE, 20)
        BY <1>2, <3>1, Zenon DEF IpHead
      <4>2. frame.kind # "ip" /\ ~Last(19) /\ cnt + 1 = 20
        BY <1>9, <2>2, <3>1
      <4>3. ok
        BY <1>1, <4>2, Zenon DEF Check
      <4> QED
        BY <4>1, <4>2, <4>3
    <3>2. CASE cnt # 19
      <4>1. Go(FALSE, FALSE, (cnt + 1) % 32)
        BY <1>2, <2>2, <3>2, Zenon DEF IpHead
      <4> QED
        BY <2>1, <4>1
    <3> QED
      BY <3>1, <3>2
  <2>4. ~skip_en' /\ ~error_en' /\ cnt' = cnt + 1
    BY <2>3, Zenon DEF Go
  <2>5. next_state' = "ip"
    BY <1>3, <2>4 DEF next_state
  <2> QED
    BY <1>0, <1>1, <1>5, <1>6, <1>9, <2>4, <2>5 DEF Reads, StateAt, CntAt
<1> QED
  BY <1>7, <1>8, <1>9

LEMMA ReadUdp ==
  ASSUME Readable, LineInv, LenInv, GoodInv, gap = 0, pos > 21, StateAt(frame, pos) = "udp",
         Receive, Record, right' # Spoilt, UNCHANGED <<frame, id>>, NEW p, p = pos + 1
  PROVE  Reads(p)'
<1>0. /\ pos \in Nat /\ frame.ihl \in 20 .. 60 /\ frame.n \in Nat /\ Intact(frame)
      /\ frame.n >= 1 /\ frame.kind = "udp"
      /\ 21 + frame.ihl < pos /\ pos <= 29 + frame.ihl
  BY FrameFacts, Recorded DEF StateAt
<1>1. /\ next_state = "udp" /\ cnt = pos - 22 - frame.ihl
      /\ right = WordsAt(frame, pos) /\ InStep
  BY <1>0, Recorded, FieldIs DEF GoodInv, Reads, CntAt, InStep
<1>2. UdpHead
  BY <1>1, Zenon DEF Receive, Idle, Preamble, EthHead, IpHead, RxData, Wait, End, dv
<1>3. /\ cur_state' = "udp" /\ ~rec_en'
      /\ data_cnt' = data_cnt /\ rec_en_cnt' = rec_en_cnt
  BY <1>1, <1>2, Zenon DEF Receive, UdpHead, NoData
<1>4. data_cnt = 0 /\ rec_en_cnt = 0
  BY <1>1, NextStateType DEF LenInv
<1>5. right' = right
  BY <1>0, <1>3, Recorded
<1>6. right' = 0 /\ (0 \div 4) = 0
  BY <1>0, <1>1, <1>5 DEF WordsAt
<1>7. CASE pos < 29 + frame.ihl
  <2>1. cnt # 7 /\ (cnt + 1) % 32 = cnt + 1
    BY <1>0, <1>1, <1>7
  <2>2. ~skip_en' /\ cnt' = cnt + 1
    BY <1>2, <2>1, Zenon DEF UdpHead, Go
  <2>3. next_state' = "udp"
    BY <1>3, <2>2 DEF next_state
  <2> QED
    BY <1>0, <1>1, <1>6, <1>7, <2>2, <2>3 DEF Reads, StateAt, CntAt, WordsAt
<1>8. CASE pos = 29 + frame.ihl
  <2>1. cnt = 7
    BY <1>0, <1>1, <1>8
  <2>2. skip_en' /\ cnt' = 0 /\ data_byte_num' = frame.n
    BY <1>1, <1>2, <2>1, Zenon DEF UdpHead, Go
  <2>3. next_state' = "data"
    BY <1>3, <2>2 DEF next_state
  <2>4. StateAt(frame, p) = "data" /\ CntAt(frame, p) = 0 /\ WordsAt(frame, p) = 0
    BY <1>0, <1>6, <1>8 DEF StateAt, CntAt, WordsAt
  <2> QED
    BY <1>0, <1>3, <1>4, <1>6, <1>8, <2>2, <2>3, <2>4 DEF Reads
<1> QED
  BY <1>0, <1>7, <1>8

\* A payload byte goes to its place in the word, and a full word, or the
\* last one, is counted as right.
LEMMA ReadData ==
  ASSUME Readable, LineInv, LenInv, GoodInv, gap = 0, pos > 21, StateAt(frame, pos) = "data",
         Receive, Record, right' # Spoilt, UNCHANGED <<frame, id>>, NEW p, p = pos + 1
  PROVE  Reads(p)' /\ rec_data' = [i \in 0 .. 3 |-> rec_data'[i]]
<1>0. /\ pos \in Nat /\ frame.ihl \in 20 .. 60 /\ frame.n \in Nat /\ Intact(frame)
      /\ frame.n >= 1 /\ frame.n <= LenSize - 1 /\ frame.kind = "udp"
      /\ 29 + frame.ihl < pos /\ pos <= 29 + frame.ihl + frame.n
  BY FrameFacts, Recorded DEF StateAt
<1>1. /\ next_state = "data" /\ cnt = 0
      /\ right = WordsAt(frame, pos)
      /\ data_byte_num = frame.n /\ data_cnt = pos - 30 - frame.ihl
      /\ \A i \in 0 .. 3 : i < rec_en_cnt => rec_data[i] = <<id, 4 * (data_cnt \div 4) + i>>
  BY <1>0, Recorded DEF GoodInv, Reads, CntAt
<1>2. RxData
  BY <1>1, Zenon DEF Receive, Idle, Preamble, EthHead, IpHead, UdpHead, Wait, End, dv
<1> DEFINE last == data_cnt = LastByte
<1>3. /\ cur_state' = "data" /\ data_byte_num' = data_byte_num
      /\ skip_en' = last /\ cnt' = cnt
      /\ data_cnt' = (IF last THEN 0 ELSE (data_cnt + 1) % LenSize)
      /\ rec_en_cnt' = (IF last THEN 0 ELSE (rec_en_cnt + 1) % 4)
      /\ rec_en' = (last \/ rec_en_cnt = 3)
      /\ rec_data' = [rec_data EXCEPT ![rec_en_cnt] = Datum]
  BY <1>1, <1>2, Zenon DEF Receive, RxData, Go, KeepLengths, LastByte
<1>4. LastByte = frame.n - 1 /\ data_cnt \in Nat /\ rec_en_cnt = data_cnt % 4
  BY <1>0, <1>1, LastByteRange DEF LastByte, LenInv
<1>5. Datum = <<id, data_cnt>>
  <2>1. Line!Field = <<"data", data_cnt>>
    BY <1>0, <1>1 DEF Line!Field
  <2> QED
    BY <2>1 DEF Datum
<1>6. rec_en_cnt \in 0 .. 3 /\ data_cnt = 4 * (data_cnt \div 4) + rec_en_cnt
  BY <1>4
<1>7. /\ rec_data' = [i \in 0 .. 3 |-> rec_data'[i]]
      /\ \A i \in 0 .. 3 :
           i <= rec_en_cnt => rec_data'[i] = <<id, 4 * (data_cnt \div 4) + i>>
  <2>1. rec_data' = [i \in 0 .. 3 |-> IF i = rec_en_cnt THEN Datum ELSE rec_data[i]]
    BY <1>3 DEF GoodInv
  <2>2. rec_data' = [i \in 0 .. 3 |-> rec_data'[i]]
    BY <2>1, Zenon
  <2>3. ASSUME NEW i \in 0 .. 3, i <= rec_en_cnt
        PROVE  rec_data'[i] = <<id, 4 * (data_cnt \div 4) + i>>
    <3>1. CASE i = rec_en_cnt
      BY <1>5, <1>6, <2>1, <3>1
    <3>2. CASE i # rec_en_cnt
      BY <1>1, <1>6, <2>1, <2>3, <3>2
    <3> QED
      BY <3>1, <3>2
  <2> QED
    BY <2>2, <2>3
<1>8. right = data_cnt \div 4
  BY <1>0, <1>1 DEF WordsAt
<1>9. last \/ rec_en_cnt = 3 => WordRight(right, frame.n)
  <2>1. \A i \in 0 .. 3 : 4 * right + i < frame.n /\ (last \/ rec_en_cnt = 3) => i <= rec_en_cnt
    BY <1>0, <1>4, <1>6, <1>8
  <2>2. \A i \in 0 .. 3 : i <= rec_en_cnt => rec_data'[i] = <<id, 4 * right + i>>
    BY <1>7, <1>8
  <2> QED
    BY <2>1, <2>2, Zenon DEF WordRight
<1>10. right' = IF last \/ rec_en_cnt = 3 THEN right + 1 ELSE right
  <2>1. CASE last \/ rec_en_cnt = 3
    <3>1. rec_en'
      BY <1>3, <2>1, Zenon
    <3> QED
      BY <1>0, <1>9, <2>1, <3>1, Recorded
  <2>2. CASE ~(last \/ rec_en_cnt = 3)
    <3>1. ~rec_en'
      BY <1>3, <2>2, Zenon
    <3> QED
      BY <1>0, <2>2, <3>1, Recorded
  <2> QED
    BY <2>1, <2>2
<1>11. CASE last
  <2>1. pos = 29 + frame.ihl + frame.n
    BY <1>0, <1>1, <1>4, <1>11
  <2>2. skip_en' /\ data_cnt' = 0 /\ rec_en_cnt' = 0
    BY <1>3, <1>11, Zenon
  <2>3. next_state' = "end"
    BY <1>3, <2>2 DEF next_state
  <2>4. right' = WordCount(frame.n)
    BY <1>0, <1>4, <1>8, <1>10, <1>11 DEF WordCount
  <2>5. StateAt(frame, p) = "end" /\ CntAt(frame, p) = 0 /\ WordsAt(frame, p) = WordCount(frame.n)
    BY <1>0, <2>1 DEF StateAt, CntAt, WordsAt
  <2> QED
    BY <1>1, <1>3, <1>7, <2>3, <2>4, <2>5 DEF Reads
<1>12. CASE ~last
  <2>1. pos < 29 + frame.ihl + frame.n /\ data_cnt <= frame.n - 1
    BY <1>0, <1>1, <1>4, <1>12
  <2>2. ~skip_en' /\ data_cnt' = (data_cnt + 1) % LenSize /\ rec_en_cnt' = (rec_en_cnt + 1) % 4
    BY <1>3, <1>12, Zenon
  <2>3. data_cnt' = data_cnt + 1
    <3>1. data_cnt + 1 \in 0 .. (LenSize - 1)
      BY <1>0, <1>4, <1>12, <2>1, LenSizeAssumption
    <3> QED
      BY <2>2, <3>1, LenSizeAssumption, Z3
  <2>4. next_state' = "data"
    BY <1>3, <2>2 DEF next_state
  <2>5. /\ StateAt(frame, p) = "data" /\ CntAt(frame, p) = 0
        /\ WordsAt(frame, p) = data_cnt' \div 4
    BY <1>0, <1>1, <2>1, <2>3 DEF StateAt, CntAt, WordsAt
  <2>6. right' = data_cnt' \div 4
    BY <1>4, <1>8, <1>10, <1>12, <2>3
  <2>7. \A i \in 0 .. 3 :
          i < rec_en_cnt' => rec_data'[i] = <<id', 4 * (data_cnt' \div 4) + i>>
    <3>1. CASE rec_en_cnt = 3
      BY <2>2, <3>1
    <3>2. CASE rec_en_cnt # 3
      <4>1. rec_en_cnt' = rec_en_cnt + 1 /\ data_cnt' \div 4 = data_cnt \div 4
        BY <1>4, <1>6, <2>2, <2>3, <3>2
      <4> QED
        BY <1>6, <1>7, <4>1
    <3> QED
      BY <3>1, <3>2
  <2> QED
    BY <1>0, <1>1, <1>3, <1>7, <2>3, <2>4, <2>5, <2>6, <2>7 DEF Reads
<1> QED
  BY <1>11, <1>12

LEMMA ReadEnd ==
  ASSUME Readable, LineInv, GoodInv, gap = 0, pos > 21, StateAt(frame, pos) = "end",
         Receive, Record, right' # Spoilt, UNCHANGED <<frame, id>>, NEW p, p = pos + 1
  PROVE  Reads(p)'
<1>0. pos \in Nat /\ frame.ihl \in 20 .. 60 /\ frame.n \in Nat /\ Intact(frame)
  BY FrameFacts, Recorded
<1>1. next_state = "end" /\ cnt = 0 /\ right = WordsAt(frame, pos)
  BY <1>0, Recorded DEF GoodInv, Reads, CntAt
<1>2. End
  BY <1>1, Zenon DEF Receive, Idle, Preamble, EthHead, IpHead, UdpHead, RxData, Wait
<1>3. cur_state' = "end" /\ ~rec_en' /\ ~skip_en' /\ cnt' = 0
  BY <1>1, <1>2, Zenon DEF Receive, End, NoData, Go, dv
<1>4. right' = right
  BY <1>0, <1>3, Recorded
<1>5. next_state' = "end"
  BY <1>3 DEF next_state
<1>6. StateAt(frame, p) = "end" /\ CntAt(frame, p) = 0 /\ WordsAt(frame, p) = WordsAt(frame, pos)
  BY <1>0 DEF StateAt, CntAt, WordsAt
<1> QED
  BY <1>1, <1>3, <1>4, <1>5, <1>6 DEF Reads

\* A byte of the frame: it is read in its state, and the last one leaves the
\* receiver at the frame's end with all its words delivered.
LEMMA ByteStep ==
  ASSUME Readable, LineInv, LenInv, GoodInv, Line!Byte, Receive, Record, right' # Spoilt
  PROVE  IF gap' = 0 THEN Reads(pos)' /\ Intact(frame')
         ELSE /\ gap' = 1 /\ Intact(frame') /\ right' = Expected(frame') /\ cnt' = 0
              /\ next_state' = "end"
<1> PICK p : p = pos + 1
  OBVIOUS
<1>1. gap = 0 /\ UNCHANGED <<frame, id>> /\ Intact(frame) /\ pos \in Nat
  BY FrameFacts, Recorded DEF Line!Byte
<1>2. Reads(p)'
  <2>1. CASE pos = 0
    BY <1>1, <2>1, ReadIdle
  <2>2. CASE pos \in 1 .. 7
    BY <1>1, <2>2, ReadPreamble
  <2>3. CASE pos \in 8 .. 21
    BY <1>1, <2>3, ReadEth
  <2>4. CASE pos > 21
    <3>1. StateAt(frame, pos) \in {"ip", "udp", "data", "end"}
      BY <1>1, <2>4 DEF StateAt
    <3> QED
      BY <1>1, <2>4, <3>1, ReadIp, ReadUdp, ReadData, ReadEnd
  <2> QED
    BY <1>1, <2>1, <2>2, <2>3, <2>4
<1>3. CASE pos < 7 + frame.size
  <2>1. pos' = p /\ gap' = 0
    BY <1>1, <1>3 DEF Line!Byte
  <2> QED
    BY <1>1, <1>2, <2>1 DEF Reads
<1>4. CASE ~(pos < 7 + frame.size)
  <2>1. gap' = 1 /\ pos = 7 + frame.size
    BY <1>1, <1>4, FrameFacts DEF Line!Byte
  <2>2. StateAt(frame, p) = "end" /\ CntAt(frame, p) = 0 /\ WordsAt(frame, p) = Expected(frame)
    BY <1>1, <2>1, FrameFacts DEF StateAt, CntAt, WordsAt, Expected
  <2> QED
    BY <1>1, <1>2, <2>1, <2>2 DEF Reads, Expected
<1> QED
  BY <1>3, <1>4

\* In the pause the receiver leaves the frame within two clocks, and waits.
LEMMA PauseStep ==
  ASSUME LineInv, GoodInv, gap > 0, Receive, Record, right' # Spoilt
  PROVE  /\ right' = right /\ cnt' = 0
         /\ next_state' = "idle" \/ (gap = 1 /\ next_state' = "end" /\ ~skip_en')
<1>1. /\ right # Spoilt /\ cnt = 0 /\ ~dv
      /\ \/ next_state = "end" /\ (gap = 1 \/ ~skip_en)
         \/ next_state = "idle" /\ gap > 1
  BY Recorded DEF GoodInv, LineInv, dv
<1>2. CASE next_state = "end"
  <2>1. End
    BY <1>2, Zenon DEF Receive, Idle, Preamble, EthHead, IpHead, UdpHead, RxData, Wait
  <2>2. /\ cur_state' = "end" /\ ~rec_en' /\ ~error_en' /\ cnt' = cnt
        /\ (skip_en => ~skip_en') /\ (~skip_en => skip_en')
    BY <1>1, <1>2, <2>1, Zenon DEF Receive, End, NoData, Go
  <2>3. IF skip_en THEN next_state' = "end" ELSE next_state' = "idle"
    BY <2>2 DEF next_state
  <2>4. right' = right
    BY <2>2, Recorded
  <2> QED
    BY <1>1, <1>2, <2>2, <2>3, <2>4
<1>3. CASE next_state = "idle"
  <2>1. PICK b \in Line!gmii_rxd : Go(dv /\ b = "55", FALSE, cnt) /\ NoData
    BY <1>3, Zenon DEF Receive, Idle, Preamble, EthHead, IpHead, UdpHead, RxData, Wait, End
  <2>2. cur_state' = "idle" /\ ~rec_en' /\ ~error_en' /\ cnt' = cnt /\ ~skip_en'
    BY <1>1, <1>3, <2>1, Zenon DEF Receive, NoData, Go
  <2>3. next_state' = "idle"
    BY <2>2 DEF next_state
  <2>4. right' = right
    BY <2>2, Recorded
  <2> QED
    BY <1>1, <2>2, <2>3, <2>4
<1> QED
  BY <1>1, <1>2, <1>3

\* rec_data stays four bytes, right a number.
LEMMA GoodType ==
  ASSUME GoodInv, Receive, Record
  PROVE  rec_data' = [i \in 0 .. 3 |-> rec_data'[i]] /\ right' \in Nat
<1>1. rec_data' = [i \in 0 .. 3 |-> rec_data'[i]]
  <2>1. CASE rec_data' = rec_data
    BY <2>1 DEF GoodInv
  <2>2. CASE RxData
    <3>1. rec_data' = [rec_data EXCEPT ![rec_en_cnt] = Datum]
      BY <2>2, Zenon DEF RxData
    <3>2. rec_data' = [i \in 0 .. 3 |-> IF i = rec_en_cnt THEN Datum ELSE rec_data[i]]
      BY <3>1 DEF GoodInv
    <3> QED
      BY <3>2, Zenon
  <2> QED
    BY <2>1, <2>2, Zenon DEF Receive, Idle, Preamble, EthHead, IpHead, UdpHead, Wait, Quiet,
                             End, NoData
<1>2. right' \in {Spoilt, 0, right, right + 1, Wrong}
  BY Zenon DEF Record
<1> QED
  BY <1>1, <1>2, LenSizeAssumption DEF GoodInv, Spoilt, Wrong

LEMMA GoodInit == Init => GoodInv
<1> SUFFICES ASSUME Init PROVE GoodInv
  OBVIOUS
<1>1. /\ cur_state = "idle" /\ cnt = 0 /\ rec_data = [i \in 0 .. 3 |-> Junk]
      /\ ~skip_en /\ ~error_en /\ gap = MinGap /\ frame \in Frames
      /\ Intact(frame) /\ right = Expected(frame)
  BY Zenon DEF Init, RxInit, Line!Init
<1>2. next_state = "idle"
  BY <1>1 DEF next_state
<1>3. right \in Nat
  BY <1>1, FrameType DEF Expected, WordCount
<1>4. rec_data = [i \in 0 .. 3 |-> rec_data[i]]
  BY <1>1
<1> QED
  BY <1>1, <1>2, <1>3, <1>4, GapAssumption DEF GoodInv

LEMMA GoodStep ==
  ASSUME Readable, LineInv, LenInv, GoodInv, [Next]_vars
  PROVE  GoodInv'
<1>1. CASE UNCHANGED vars
  BY <1>1 DEF vars, line, rx, GoodInv, Reads, next_state
<1>2. CASE Next
  <2>1. Line!Next /\ Receive /\ Record
    BY <1>2 DEF Next
  <2>2. rec_data' = [i \in 0 .. 3 |-> rec_data'[i]] /\ right' \in Nat
    BY <2>1, GoodType
  <2>3. ASSUME right' # Spoilt
        PROVE  IF gap' = 0 THEN Reads(pos)' /\ (pos' > 0 => Intact(frame'))
               ELSE /\ Intact(frame') /\ right' = Expected(frame') /\ cnt' = 0
                    /\ \/ next_state' = "end" /\ (gap' = 1 \/ ~skip_en')
                       \/ next_state' = "idle" /\ gap' > 1
    <3>1. CASE Line!Byte
      BY <2>1, <2>3, <3>1, ByteStep
    <3>2. CASE Line!Pause
      <4>1. gap \in 1 .. MinGap /\ gap' > 1 /\ frame' = frame
        BY <3>2, GapAssumption DEF Line!Pause, LineInv
      <4>2. Intact(frame) /\ right = Expected(frame)
        BY <2>1, <2>3, <4>1, Recorded DEF GoodInv
      <4>3. /\ right' = right /\ cnt' = 0
            /\ next_state' = "idle" \/ (next_state' = "end" /\ ~skip_en')
        BY <2>1, <2>3, <4>1, PauseStep
      <4>4. Expected(frame') = Expected(frame) /\ (Intact(frame) => Intact(frame'))
        BY <4>1
      <4> QED
        BY <4>1, <4>2, <4>3, <4>4
    <3>3. ASSUME NEW f \in Frames, Line!Arrive(f)
          PROVE  gap' = 0 /\ pos' = 0 /\ Reads(pos)'
      <4>1. gap \in Nat /\ gap > 1 /\ gap' = 0 /\ pos' = 0
        BY <3>3, GapAssumption DEF Line!Arrive
      <4>2. next_state' = "idle" /\ cnt' = 0
        BY <2>1, <2>3, <4>1, PauseStep
      <4>3. StateAt(frame, pos)' = "idle" /\ CntAt(frame, pos)' = 0
        BY <4>1 DEF StateAt, CntAt
      <4> QED
        BY <4>1, <4>2, <4>3 DEF Reads
    <3> QED
      BY <2>1, <3>1, <3>2, <3>3 DEF Line!Next
  <2> QED
    BY <2>2, <2>3 DEF GoodInv
<1> QED
  BY <1>1, <1>2

\* As long as frames come intact, each one's payload has been delivered when
\* it has passed, every byte in its place, if it is for this board, and
\* nothing otherwise: for all headers, lengths and trailing bytes this
\* receiver can read, and any pauses of two clocks or more.
THEOREM FramesArrive == Readable => (Spec => []GoodFramesArrive)
<1> SUFFICES ASSUME Readable PROVE Spec => []GoodFramesArrive
  OBVIOUS
<1>1. LineInv /\ GoodInv => GoodFramesArrive
  BY GapAssumption DEF LineInv, GoodInv, GoodFramesArrive
<1>2. LineInv /\ LenInv /\ GoodInv /\ [Next]_vars => GoodInv'
  BY GoodStep
<1> QED
  BY <1>1, <1>2, GoodInit, CountersAgree, PTL DEF Spec
=============================================================================
