-------------------------------- MODULE UdpRx --------------------------------
(***************************************************************************)
(* udp_rx (ETH/ETH_UDP/udp_rx.v), clock by clock.  As in the code the work *)
(* of a clock is chosen by next_state, which cur_state and the registered  *)
(* skip_en and error_en decide.                                            *)
(*                                                                         *)
(* The registers that only collect header bytes are left out: what the     *)
(* receiver concludes from them is right when it takes the byte for what   *)
(* it is, and anything when the frame and the receiver are out of step.    *)
(***************************************************************************)
EXTENDS Integers, Sequences

CONSTANTS
  Frames, MinGap, Ids,   \* of GmiiLine
  LenSize                \* 2 ** (width of the length registers), 65536 in the code

ASSUME LenSizeAssumption == LenSize \in Nat /\ LenSize >= 2

\* What a frame may say of itself: any header and data length the fields
\* hold, with any number of bytes behind it.
ASSUME FramesAssumption ==
  Frames \subseteq [kind : {"udp", "arp", "mac", "type", "ip"}, ihl : {4 * k : k \in 5 .. 15},
                    n : 0 .. (LenSize - 1), size : Nat, bad : 0 .. 8]
\* With a pause of one clock udp_rx could still be leaving the frame before.
ASSUME GapAssumption == MinGap \in Nat /\ MinGap >= 2
ASSUME IdsAssumption == Ids \in Nat \ {0}

\* A definition whose name ends in Mut is a faulty variant of the next one;
\* no specification uses it.

VARIABLES
  frame, id, pos, gap,   \* GmiiLine
  cur_state, skip_en, error_en, cnt,
  ip_head_byte_num, data_byte_num, data_cnt,
  rec_en_cnt, rec_en, rec_data, rec_byte_num, rec_pkt_done,
  words,                 \* history: words since the last rec_pkt_done
  right                  \* history: words of this frame delivered as they should be
                         \* while all frames have been intact

Line == INSTANCE GmiiLine
line == <<frame, id, pos, gap>>
rx == <<cur_state, skip_en, error_en, cnt, ip_head_byte_num, data_byte_num, data_cnt,
        rec_en_cnt, rec_en, rec_data, rec_byte_num, rec_pkt_done>>
vars == <<line, rx, words, right>>

dv == gap = 0

\* The payload byte on gmii_rxd, as <<id, index>>, or junk.
Junk == <<Ids, 0>>
Datum == IF Line!Field[1] = "data" THEN <<id, Line!Field[2]>> ELSE Junk

RxInit ==
  /\ cur_state = "idle" /\ skip_en = FALSE /\ error_en = FALSE /\ cnt = 0
  /\ ip_head_byte_num = 0 /\ data_byte_num = 0 /\ data_cnt = 0
  /\ rec_en_cnt = 0 /\ rec_en = FALSE /\ rec_pkt_done = FALSE /\ rec_byte_num = 0
  /\ rec_data = [i \in 0 .. 3 |-> Junk]

next_state ==
  LET after == [idle |-> "preamble", preamble |-> "eth", eth |-> "ip", ip |-> "udp",
                udp |-> "data", data |-> "end", end |-> "idle"]
  IN  IF skip_en THEN after[cur_state]
      ELSE IF error_en /\ cur_state \in {"preamble", "eth", "ip"} THEN "end"
      ELSE cur_state

\* Whether the byte is the one the receiver takes it for.
InStep == Line!Field = <<next_state, cnt>>
\* The outcome of a header check that frame f passes or does not.
Check(passes) == IF InStep THEN {passes} ELSE BOOLEAN

\* The strobes a state raises; what it does not name stays as it is.
Go(skip, err, c) == skip_en' = skip /\ error_en' = err /\ cnt' = c
NoData == /\ rec_en' = FALSE /\ rec_pkt_done' = FALSE
          /\ UNCHANGED <<data_cnt, rec_en_cnt, rec_data, rec_byte_num>>
KeepLengths == UNCHANGED <<ip_head_byte_num, data_byte_num>>
Quiet == Go(FALSE, FALSE, cnt) /\ NoData /\ KeepLengths

Idle == /\ next_state = "idle"
        /\ \E b \in Line!gmii_rxd : Go(dv /\ b = "55", FALSE, cnt)
        /\ NoData /\ KeepLengths

\* A damaged byte among the first leaves cnt where it is.
Preamble ==
  /\ next_state = "preamble" /\ dv
  /\ \E b \in Line!gmii_rxd :
       IF cnt < 6 THEN Go(FALSE, b # "55", cnt + 1)
       ELSE IF cnt = 6 THEN Go(b = "d5", b # "d5", 0)
       ELSE Go(FALSE, FALSE, (cnt + 1) % 32)
  /\ NoData /\ KeepLengths

EthHead ==
  /\ next_state = "eth" /\ dv
  /\ IF cnt = 13
       THEN \E ok \in Check(frame.kind \notin {"mac", "type", "arp"}) : Go(ok, ~ok, 0)
       ELSE Go(FALSE, FALSE, (cnt + 1) % 32)
  /\ NoData /\ KeepLengths

\* The header may be longer than 20 bytes; what follows is skipped.  The
\* protocol field is not looked at.
\* What a field read out of step may give.
Lengths == 0 .. (LenSize - 1)
Last(c) == c = ip_head_byte_num - 1
IpHead ==
  /\ next_state = "ip" /\ dv
  /\ IF cnt = 19
       THEN \E ok \in Check(frame.kind # "ip") :
              IF ~ok THEN Go(FALSE, TRUE, 0)
              ELSE IF Last(19) THEN Go(TRUE, FALSE, 0) ELSE Go(FALSE, FALSE, 20)
     ELSE IF cnt # 0 /\ cnt \notin 16 .. 18 /\ Last(cnt) THEN Go(TRUE, FALSE, 0)
     ELSE Go(FALSE, FALSE, (cnt + 1) % 32)
  /\ IF cnt = 0
       THEN ip_head_byte_num' \in (IF InStep THEN {frame.ihl} ELSE {4 * k : k \in 0 .. 15})
       ELSE UNCHANGED ip_head_byte_num
  /\ NoData /\ UNCHANGED data_byte_num

UdpHead ==
  /\ next_state = "udp" /\ dv
  /\ Go(cnt = 7, FALSE, IF cnt = 7 THEN 0 ELSE (cnt + 1) % 32)
  /\ IF cnt = 7
       THEN data_byte_num' \in (IF InStep THEN {frame.n} ELSE Lengths)
       ELSE UNCHANGED data_byte_num
  /\ NoData /\ UNCHANGED ip_head_byte_num

RxDataMut ==                \* rec_en_cnt not cleared after a packet
  /\ next_state = "data" /\ dv
  /\ LET last == data_cnt = (data_byte_num - 1) % LenSize
     IN  /\ Go(last, FALSE, cnt)
         /\ data_cnt' = IF last THEN 0 ELSE (data_cnt + 1) % LenSize
         /\ rec_en_cnt' = (rec_en_cnt + 1) % 4
         /\ rec_en' = (last \/ rec_en_cnt = 3)
         /\ rec_pkt_done' = last
         /\ rec_byte_num' = IF last THEN data_byte_num ELSE rec_byte_num
         /\ rec_data' = [rec_data EXCEPT ![rec_en_cnt] = Datum]
  /\ KeepLengths

RxDataLastMut ==            \* no rec_en for an unfinished last word
  /\ next_state = "data" /\ dv
  /\ LET last == data_cnt = (data_byte_num - 1) % LenSize
     IN  /\ Go(last, FALSE, cnt)
         /\ data_cnt' = IF last THEN 0 ELSE (data_cnt + 1) % LenSize
         /\ rec_en_cnt' = IF last THEN 0 ELSE (rec_en_cnt + 1) % 4
         /\ rec_en' = (rec_en_cnt = 3)
         /\ rec_pkt_done' = last
         /\ rec_byte_num' = IF last THEN data_byte_num ELSE rec_byte_num
         /\ rec_data' = [rec_data EXCEPT ![rec_en_cnt] = Datum]
  /\ KeepLengths

RxData ==
  /\ next_state = "data" /\ dv
  /\ LET last == data_cnt = (data_byte_num - 1) % LenSize
     IN  /\ Go(last, FALSE, cnt)
         /\ data_cnt' = IF last THEN 0 ELSE (data_cnt + 1) % LenSize
         /\ rec_en_cnt' = IF last THEN 0 ELSE (rec_en_cnt + 1) % 4
         /\ rec_en' = (last \/ rec_en_cnt = 3)
         /\ rec_pkt_done' = last
         /\ rec_byte_num' = IF last THEN data_byte_num ELSE rec_byte_num
         /\ rec_data' = [rec_data EXCEPT ![rec_en_cnt] = Datum]
  /\ KeepLengths

\* Between two bytes a state inside a frame just waits.
Wait == ~dv /\ next_state \notin {"idle", "end"} /\ Quiet

End == /\ next_state = "end"
       /\ Go(~dv /\ ~skip_en, FALSE, cnt)
       /\ NoData /\ KeepLengths

Receive == /\ cur_state' = next_state
           /\ \/ Idle \/ Preamble \/ EthHead \/ IpHead \/ UdpHead \/ RxData
              \/ Wait \/ End

\* The words of an n-byte payload, in which a last word may hold old bytes.
WordCount(n) == (n + 3) \div 4
WordRight(k, n) == \A i \in 0 .. 3 : 4 * k + i < n => rec_data'[i] = <<id, 4 * k + i>>

\* A frame with an undamaged preamble and all the bytes it announces.
Intact(f) == f.bad = 0 /\ f.size >= 14 + f.ihl + 8 + f.n
Wrong == LenSize        \* of right: a word was not what it should be
Spoilt == LenSize + 1   \* of right: a frame that was not intact has come

Record ==
  /\ words' = (IF rec_pkt_done THEN 0 ELSE words) + (IF rec_en' THEN 1 ELSE 0)
  /\ right' = IF right = Spoilt \/ ~Intact(frame) THEN Spoilt
              ELSE IF dv /\ pos = 0 THEN 0
              ELSE IF ~rec_en' THEN right
              ELSE IF WordRight(right, frame.n) THEN right + 1 ELSE Wrong

\* The words a frame should bring.
Expected(f) == IF f.kind = "udp" THEN WordCount(f.n) ELSE 0

\* Nothing came before; the history starts as if frame had been received.
Init == Line!Init /\ RxInit /\ words = 0 /\ Intact(frame) /\ right = Expected(frame)
Next == Line!Next /\ Receive /\ Record
Spec == Init /\ [][Next]_vars
\* gmii_rx_clk runs, and a frame that has begun goes on; none need begin.
FairSpec == Spec /\ WF_vars(Next /\ id' = id)

-----------------------------------------------------------------------------
TypeOK ==
  /\ cur_state \in {"idle", "preamble", "eth", "ip", "udp", "data", "end"}
  /\ skip_en \in BOOLEAN /\ error_en \in BOOLEAN
  /\ cnt \in 0 .. 31
  /\ data_cnt \in 0 .. (LenSize - 1) /\ rec_en_cnt \in 0 .. 3
  /\ data_byte_num \in 0 .. (LenSize - 1) /\ rec_byte_num \in 0 .. (LenSize - 1)

\* Whatever comes in, cut short or run together, a packet is announced with
\* as many words as its length needs: the buffer that udp_tx empties by
\* that length never gets out of step.  (A length of 0 is the exception:
\* LenSize bytes are then awaited.)
WordsMatchLength ==
  rec_pkt_done /\ rec_byte_num # 0 => words = WordCount(rec_byte_num)

\* As long as frames come intact, each one's payload has been delivered when
\* it has passed, all of it and each byte in its place, if it was for this
\* board, and nothing otherwise.
GoodFramesArrive == gap = MinGap /\ right # Spoilt => right = Expected(frame)

\* "7 x 0x55", then "1 x 0xd5": a preamble of these bytes is no error.
PreambleAccepted ==
  [][dv /\ next_state = "preamble" /\ pos <= 7 /\ frame.bad = 0 => ~error_en']_vars
=============================================================================
