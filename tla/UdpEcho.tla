------------------------------- MODULE UdpEcho -------------------------------
(***************************************************************************)
(* eth_udp_loop (ETH/eth_udp_loop.v): udp_rx, a buffer of payload words,   *)
(* udp_tx, the ARP pair and eth_ctrl, which decides whose bytes reach the  *)
(* pins.  All run on gmii_rx_clk, which is also gmii_tx_clk.  Every packet *)
(* received is to be sent back, and every ARP request answered.            *)
(***************************************************************************)
EXTENDS UdpRx

CONSTANT FifoDepth

\* A definition whose name ends in Mut is a faulty variant of the next one;
\* no specification uses it.

VARIABLES
  start_en_d0, start_en_d1, trig_tx_en, tx_data_num, tx_state, tx_skip, tx_cnt,
  tx_bit_sel, data_sent, real_add_cnt, tx_req, tx_done_t, tx_done,
  gmii_tx_en, gmii_txd,                                          \* udp_tx
  arp_state, arp_skip, arp_error, arp_cnt, arp_rx_done,          \* arp_rx
  tx_en_d0, tx_en_d1, atx_state, atx_skip, atx_cnt, atx_done_t, arp_tx_done,
  arp_gmii_tx_en,                                                \* arp_tx
  fifo, tx_data,                                    \* the buffer and its dout
  protocol_sw, udp_tx_busy, arp_rx_flag, arp_tx_en, \* eth_ctrl
  owed,       \* history: <<id, length>> of packets received, not sent back yet
  sent,       \* history: right payload bytes on the pins; LenSize: a wrong one
  onPins,     \* history: bytes of this reply that reached the pins
  asked,      \* history: ARP requests received and not answered yet
  arpOnPins   \* history: bytes of this ARP reply that reached the pins

Tx == INSTANCE UdpTx
ARP == INSTANCE Arp

ctrl == <<protocol_sw, udp_tx_busy, arp_rx_flag, arp_tx_en>>
history == <<owed, sent, onPins, asked, arpOnPins>>
echo_vars == <<vars, Tx!tx, ARP!arp_rx, ARP!arp_tx, fifo, tx_data, ctrl, history>>

EchoInit ==
  /\ Init /\ Tx!TxInit /\ ARP!Init
  /\ fifo = <<>> /\ tx_data = [i \in 0 .. 3 |-> Junk]
  /\ protocol_sw = FALSE /\ udp_tx_busy = FALSE
  /\ arp_rx_flag = FALSE /\ arp_tx_en = FALSE
  /\ owed = <<>> /\ sent = 0 /\ onPins = 0 /\ asked = 0 /\ arpOnPins = 0

\* eth_sync_fifo_2048x32b: a full buffer drops the word, an empty one keeps
\* its output.
Fifo ==
  LET rest == IF tx_req /\ fifo # <<>> THEN Tail(fifo) ELSE fifo
  IN  /\ tx_data' = IF tx_req /\ fifo # <<>> THEN Head(fifo) ELSE tx_data
      /\ fifo' = IF rec_en /\ Len(fifo) < FifoDepth THEN Append(rest, rec_data) ELSE rest

EthCtrlHoldMut ==              \* protocol_sw not held
  /\ udp_tx_busy' = IF rec_pkt_done THEN TRUE ELSE IF tx_done THEN FALSE ELSE udp_tx_busy
  /\ arp_rx_flag' = IF arp_rx_done THEN TRUE ELSE arp_rx_flag /\ protocol_sw
  /\ IF rec_pkt_done THEN protocol_sw' = TRUE /\ arp_tx_en' = FALSE
     ELSE IF arp_rx_flag /\ ~udp_tx_busy THEN protocol_sw' = FALSE /\ arp_tx_en' = TRUE
     ELSE arp_tx_en' = FALSE /\ protocol_sw' = TRUE

EthCtrlFlagMut ==              \* the request forgotten whoever has the pins
  /\ udp_tx_busy' = IF rec_pkt_done THEN TRUE ELSE IF tx_done THEN FALSE ELSE udp_tx_busy
  /\ arp_rx_flag' = arp_rx_done
  /\ IF rec_pkt_done THEN protocol_sw' = TRUE /\ arp_tx_en' = FALSE
     ELSE IF arp_rx_flag /\ ~udp_tx_busy THEN protocol_sw' = FALSE /\ arp_tx_en' = TRUE
     ELSE arp_tx_en' = FALSE /\ UNCHANGED protocol_sw

\* Only requests make arp_rx raise its strobe here, so arp_rx_type is 0.
EthCtrl ==
  /\ udp_tx_busy' = IF rec_pkt_done THEN TRUE ELSE IF tx_done THEN FALSE ELSE udp_tx_busy
  /\ arp_rx_flag' = IF arp_rx_done THEN TRUE ELSE arp_rx_flag /\ protocol_sw
  /\ IF rec_pkt_done THEN protocol_sw' = TRUE /\ arp_tx_en' = FALSE
     ELSE IF arp_rx_flag /\ ~udp_tx_busy THEN protocol_sw' = FALSE /\ arp_tx_en' = TRUE
     ELSE arp_tx_en' = FALSE /\ UNCHANGED protocol_sw

\* What the pins carry, by protocol_sw.
udpPin == protocol_sw /\ gmii_tx_en
arpPin == ~protocol_sw /\ arp_gmii_tx_en

Sent ==
  IF tx_done THEN 0
  ELSE IF ~udpPin \/ gmii_txd = <<>> \/ owed = <<>> THEN sent
  ELSE IF sent >= Head(owed)[2] THEN sent
  ELSE IF gmii_txd = <<Head(owed)[1], sent>> THEN sent + 1 ELSE LenSize

MaxOwed == 3     \* the history's bound, beyond what EchoesPackets allows
EchoRecord ==
  LET left == IF tx_done /\ owed # <<>> THEN Tail(owed) ELSE owed
      still == IF arp_tx_done /\ asked > 0 THEN asked - 1 ELSE asked
  IN  /\ owed' = IF RxData /\ rec_pkt_done' /\ Len(left) < MaxOwed
                   THEN Append(left, <<id, frame.n>>) ELSE left
      /\ sent' = Sent
      /\ onPins' = IF tx_done THEN 0 ELSE IF udpPin THEN onPins + 1 ELSE onPins
      /\ asked' = IF arp_rx_done THEN (IF still < MaxOwed THEN still + 1 ELSE still) ELSE still
      /\ arpOnPins' = IF arp_tx_done THEN 0 ELSE IF arpPin THEN arpOnPins + 1 ELSE arpOnPins

EchoNext ==
  /\ Next
  /\ ARP!Receive
  /\ Fifo
  /\ Tx!Transmit(rec_pkt_done, rec_byte_num, tx_data)
  /\ ARP!Transmit(arp_tx_en)
  /\ EthCtrl
  /\ EchoRecord

EchoSpec == EchoInit /\ [][EchoNext]_echo_vars
\* The clock runs, and a frame that has begun goes on; none need begin.
EchoFairSpec == EchoSpec /\ WF_echo_vars(EchoNext /\ id' = id)

-----------------------------------------------------------------------------
Packets == {f \in Frames : f.kind = "udp"}

\* udp_tx sends 18 bytes at least.
PadTo(n) == IF n >= 18 THEN n ELSE 18

\* What the line may bring: whole Ethernet frames with the legal pause, the
\* packets without IP options and of lengths that differ by no more than 5.
Steady ==
  /\ MinGap >= 12 /\ LenSize > 18
  /\ \A f \in Frames : Intact(f) /\ f.size >= 64
  /\ \A f \in Packets : f.ihl = 20 /\ f.n >= 1 /\ f.size >= 46 + PadTo(f.n)
  /\ \A f, g \in Packets : f.n <= g.n + 5

\* And what an echo can stand: lengths that differ by 4 at most and are no
\* multiples of 4, and a buffer that holds any two packets.
Loopable ==
  /\ Steady /\ FifoDepth \in Nat
  /\ \A f \in Packets : f.n % 4 # 0
  /\ \A f, g \in Packets : /\ f.n <= g.n + 4
                            /\ WordCount(f.n) + WordCount(g.n) <= FifoDepth

\* Every packet comes back once, whole, with its own payload in its own
\* order, although nothing queues the packets: a start that finds udp_tx
\* busy is lost, and its words stay in the buffer.
EchoesPackets ==
  /\ Len(owed) <= 2
  /\ tx_done => /\ owed # <<>> /\ sent = Head(owed)[2]
                /\ onPins = 8 + 14 + 28 + PadTo(sent) + 4
AllComeBack == owed # <<>> ~> tx_done

\* An ARP reply leaves as one whole frame: neither an echo that starts
\* meanwhile nor one that is still being sent takes the pins from it.
ArpWhole == arp_tx_done => arpOnPins = 8 + 14 + 46 + 4

\* Every ARP request is answered, also one that arrives during an echo.
ArpAnswered == asked > 0 ~> asked = 0

\* The loop-back of UDP packets: whatever lengths follow each other, each
\* packet that comes back has its own payload.
LoopsBack == tx_done => owed # <<>> /\ sent = Head(owed)[2]
=============================================================================
