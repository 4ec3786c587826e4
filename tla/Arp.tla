--------------------------------- MODULE Arp ---------------------------------
(***************************************************************************)
(* arp_rx and arp_tx (ETH/ETH_ARP), clock by clock.  The receiver follows  *)
(* the same line as udp_rx and raises arp_rx_done for a request to this    *)
(* board; the transmitter sends a frame of fixed length.                   *)
(*                                                                         *)
(* Only whole frames are considered here: the receiver is always in step.  *)
(***************************************************************************)
EXTENDS Integers

CONSTANTS Frames, MinGap, Ids   \* of GmiiLine

VARIABLES
  frame, id, pos, gap,
  arp_state, arp_skip, arp_error, arp_cnt, arp_rx_done,
  tx_en_d0, tx_en_d1, atx_state, atx_skip, atx_cnt, atx_done_t, arp_tx_done,
  arp_gmii_tx_en

Line == INSTANCE GmiiLine
arp_rx == <<arp_state, arp_skip, arp_error, arp_cnt, arp_rx_done>>
arp_tx == <<tx_en_d0, tx_en_d1, atx_state, atx_skip, atx_cnt, atx_done_t, arp_tx_done,
            arp_gmii_tx_en>>

dv == gap = 0

Init ==
  /\ arp_state = "idle" /\ arp_skip = FALSE /\ arp_error = FALSE /\ arp_cnt = 0
  /\ arp_rx_done = FALSE
  /\ tx_en_d0 = FALSE /\ tx_en_d1 = FALSE
  /\ atx_state = "idle" /\ atx_skip = FALSE /\ atx_cnt = 0
  /\ atx_done_t = FALSE /\ arp_tx_done = FALSE /\ arp_gmii_tx_en = FALSE

rx_next ==
  LET after == [idle |-> "preamble", preamble |-> "eth", eth |-> "arp", arp |-> "end",
                end |-> "idle"]
  IN  IF arp_skip THEN after[arp_state]
      ELSE IF arp_error /\ arp_state \in {"preamble", "eth", "arp"} THEN "end"
      ELSE arp_state

Go(skip, err, c) == arp_skip' = skip /\ arp_error' = err /\ arp_cnt' = c

RxIdle == /\ rx_next = "idle"
          /\ \E b \in Line!gmii_rxd : Go(dv /\ b = "55", FALSE, arp_cnt)
RxPreamble == /\ rx_next = "preamble" /\ dv
              /\ \E b \in Line!gmii_rxd :
                   IF arp_cnt < 6 THEN Go(FALSE, b # "55", arp_cnt + 1)
                   ELSE IF arp_cnt = 6 THEN Go(b = "d5", b # "d5", 0)
                   ELSE Go(FALSE, FALSE, arp_cnt + 1)
\* The MAC address is looked at one byte after its last, the type at the end.
RxEth == /\ rx_next = "eth" /\ dv
         /\ IF arp_cnt = 6 THEN Go(FALSE, frame.kind = "mac", 7)
            ELSE IF arp_cnt = 13 THEN Go(frame.kind = "arp", frame.kind # "arp", 0)
            ELSE Go(FALSE, FALSE, arp_cnt + 1)
\* A request is recognised one byte after its 28.
RxArp == /\ rx_next = "arp" /\ dv
         /\ IF arp_cnt = 28 THEN Go(TRUE, FALSE, 0) ELSE Go(FALSE, FALSE, arp_cnt + 1)
RxEnd == rx_next = "end" /\ Go(~dv /\ ~arp_skip, FALSE, 0)
RxWait == /\ ~dv /\ rx_next \notin {"idle", "end"}
          /\ Go(FALSE, FALSE, arp_cnt)

Receive ==
  /\ arp_state' = rx_next
  /\ RxIdle \/ RxPreamble \/ RxEth \/ RxArp \/ RxEnd \/ RxWait
  /\ arp_rx_done' = (rx_next = "arp" /\ dv /\ arp_cnt = 28)

\* The lengths of the frame's parts: preamble, Ethernet header, the 28 bytes
\* of ARP padded to 46, CRC.
Clocks == [preamble |-> 8, eth |-> 14, arp |-> 46, crc |-> 4]

tx_next ==
  LET after == [idle |-> "preamble", preamble |-> "eth", eth |-> "arp", arp |-> "crc",
                crc |-> "idle"]
  IN  IF atx_skip THEN after[atx_state] ELSE atx_state

\* A rising arp_tx_en starts a frame, if the transmitter is idle.
TxIdle == /\ tx_next = "idle"
          /\ atx_skip' = (tx_en_d0 /\ ~tx_en_d1)
          /\ atx_done_t' = FALSE /\ UNCHANGED atx_cnt
TxPart == /\ tx_next # "idle"
          /\ LET last == atx_cnt = Clocks[tx_next] - 1
             IN  /\ atx_skip' = last
                 /\ atx_cnt' = IF last THEN 0 ELSE atx_cnt + 1
                 /\ atx_done_t' = (last /\ tx_next = "crc")

Transmit(arp_tx_en) ==
  /\ tx_en_d0' = arp_tx_en /\ tx_en_d1' = tx_en_d0
  /\ atx_state' = tx_next
  /\ TxIdle \/ TxPart
  /\ arp_gmii_tx_en' = (tx_next # "idle")
  /\ arp_tx_done' = atx_done_t
=============================================================================
