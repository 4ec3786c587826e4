-------------------------------- MODULE UdpTx --------------------------------
(***************************************************************************)
(* udp_tx (ETH/ETH_UDP/udp_tx.v), clock by clock.  tx_start_en starts a    *)
(* frame of tx_byte_num payload bytes, which are fetched from the buffer   *)
(* in words of four: tx_req asks for one, tx_data shows it a clock later.  *)
(* Header bytes and the CRC are not told apart on gmii_txd; a payload byte *)
(* is the one of tx_data that is on it.                                    *)
(***************************************************************************)
EXTENDS Integers

CONSTANT LenSize   \* 2 ** (width of the length registers), 65536 in the code

\* A definition whose name ends in Mut is a faulty variant of the next one;
\* no specification uses it.

VARIABLES
  start_en_d0, start_en_d1, trig_tx_en, tx_data_num,
  tx_state, tx_skip, tx_cnt, tx_bit_sel, data_sent, real_add_cnt,
  tx_req, tx_done_t, tx_done,
  gmii_tx_en, gmii_txd   \* gmii_txd: a byte of tx_data, or <<>> for any other

tx == <<start_en_d0, start_en_d1, trig_tx_en, tx_data_num, tx_state, tx_skip, tx_cnt,
        tx_bit_sel, data_sent, real_add_cnt, tx_req, tx_done_t, tx_done,
        gmii_tx_en, gmii_txd>>

MIN_DATA_NUM == 18

TxInit ==
  /\ start_en_d0 = FALSE /\ start_en_d1 = FALSE /\ trig_tx_en = FALSE
  /\ tx_data_num = 0 /\ tx_state = "idle" /\ tx_skip = FALSE
  /\ tx_cnt = 0 /\ tx_bit_sel = 0 /\ data_sent = 0 /\ real_add_cnt = 0
  /\ tx_req = FALSE /\ tx_done_t = FALSE /\ tx_done = FALSE
  /\ gmii_tx_en = FALSE /\ gmii_txd = <<>>

tx_next ==
  LET after == [idle |-> "check_sum", check_sum |-> "preamble", preamble |-> "eth_head",
                eth_head |-> "ip_head", ip_head |-> "tx_data", tx_data |-> "crc", crc |-> "idle"]
  IN  IF tx_skip THEN after[tx_state] ELSE tx_state

pos_start_en == start_en_d0 /\ ~start_en_d1

\* The start pulse and the length, which is taken only in the idle state.
Start(tx_start_en, tx_byte_num) ==
  /\ start_en_d0' = tx_start_en /\ start_en_d1' = start_en_d0
  /\ trig_tx_en' = pos_start_en
  /\ tx_data_num' = IF pos_start_en /\ tx_state = "idle" THEN tx_byte_num ELSE tx_data_num

KeepData == UNCHANGED <<data_sent, real_add_cnt>>
\* A stretch of n clocks counted by cnt, in which nothing else moves.
Stretch(n) == /\ tx_skip' = (tx_cnt = n - 1)
              /\ tx_cnt' = IF tx_cnt = n - 1 THEN 0 ELSE tx_cnt + 1
              /\ tx_req' = FALSE /\ tx_done_t' = FALSE
              /\ UNCHANGED tx_bit_sel /\ KeepData

IdleMut == /\ tx_next = "idle"            \* a start with less than a full frame ignored
           /\ tx_skip' = (trig_tx_en /\ tx_data_num >= MIN_DATA_NUM)
           /\ tx_req' = FALSE /\ tx_done_t' = FALSE
           /\ UNCHANGED <<tx_cnt, tx_bit_sel>> /\ KeepData
Idle == /\ tx_next = "idle"
        /\ tx_skip' = trig_tx_en
        /\ tx_req' = FALSE /\ tx_done_t' = FALSE
        /\ UNCHANGED <<tx_cnt, tx_bit_sel>> /\ KeepData
CheckSum == tx_next = "check_sum" /\ Stretch(4)
Preamble == tx_next = "preamble" /\ Stretch(8)
EthHead == tx_next = "eth_head" /\ Stretch(14)

\* Seven words of header; the first payload word is asked for ahead.
IpHead == /\ tx_next = "ip_head"
          /\ tx_bit_sel' = (tx_bit_sel + 1) % 4
          /\ tx_cnt' = IF tx_bit_sel # 3 THEN tx_cnt ELSE IF tx_cnt = 6 THEN 0 ELSE tx_cnt + 1
          /\ tx_skip' = (tx_bit_sel = 3 /\ tx_cnt = 6)
          /\ tx_req' = (tx_bit_sel = 2 /\ tx_cnt = 6)
          /\ tx_done_t' = FALSE /\ KeepData

Padded == IF tx_data_num >= MIN_DATA_NUM THEN tx_data_num ELSE MIN_DATA_NUM
LastSent == (tx_data_num - 1) % LenSize
Ends == data_sent = LastSent /\ data_sent + real_add_cnt >= (Padded - 1) % LenSize

TxDataMut == /\ tx_next = "tx_data"     \* tx_bit_sel not cleared at the end
             /\ data_sent' = IF data_sent < LastSent THEN data_sent + 1
                             ELSE IF Ends THEN 0 ELSE data_sent
             /\ real_add_cnt' = IF data_sent # LastSent THEN real_add_cnt
                                ELSE IF Ends THEN 0 ELSE real_add_cnt + 1
             /\ tx_bit_sel' = (tx_bit_sel + 1) % 4
             /\ tx_skip' = Ends
             /\ tx_req' = (tx_bit_sel = 2 /\ data_sent # LastSent)
             /\ tx_done_t' = FALSE /\ UNCHANGED tx_cnt

TxData == /\ tx_next = "tx_data"
          /\ data_sent' = IF data_sent < LastSent THEN data_sent + 1
                          ELSE IF Ends THEN 0 ELSE data_sent
          /\ real_add_cnt' = IF data_sent # LastSent THEN real_add_cnt
                             ELSE IF Ends THEN 0 ELSE real_add_cnt + 1
          /\ tx_bit_sel' = IF Ends THEN 0 ELSE (tx_bit_sel + 1) % 4
          /\ tx_skip' = Ends
          /\ tx_req' = (tx_bit_sel = 2 /\ data_sent # LastSent)
          /\ tx_done_t' = FALSE /\ UNCHANGED tx_cnt

Crc == /\ tx_next = "crc"
       /\ tx_bit_sel' = (tx_bit_sel + 1) % 4
       /\ tx_skip' = (tx_bit_sel = 3) /\ tx_done_t' = (tx_bit_sel = 3)
       /\ tx_req' = FALSE /\ UNCHANGED tx_cnt /\ KeepData

Transmit(tx_start_en, tx_byte_num, tx_data) ==
  /\ Start(tx_start_en, tx_byte_num)
  /\ tx_state' = tx_next
  /\ Idle \/ CheckSum \/ Preamble \/ EthHead \/ IpHead \/ TxData \/ Crc
  /\ gmii_tx_en' = (tx_next \notin {"idle", "check_sum"})
  /\ gmii_txd' = IF tx_next = "tx_data" THEN tx_data[tx_bit_sel] ELSE <<>>
  /\ tx_done' = tx_done_t
=============================================================================
