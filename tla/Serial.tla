-------------------------------- MODULE Serial --------------------------------
(***************************************************************************)
(* The serial engines of the two boards, one of them powered at a time:    *)
(* UART_TX, UART_RX with a sender at its pin, the echo demo, or the MDIO   *)
(* master with its PHY.  The registers of the others rest as they were     *)
(* reset.                                                                  *)
(***************************************************************************)
EXTENDS Integers, Sequences, Mdio

CONSTANTS
  Bytes,              \* the bytes sent, as sequences of eight bits, the lowest first
  TxT, RxT,           \* UART_BPS_TIME of UART_TX and of UART_RX
  Bits, Stops,        \* the lengths of the bits UART_RX is sent
  BPS_CNT, EchoStops  \* the echo demo's bit, and the stop bits it is sent

\* With TxT = 0 UART_TX's counter would never meet T - 1 and it would hang.
ASSUME SerialAssumption ==
  /\ Bytes \subseteq [1 .. 8 -> {0, 1}]
  /\ TxT \in Nat \ {0} /\ RxT \in Nat
  /\ BPS_CNT \in Nat /\ BPS_CNT >= 2

VARIABLES
  powered,
  current_state, b_reg, count_reg, data_reg, bps_cnt_reg, tx_reg, byte,  \* UART_TX
  bit, stop, frame, at, line, owed,       \* a sender, and what it is owed
  rx_state, rx_b, rx_count, rx_data, rx_bps,                             \* UART_RX
  rxr, txr, tap                                                          \* the demo

TX == INSTANCE UartTx WITH T <- TxT
RX == INSTANCE UartRx WITH T <- RxT, current_state <- rx_state, b_reg <- rx_b,
        count_reg <- rx_count, data_reg <- rx_data, bps_cnt_reg <- rx_bps
Echo == INSTANCE UartEcho WITH Stops <- EchoStops

uart_tx == <<current_state, b_reg, count_reg, data_reg, bps_cnt_reg, tx_reg, byte>>
uart_rx == <<rx_state, rx_b, rx_count, rx_data, rx_bps>>
uart_top == <<rxr, txr, tap>>
sending == <<bit, stop, frame, at, line, owed>>
mdio_rw_test ==
  <<d0, d1, rst_trig_flag, timer_done, start_next, read_next, link_error, flow_cnt,
    speed_status, op_exec, op_rh_wl, op_addr, cur_state, cnt, st_done, op_code, addr_t,
    rd_data_t, op_done, op_rd_data, op_rd_ack, mdio_dir, mdio_out, eth_mdc,
    link, silent, ones, n, heard, answer, took>>
uarts == <<uart_tx, uart_rx, uart_top, sending>>
vars == <<powered, uarts, mdio_rw_test>>

NoSender == bit = 0 /\ stop = 0 /\ frame = <<>> /\ at = 0 /\ line = 1 /\ owed = <<>>

Init ==
  /\ TX!Init /\ RX!EngineInit /\ Echo!BoardInit /\ MdioReset
  /\ \/ powered = "UART_TX" /\ NoSender /\ link = -1
     \/ powered = "UART_RX" /\ RX!Init /\ link = -1
     \/ powered = "uart_top" /\ Echo!Init /\ link = -1
     \/ powered = "mdio_rw_test" /\ NoSender /\ link \in Links

ClockTx ==
  powered = "UART_TX" /\ TX!Next /\ UNCHANGED <<powered, uart_rx, uart_top, sending, mdio_rw_test>>
ClockRx == powered = "UART_RX" /\ RX!Next /\ UNCHANGED <<powered, uart_tx, uart_top, mdio_rw_test>>
ClockEcho ==
  powered = "uart_top" /\ Echo!Next /\ UNCHANGED <<powered, uart_tx, uart_rx, mdio_rw_test>>
ClockMdio == powered = "mdio_rw_test" /\ MdioNext /\ UNCHANGED <<powered, uarts>>

Next == ClockTx \/ ClockRx \/ ClockEcho \/ ClockMdio

\* The clocks run.  A sender finishes what it began; it need not begin.  When
\* mdio_ctrl has nothing to do its timer comes round.
Running ==
  \/ ClockTx
  \/ ClockEcho /\ (frame = <<>> => frame' = <<>>)
  \/ ClockMdio /\ (MdioRests => timer_done')
Spec == Init /\ [][Next]_vars /\ WF_vars(Running)

-----------------------------------------------------------------------------
\* The properties of the engines, each stated in its module.

\* The registers stay in range (uart_tx.v, uart_rx.v, uart_top.v).
TypeOK ==
  /\ TX!TypeOK /\ RX!TypeOK /\ Echo!RegistersOK
  /\ Len(owed) <= 3
\* UART_TX's line carries each byte as one whole frame (uart_tx.v).
SendsFrames == TX!SendsFrames
\* UART_TX ends every byte it has begun (uart_tx.v).
Finishes == TX!Finishes
\* UART_RX delivers each frame's byte once, before the next (uart_rx.v).
ReadsFrames == powered = "UART_RX" => RX!ReadsFrames
\* uart_rx.v's "8 Data bits": the eight samples are the sender's eight data bits.
EightDataBits == powered = "UART_RX" => RX!EightDataBits
\* The echo demo sends back what it gets, in order (uart_top.v) ...
EchoesInOrder == powered = "uart_top" => Echo!EchoesInOrder
\* ... and all of it.
EchoesAll == (powered = "uart_top" /\ owed # <<>>) ~> tap.got # <<>>
\* The LEDs come to show the link, once it stays, the PHY answers and the key
\* rests, whatever reads were given up before (mdio_ctrl.v).
LedSettles == \A l \in Links :
  <>[](powered = "mdio_rw_test" /\ link = l /\ ~silent /\ ~d0) => <>[](led = Shown(l))
=============================================================================
