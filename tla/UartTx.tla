-------------------------------- MODULE UartTx --------------------------------
(***************************************************************************)
(* UART_TX (M0_SYS/uart_tx.v), clock by clock: the baud counter and the    *)
(* bit state machine.  The byte comes from the head of the TX FIFO, which  *)
(* may or may not hold one whenever the engine is idle.                    *)
(***************************************************************************)
EXTENDS Integers, Sequences

CONSTANTS
  Bytes,   \* the bytes to send, as sequences of eight bits, the lowest first
  T        \* UART_BPS_TIME, at least 1; it holds still while a byte is sent (AhbUart)

\* A definition whose name ends in Mut is a faulty variant of the next one;
\* no specification uses it.

VARIABLES
  current_state, b_reg, count_reg,
  data_reg,    \* what is still to be shifted out
  bps_cnt_reg,
  tx_reg,      \* the line
  byte         \* history: the byte of the frame being sent, <<>> when idle

vars == <<current_state, b_reg, count_reg, data_reg, bps_cnt_reg, tx_reg, byte>>

b_tick == bps_cnt_reg = T - 1

Init ==
  /\ current_state = "idle" /\ b_reg = 0 /\ count_reg = 0
  /\ data_reg = [i \in 1 .. 8 |-> 0]
  /\ bps_cnt_reg = 0 /\ tx_reg = 1
  /\ byte = <<>>

Count ==
  bps_cnt_reg' = IF current_state # "idle" /\ bps_cnt_reg < T - 1 THEN bps_cnt_reg + 1 ELSE 0

Idle ==
  /\ current_state = "idle"
  /\ tx_reg' = 1
  /\ UNCHANGED <<current_state, b_reg, count_reg, data_reg, byte>>

Load(d) ==
  /\ current_state = "idle"
  /\ tx_reg' = 1
  /\ current_state' = "start" /\ b_reg' = 0 /\ data_reg' = d /\ byte' = d
  /\ UNCHANGED count_reg

\* Between ticks nothing but the line register moves; a tick that is not
\* the state's last counts.
Hold(last) ==
  /\ ~(b_tick /\ b_reg = last)
  /\ b_reg' = IF b_tick THEN b_reg + 1 ELSE b_reg
  /\ UNCHANGED <<current_state, count_reg, data_reg, byte>>

Start ==
  /\ current_state = "start"
  /\ tx_reg' = 0
  /\ \/ Hold(1)
     \/ /\ b_tick /\ b_reg = 1
        /\ current_state' = "data" /\ b_reg' = 0 /\ count_reg' = 0
        /\ UNCHANGED <<data_reg, byte>>

Shift == Append(Tail(data_reg), 0)

DataMut ==                       \* counts seven bits
  /\ current_state = "data"
  /\ tx_reg' = data_reg[1]
  /\ \/ Hold(1)
     \/ /\ b_tick /\ b_reg = 1
        /\ b_reg' = 0 /\ data_reg' = Shift
        /\ IF count_reg = 6
             THEN current_state' = "stop" /\ UNCHANGED count_reg
             ELSE count_reg' = count_reg + 1 /\ UNCHANGED current_state
        /\ UNCHANGED byte

Data ==
  /\ current_state = "data"
  /\ tx_reg' = data_reg[1]
  /\ \/ Hold(1)
     \/ /\ b_tick /\ b_reg = 1
        /\ b_reg' = 0 /\ data_reg' = Shift
        /\ IF count_reg = 7
             THEN current_state' = "stop" /\ UNCHANGED count_reg
             ELSE count_reg' = count_reg + 1 /\ UNCHANGED current_state
        /\ UNCHANGED byte

\* tx_done
Done == current_state = "stop" /\ b_tick /\ b_reg = 3

StopMut ==                       \* next_state left at its default
  /\ current_state = "stop"
  /\ tx_reg' = 1
  /\ \/ Hold(3)
     \/ Done /\ UNCHANGED <<current_state, byte, b_reg, count_reg, data_reg>>

Stop ==
  /\ current_state = "stop"
  /\ tx_reg' = 1
  /\ \/ Hold(3)
     \/ /\ Done
        /\ current_state' = "idle" /\ byte' = <<>>
        /\ UNCHANGED <<b_reg, count_reg, data_reg>>

Next == /\ Count
        /\ \/ Idle
           \/ \E d \in Bytes : Load(d)
           \/ Start \/ Data \/ Stop

Spec == Init /\ [][Next]_vars
\* The clock runs.
FairSpec == Spec /\ WF_vars(Next)

-----------------------------------------------------------------------------
TypeOK ==
  /\ current_state \in {"idle", "start", "data", "stop"}
  /\ b_reg \in 0 .. 3 /\ count_reg \in 0 .. 7
  /\ bps_cnt_reg \in 0 .. (T - 1)
  /\ data_reg \in [1 .. 8 -> {0, 1}]
  /\ tx_reg \in {0, 1}
  /\ byte \in Bytes \cup {<<>>}

\* The clocks of the frame that have passed.
Elapsed ==
  CASE current_state = "idle"  -> 0
    [] current_state = "start" -> b_reg * T + bps_cnt_reg
    [] current_state = "data"  -> 2 * T + 2 * T * count_reg + b_reg * T + bps_cnt_reg
    [] current_state = "stop"  -> 18 * T + b_reg * T + bps_cnt_reg

Line == INSTANCE UartFrame WITH
  Bits <- {2 * T}, Stops <- {4 * T}, bit <- 2 * T, stop <- 4 * T,
  frame <- byte, at <- Elapsed, line <- tx_reg
\* Every byte goes out as one whole frame: a start bit, its eight bits, the
\* lowest first, and a stop bit, each of exactly two baud ticks (the stop
\* bit of four), whatever the register contents the last frame left.
SendsFrames == Line!Spec

\* No byte stays in the engine for ever: this is the fairness AhbUart
\* assumes of it.
Finishes == byte # <<>> ~> byte = <<>>
=============================================================================
