-------------------------------- MODULE UartRx --------------------------------
(***************************************************************************)
(* UART_RX (M0_SYS/uart_rx.v), clock by clock, against a sender whose bits *)
(* last any of the lengths in Bits (UartFrame, counted in HCLK clocks).    *)
(*                                                                         *)
(* rx comes straight from the pin into the state machine.  A clock edge    *)
(* that meets a change of the line catches it old or new, each register    *)
(* on its own: the machine may start with b_reg not cleared, or clear it   *)
(* without starting.                                                       *)
(***************************************************************************)
EXTENDS Integers, Sequences

CONSTANTS
  Bytes,   \* the bytes sent, as sequences of eight bits, the lowest first
  T,       \* UART_BPS_TIME
  Bits,    \* lengths of the sender's bits
  Stops    \* lengths of its stop bit

\* A definition whose name ends in Mut is a faulty variant of the next one;
\* no specification uses it.

VARIABLES
  bit, stop, frame, at, line,                  \* the sender and its line
  current_state, b_reg, count_reg, data_reg, bps_cnt_reg,
  owed         \* history: bytes begun by the sender and not yet delivered

sender == <<bit, stop, frame, at, line>>
engine == <<current_state, b_reg, count_reg, data_reg, bps_cnt_reg>>
vars == <<sender, engine, owed>>

Sender == INSTANCE UartFrame

\* The counter runs from 0 to T: a tick every T + 1 clocks.
b_tick == bps_cnt_reg = T

EngineInit ==
  /\ current_state = "idle" /\ b_reg = 0 /\ count_reg = 0
  /\ data_reg = [i \in 1 .. 8 |-> 0]
  /\ bps_cnt_reg = 0

Init == Sender!Init /\ EngineInit /\ owed = <<>>

Count ==
  bps_cnt_reg' = IF current_state # "idle" /\ bps_cnt_reg < T THEN bps_cnt_reg + 1 ELSE 0

\* What a register catches of the line at this edge.
Seen == {line, line'}

Idle ==
  /\ current_state = "idle"
  /\ \E s \in Seen : current_state' = IF s = 0 THEN "start" ELSE "idle"
  /\ \E s \in Seen : b_reg' = IF s = 0 THEN 0 ELSE b_reg
  /\ UNCHANGED <<count_reg, data_reg>>

\* A state's first tick counts, its second ends it.
Tick1 ==
  /\ ~(b_tick /\ b_reg = 1)
  /\ b_reg' = IF b_tick THEN b_reg + 1 ELSE b_reg
  /\ UNCHANGED <<current_state, count_reg, data_reg>>

Start ==
  /\ current_state = "start"
  /\ \/ Tick1
     \/ /\ b_tick /\ b_reg = 1
        /\ current_state' = "data" /\ b_reg' = 0 /\ count_reg' = 0
        /\ UNCHANGED data_reg

\* {rx, data_reg[7:1]}
ShiftIn == \E s \in Seen : data_reg' = Append(Tail(data_reg), s)

DataMut ==                       \* count_reg looked at after the increment
  /\ current_state = "data"
  /\ \/ Tick1
     \/ /\ b_tick /\ b_reg = 1
        /\ b_reg' = 0 /\ ShiftIn
        /\ IF count_reg + 1 = 7
             THEN current_state' = "stop" /\ UNCHANGED count_reg
             ELSE count_reg' = count_reg + 1 /\ UNCHANGED current_state

Data ==
  /\ current_state = "data"
  /\ \/ Tick1
     \/ /\ b_tick /\ b_reg = 1
        /\ b_reg' = 0 /\ ShiftIn
        /\ IF count_reg = 7
             THEN current_state' = "stop" /\ UNCHANGED count_reg
             ELSE count_reg' = count_reg + 1 /\ UNCHANGED current_state

rx_done == current_state = "stop" /\ b_tick /\ b_reg = 1

\* b_reg stays 1 when the byte is done.
Stop ==
  /\ current_state = "stop"
  /\ \/ Tick1
     \/ rx_done /\ current_state' = "idle" /\ UNCHANGED <<b_reg, count_reg, data_reg>>

Engine == Count /\ (Idle \/ Start \/ Data \/ Stop)

\* A frame begun is owed to the receiver; rx_done delivers the oldest.
Owed == LET left == IF rx_done /\ owed # <<>> THEN Tail(owed) ELSE owed
        IN  owed' = IF frame = <<>> /\ frame' # <<>> THEN Append(left, frame') ELSE left

Next == Sender!Next /\ Engine /\ Owed

Spec == Init /\ [][Next]_vars

-----------------------------------------------------------------------------
TypeOK ==
  /\ current_state \in {"idle", "start", "data", "stop"}
  /\ b_reg \in 0 .. 1 /\ count_reg \in 0 .. 7
  /\ bps_cnt_reg \in 0 .. T
  /\ data_reg \in [1 .. 8 -> {0, 1}]

\* rx_done comes once for each frame, with that frame's byte, before the
\* next frame begins: no bit is missed, read twice, or taken from the start
\* or the stop bit, although the sender's clock is another.
ReadsFrames ==
  /\ rx_done => owed # <<>> /\ data_reg = Head(owed)
  /\ Len(owed) <= 1
  /\ frame = <<>> /\ line = 1 => owed = <<>>

\* "8 Data bits": the eight samples are the sender's eight data bits.
EightDataBits == rx_done => owed # <<>> /\ data_reg = Head(owed)
=============================================================================
