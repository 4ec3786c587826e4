------------------------------- MODULE AhbUart --------------------------------
(***************************************************************************)
(* AHBUART (M0_SYS/AHBUART.v) with its two FIFOs, clock by clock: the      *)
(* AHB-Lite slave front end, the baud registers and the handshakes with    *)
(* UART_TX and UART_RX.  Of the two serial engines only what the slave     *)
(* sees is kept: UART_TX latches the byte at the head when it starts and   *)
(* raises tx_done some time later; UART_RX raises rx_done with a byte at   *)
(* any time.  Modules UartTx and UartRx have the engines themselves.       *)
(*                                                                         *)
(* phase is the transfer whose data phase it is.  HREADY is this slave's   *)
(* HREADYOUT while the bus mux has it selected and 1 otherwise.            *)
(***************************************************************************)
EXTENDS SyncFifo

CONSTANT Bauds  \* values of the baud register; the reset value is among them
CONSTANT Baud0  \* its reset value, 24 in the code
ASSUME BaudAssumption == Baud0 \in Bauds

VARIABLES
  phase,   \* last_HTRANS, last_HWRITE, last_HSEL, last_HADDR
  hwdata,  \* HWDATA of that data phase
  tx, rx,  \* uFIFO_TX, uFIFO_RX
  txBusy,  \* UART_TX is not in idle_st
  shift,   \* UART_TX's data register
  hbps,    \* huart_bps_time_reg
  bps,     \* uart_bps_t_reg: what both engines count by
  owed,    \* history: bytes whose write completed on the bus, not yet sent
  careful  \* history: the transfer in its data phase was begun with care

vars == <<phase, hwdata, tx, rx, txBusy, shift, hbps, bps, owed, careful>>

\* "other": another slave's data phase, or none.  "idle": this slave is
\* selected and nothing happens (HTRANS idle, or an address without effect).
Phases == {"other", "idle", "read", "write", "setbps"}

uart_rd == phase = "read"
uart_wr == phase = "write"

\* A definition whose name ends in Mut is a faulty variant of the next one;
\* no specification uses it.
HREADYOUTMut == ~tx.full /\ (uart_rd => ~rx.empty) \* a read waits for a byte
HREADYOUT == ~tx.full
HREADY == phase # "other" => HREADYOUT
uart_irq == ~rx.empty

Init ==
  /\ phase = "other" /\ hwdata \in Data
  /\ FifoInit(tx) /\ FifoInit(rx)
  /\ txBusy = FALSE /\ shift \in Data
  /\ hbps = Baud0 /\ bps = Baud0
  /\ owed = <<>> /\ careful = TRUE

\* The bus: while HREADY is high the next transfer enters its data phase.
Bus(p, v) ==
  IF HREADY
    THEN /\ phase' = p
         /\ hwdata' = IF p \in {"write", "setbps"} THEN v ELSE hwdata
    ELSE UNCHANGED <<phase, hwdata>>

\* The serial engine: starts on a byte, ends with tx_done.
TxEngine(tx_done) ==
  IF txBusy THEN txBusy' = ~tx_done /\ UNCHANGED shift
  ELSE IF tx.empty THEN UNCHANGED <<txBusy, shift>>
  ELSE txBusy' = TRUE /\ shift' = Head0(tx)

BaudMut ==  \* tx_empty not asked for
        /\ hbps' = IF phase = "setbps" THEN hwdata ELSE hbps
        /\ bps' = IF rx.empty THEN hbps ELSE bps

\* The engines' divisor follows the register only between bytes.
Baud == /\ hbps' = IF phase = "setbps" THEN hwdata ELSE hbps
        /\ bps' = IF tx.empty /\ rx.empty THEN hbps ELSE bps

\* A write adds a byte when it completes on the bus, tx_done takes one off.
Owed(tx_done) ==
  LET s == IF tx_done THEN Tail(owed) ELSE owed
  IN  owed' = IF uart_wr /\ HREADY THEN Append(s, hwdata) ELSE s

\* Care: a read is begun only when uart_irq promises a byte that no other
\* read is taking, and when it cannot meet a full TX FIFO.
Careful(p) ==
  p = "read" => /\ uart_irq /\ ~uart_rd
                /\ ~tx.full /\ (uart_wr => Count(tx) < Depth - 1)

\* What HWDATA may be in transfer p's data phase.
Carried(p) == CASE p = "setbps" -> Bauds [] p = "write" -> Data [] OTHER -> {hwdata}

\* One HCLK edge: transfer p enters (if it can), UART_TX ends or not,
\* UART_RX delivers byte d or not.
Tick(p, v, tx_done, rx_done, d) ==
  /\ tx_done => txBusy
  /\ Bus(p, v)
  /\ tx' = FifoStep(tx, tx_done, uart_wr, hwdata)
  /\ rx' = FifoStep(rx, uart_rd, rx_done, d)
  /\ TxEngine(tx_done)
  /\ Baud
  /\ Owed(tx_done)
  /\ careful' = IF HREADY THEN Careful(p) ELSE careful

Next == \E p \in Phases, tx_done, rx_done \in BOOLEAN, d \in Data :
          \E v \in Carried(p) : Tick(p, v, tx_done, rx_done, d)

Spec == Init /\ [][Next]_vars

\* HCLK runs, and UART_TX ends every byte it has begun.
Sends == \E p \in Phases, rx_done \in BOOLEAN, d \in Data :
           \E v \in Carried(p) : Tick(p, v, TRUE, rx_done, d)
FairSpec == Spec /\ WF_vars(Next) /\ WF_vars(Sends)

-----------------------------------------------------------------------------
TypeOK ==
  /\ phase \in Phases /\ hwdata \in Data \cup Bauds
  /\ phase = "write" => hwdata \in Data
  /\ phase = "setbps" => hwdata \in Bauds
  /\ tx \in Fifo /\ rx \in Fifo
  /\ txBusy \in BOOLEAN /\ shift \in Data
  /\ hbps \in Bauds /\ bps \in Bauds

\* Stalled or not, interleaved with the engine or not, the bytes whose
\* writes completed on the bus and have not gone out are exactly what the
\* TX FIFO holds, in order, and the one on the line is the first of them.
TxIntact == /\ Contents(tx) = owed
            /\ txBusy => owed # <<>> /\ shift = Head(owed)

\* full and empty never contradict the pointers, even when a read of the
\* empty FIFO meets an arriving byte.
FlagsAgree == FlagsOK(tx) /\ FlagsOK(rx)

\* The divisor never changes under a byte that is being sent.
TxOneBaud == [][bps' # bps => ~txBusy /\ ~txBusy']_vars

\* A read begun with care completes at once and takes the oldest received
\* byte, an arriving byte or not, and nothing else ever leaves the RX FIFO.
RxServed ==
  [][LET before == Contents(rx)
         kept == IF uart_rd THEN Tail(before) ELSE before
     IN  (uart_rd => careful) =>
           /\ uart_rd => HREADY /\ before # <<>>
           /\ SubSeq(Contents(rx'), 1, Len(kept)) = kept]_vars

\* A full TX FIFO stalls the bus, but not for ever.
BusMovesOn == ~HREADY ~> HREADY
=============================================================================
