------------------------------- MODULE UartEcho -------------------------------
(***************************************************************************)
(* uart_demo_prj: uart_rx and uart_tx wired back to back by uart_top, so   *)
(* that every byte received is sent again.  One step is one sys_clk edge.  *)
(* The sender is a UartFrame; the echo is judged by Tap, a receiver that   *)
(* reads uart_tx in the middle of each bit.                                *)
(***************************************************************************)
EXTENDS Integers, Sequences

CONSTANTS
  Bytes,    \* the bytes sent, as sequences of eight bits, the lowest first
  BPS_CNT,  \* clocks per bit in both engines, at least 2
  Stops     \* lengths of the sender's stop bit, in clocks

\* A definition whose name ends in Mut is a faulty variant of the next one;
\* no specification uses it.

VARIABLES
  bit, stop, frame, at, line,  \* the sender and its line, uart_rx
  rxr,                         \* uart_rx's registers
  txr,                         \* uart_tx's registers
  tap,                         \* the receiver at uart_tx
  owed                         \* history: bytes sent and not yet echoed

sender == <<bit, stop, frame, at, line>>
vars == <<sender, rxr, txr, tap, owed>>

Sender == INSTANCE UartFrame WITH Bits <- {BPS_CNT}

Half == BPS_CNT \div 2
Zeros == [i \in 1 .. 8 |-> 0]

RxInit == [d0 |-> 0, d1 |-> 0, flag |-> FALSE, bps |-> 0, cnt |-> 0,
           data |-> Zeros, rxd |-> Zeros, done |-> FALSE]
TxInit == [d0 |-> FALSE, d1 |-> FALSE, flag |-> FALSE, bps |-> 0, cnt |-> 0,
           data |-> Zeros, out |-> 1]
TapInit == [busy |-> FALSE, t |-> 0, data |-> Zeros, last |-> 1, got |-> <<>>]

BoardInit == rxr = RxInit /\ txr = TxInit /\ tap = TapInit
Init == Sender!Init /\ BoardInit /\ owed = <<>>

\* bps_cnt and rx_cnt (tx_cnt), 16 and 4 bits wide, run while flag is up.
Bps(r) == IF r.flag /\ r.bps < BPS_CNT - 1 THEN r.bps + 1 ELSE 0
Cnt(r) == IF ~r.flag THEN 0
          ELSE IF r.bps < BPS_CNT - 1 THEN r.cnt ELSE (r.cnt + 1) % 16

\* uart_rx: the flag goes up on a falling edge of the synchronised line and
\* down in the middle of the stop bit; a byte is complete from rx_cnt 9 on.
RxFlag(r) == LET start_flag == r.d1 = 1 /\ r.d0 = 0
             IN  IF start_flag THEN TRUE
                 ELSE IF r.bps = Half /\ r.cnt = 9 THEN FALSE ELSE r.flag
RxData(r) == IF ~r.flag THEN Zeros
             ELSE IF r.bps = Half /\ r.cnt \in 1 .. 8
               THEN [r.data EXCEPT ![r.cnt] = r.d1] ELSE r.data
RxEdge(r, rx) ==
  [d0 |-> rx, d1 |-> r.d0, flag |-> RxFlag(r), bps |-> Bps(r), cnt |-> Cnt(r),
   data |-> RxData(r),
   done |-> r.cnt = 9, rxd |-> IF r.cnt = 9 THEN r.data ELSE Zeros]

\* uart_tx: a rising tx_en (for two clocks) loads uart_din and starts, or
\* restarts the data of, a frame; the flag goes down half way through the
\* stop bit.
StartFlagMut(r, en) == en /\ r.d1 /\ ~r.d0  \* the two registers swapped
StartFlag(r, en) == en /\ ~r.d1
TxFlagMut(r, en) == IF StartFlag(r, en) THEN TRUE
                    ELSE IF r.cnt = 10 /\ r.bps = Half THEN FALSE ELSE r.flag
TxFlag(r, en) == IF StartFlag(r, en) THEN TRUE
                 ELSE IF r.cnt = 9 /\ r.bps = Half THEN FALSE ELSE r.flag
TxData(r, en, din) == IF StartFlag(r, en) THEN din
                      ELSE IF r.cnt = 9 /\ r.bps = Half THEN Zeros ELSE r.data
TxOut(r) == IF ~r.flag THEN 1
            ELSE IF r.cnt = 0 THEN 0
            ELSE IF r.cnt \in 1 .. 8 THEN r.data[r.cnt] ELSE 1
TxEdge(r, en, din) ==
  [d0 |-> en, d1 |-> r.d0, flag |-> TxFlag(r, en), bps |-> Bps(r), cnt |-> Cnt(r),
   data |-> TxData(r, en, din), out |-> TxOut(r)]

\* The ideal receiver: it starts on a falling edge, samples the middle of
\* each bit, and wants to see the stop bit high.
TapEdge(p, tx) ==
  LET k == p.t \div BPS_CNT
      mid == p.busy /\ p.t % BPS_CNT = Half
  IN  IF ~p.busy
        THEN [p EXCEPT !.busy = p.last = 1 /\ tx = 0, !.t = 1, !.last = tx, !.got = <<>>]
      ELSE [p EXCEPT !.t = p.t + 1, !.last = tx,
                     !.data = IF mid /\ k \in 1 .. 8 THEN [p.data EXCEPT ![k] = tx] ELSE p.data,
                     !.busy = ~(mid /\ k = 9),
                     !.got = IF ~(mid /\ k = 9) THEN <<>>
                             ELSE IF tx = 1 THEN <<p.data>> ELSE <<Zeros>>]

MaxOwed == 4  \* the history's bound, beyond what TypeOK allows

\* The first flip-flop catches a change of the line old or new.
Edge == /\ \E s \in {line, line'} : rxr' = RxEdge(rxr, s)
        /\ txr' = TxEdge(txr, rxr.done, rxr.rxd)
        /\ tap' = TapEdge(tap, txr.out)
        /\ LET left == IF tap.got = <<>> \/ owed = <<>> THEN owed ELSE Tail(owed)
           IN  owed' = IF frame = <<>> /\ frame' # <<>> /\ Len(left) < MaxOwed
                         THEN Append(left, frame') ELSE left

Next == Sender!Next /\ Edge
Spec == Init /\ [][Next]_vars
\* The clock runs and the sender finishes what it began; it need not begin.
FairSpec == Spec /\ WF_vars(Next /\ (frame = <<>> => frame' = <<>>))

-----------------------------------------------------------------------------
RegistersOK ==
  /\ rxr.bps \in 0 .. (BPS_CNT - 1) /\ rxr.cnt \in 0 .. 9
  /\ txr.bps \in 0 .. (BPS_CNT - 1) /\ txr.cnt \in 0 .. 9
  /\ rxr.data \in [1 .. 8 -> {0, 1}] /\ txr.data \in [1 .. 8 -> {0, 1}]
TypeOK == RegistersOK /\ Len(owed) <= 3

\* The echo sends back the bytes it receives, whole and in order, also when
\* they come without a pause: the next byte is received while this one is
\* still being sent, with no buffer between the two.
EchoesInOrder == tap.got # <<>> => owed # <<>> /\ tap.got[1] = Head(owed)

\* And none stays behind.
EchoesAll == owed # <<>> ~> tap.got # <<>>
=============================================================================
