------------------------------ MODULE UartFrame ------------------------------
(***************************************************************************)
(* What a serial line carries: frames of a start bit, eight data bits, the *)
(* lowest first, and a stop bit, on a line that rests high.  It is what    *)
(* UART_TX promises (module UartTx implements it) and what UART_RX may     *)
(* expect of the other end (module UartRx reads it).                       *)
(***************************************************************************)
EXTENDS Naturals, Sequences

CONSTANTS
  Bytes,   \* the bytes sent, as sequences of eight bits, the lowest first
  Bits,    \* the lengths a bit may have, in clocks of the observer
  Stops    \* the lengths a stop bit may have

VARIABLES
  bit, stop,  \* the lengths in use
  frame,      \* <<>> or the byte on its way
  at,         \* the clocks of the frame that have passed
  line

Level(d, k) == IF k = 0 THEN 0 ELSE IF k <= 8 THEN d[k] ELSE 1

Init == /\ bit \in Bits /\ stop \in Stops
        /\ frame = <<>> /\ at = 0 /\ line = 1

Rest == frame = <<>> /\ line' = 1 /\ UNCHANGED <<bit, stop, frame, at>>

Begin(d) == /\ frame = <<>>
            /\ frame' = d /\ at' = 0 /\ line' = 1
            /\ UNCHANGED <<bit, stop>>

Send == /\ frame # <<>>
        /\ line' = Level(frame, at \div bit)
        /\ IF at + 1 < 9 * bit + stop
             THEN at' = at + 1 /\ UNCHANGED frame
             ELSE at' = 0 /\ frame' = <<>>
        /\ UNCHANGED <<bit, stop>>

Next == Rest \/ Send \/ \E d \in Bytes : Begin(d)

vars == <<bit, stop, frame, at, line>>
Spec == Init /\ [][Next]_vars
=============================================================================
