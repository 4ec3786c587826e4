------------------------------- MODULE MCSerial -------------------------------
EXTENDS Serial

\* Each is unlike its own shifts by one bit, at both ends, and unlike the
\* other's complement.
MCBytes == {<<1, 0, 0, 1, 0, 1, 1, 0>>, <<0, 0, 1, 0, 1, 0, 0, 1>>}

\* With RxT = 31: longer than 2 * (RxT + 1) clocks, by less than an eighteenth
\* of that.  At 64 the first sample falls on an edge of the line; at 68,
\* after a start with b_reg not cleared, the last one does.
MCBits == {65, 67}
MCStops == {65, 134}

\* The bits of UART_RX's own board's transmitter: 2 * RxT, the stop bit twice
\* that.
OwnBits == {62}
OwnStops == {124}

\* BPS_CNT is 5.  A stop bit of 4 clocks is a sender two per cent fast; with
\* 3 the receiver may still be in the last frame when the next one starts.
MCEchoStops == {4, 5, 6}

\* All there are: down, 10, 100 and 1000 Mbit/s.
MCLinks == -1 .. 2
=============================================================================
