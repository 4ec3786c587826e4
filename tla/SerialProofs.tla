----------------------------- MODULE SerialProofs -----------------------------
(***************************************************************************)
(* The serial engines for every baud divisor and bit length: what UART_TX  *)
(* puts on its line, what UART_RX makes of a sender whose clock is         *)
(* another, and the echo demo, which sends back all it gets.               *)
(***************************************************************************)
EXTENDS Serial, SequenceTheorems, TLAPS

\* The quotient of a division is the number of whole divisors.
LEMMA Quotient ==
  ASSUME NEW b \in Nat \ {0}, NEW q \in Nat, NEW x \in Nat, q * b <= x, x < q * b + b
  PROVE  x \div b = q
  BY Z3

\* A byte's register shifted right, with x at the top.
ShiftsIn(S, d, x) ==
  LET e == Append(Tail(d), x)
  IN  /\ e \in [1 .. 8 -> S] /\ e[8] = x
      /\ \A i \in 1 .. 7 : e[i] = d[i + 1]

\* A sequence that is shifted by one and takes x at its end.
LEMMA TailAppend ==
  ASSUME NEW S, NEW m \in Nat, NEW d \in Seq(S), Len(d) = m, m # 0, NEW x \in S
  PROVE  /\ Append(Tail(d), x) \in [1 .. m -> S]
         /\ \A i \in 1 .. m - 1 : Append(Tail(d), x)[i] = d[i + 1]
         /\ Append(Tail(d), x)[m] = x
<1> DEFINE t == Tail(d)
           a == Append(t, x)
<1>1. d # << >>
  BY EmptySeq
<1>2. t \in Seq(S) /\ Len(t) = m - 1 /\ \A i \in 1 .. m - 1 : t[i] = d[i + 1]
  BY <1>1, HeadTailProperties
<1> HIDE DEF t
<1>3. /\ a \in Seq(S) /\ Len(a) = m /\ a[m] = x
      /\ \A i \in 1 .. m - 1 : a[i] = t[i]
  BY <1>2, AppendProperties
<1> HIDE DEF a
<1>4. a \in [1 .. m -> S]
  BY <1>3, LenProperties
<1> QED
  BY <1>2, <1>3, <1>4 DEF t, a

LEMMA AsSeq ==
  ASSUME NEW S, NEW d \in [1 .. 8 -> S]
  PROVE  d \in Seq(S) /\ Len(d) = 8
<1>1. d = [i \in 1 .. 8 |-> d[i]] /\ \A i \in 1 .. 8 : d[i] \in S
  OBVIOUS
<1>2. [i \in 1 .. 8 |-> d[i]] \in Seq(S)
  BY <1>1
<1> QED
  BY <1>1, <1>2

LEMMA SeqShift ==
  ASSUME NEW S, NEW d \in Seq(S), NEW x \in S
  PROVE  Len(d) = 8 => ShiftsIn(S, d, x)
<1>1. \A m \in Nat : m # 0 /\ Len(d) = m =>
        /\ Append(Tail(d), x) \in [1 .. m -> S]
        /\ \A i \in 1 .. m - 1 : Append(Tail(d), x)[i] = d[i + 1]
        /\ Append(Tail(d), x)[m] = x
  BY TailAppend
<1> HAVE Len(d) = 8
<1> DEFINE e == Append(Tail(d), x)
<1>2. \A m \in Nat : m # 0 /\ Len(d) = m =>
        e \in [1 .. m -> S] /\ (\A i \in 1 .. m - 1 : e[i] = d[i + 1]) /\ e[m] = x
  BY <1>1
<1> HIDE DEF e
<1>3. e \in [1 .. 8 -> S] /\ (\A i \in 1 .. 7 : e[i] = d[i + 1]) /\ e[8] = x
  BY <1>2
<1> QED
  BY <1>3 DEF ShiftsIn, e

LEMMA ByteShift ==
  ASSUME NEW S, NEW d \in [1 .. 8 -> S], NEW x \in S
  PROVE  ShiftsIn(S, d, x)
<1>1. d \in Seq(S) /\ Len(d) = 8
  BY AsSeq, Zenon
<1> QED
  BY <1>1, SeqShift, Zenon

-----------------------------------------------------------------------------
\* UART_TX between two clocks: the bits left in data_reg are the byte's.
TxInv ==
  /\ b_reg \in 0 .. 3 /\ count_reg \in 0 .. 7 /\ bps_cnt_reg \in 0 .. (TxT - 1)
  /\ data_reg \in [1 .. 8 -> {0, 1}]
  /\ \/ current_state = "idle" /\ byte = <<>> /\ bps_cnt_reg = 0
     \/ current_state = "start" /\ byte \in Bytes /\ b_reg <= 1 /\ data_reg = byte
     \/ /\ current_state = "data" /\ byte \in Bytes /\ b_reg <= 1
        /\ \A i \in 1 .. (8 - count_reg) : data_reg[i] = byte[i + count_reg]
     \/ current_state = "stop" /\ byte \in Bytes

LEMMA ByteType ==
  ASSUME NEW d \in Bytes
  PROVE  d \in [1 .. 8 -> {0, 1}] /\ d # <<>>
<1>1. d \in [1 .. 8 -> {0, 1}]
  BY SerialAssumption
<1>2. DOMAIN d = 1 .. 8 /\ DOMAIN <<>> = 1 .. 0
  BY <1>1
<1>3. 1 \in DOMAIN d /\ 1 \notin DOMAIN <<>>
  BY <1>2
<1> QED
  BY <1>1, <1>3, Zenon

LEMMA TxStart == Init => TxInv /\ TX!Line!Init
  BY SerialAssumption DEF Init, TX!Init, TxInv, TX!Line!Init, TX!Elapsed

\* Where in the frame UART_TX is, and the level that place asks for.
LEMMA TxPlace ==
  ASSUME TxInv, current_state # "idle"
  PROVE  /\ byte \in Bytes /\ byte # <<>> /\ TX!Elapsed \in Nat
         /\ current_state = "start" => TX!Elapsed \div (2 * TxT) = 0
         /\ current_state = "data" => TX!Elapsed \div (2 * TxT) = 1 + count_reg
         /\ current_state = "stop" => TX!Elapsed \div (2 * TxT) >= 9
<1>1. /\ TxT \in Nat \ {0} /\ b_reg \in 0 .. 3 /\ count_reg \in 0 .. 7
      /\ bps_cnt_reg \in 0 .. (TxT - 1)
      /\ byte \in Bytes /\ byte # <<>>
  BY SerialAssumption, ByteType DEF TxInv
<1> DEFINE r == b_reg * TxT + bps_cnt_reg
<1>2. /\ r \in Nat /\ r < 4 * TxT /\ (b_reg <= 1 => r < 2 * TxT)
      /\ (b_reg <= 1 \/ r >= 2 * TxT)
  <2>1. b_reg = 0 \/ b_reg = 1 \/ b_reg = 2 \/ b_reg = 3
    BY <1>1
  <2>2. b_reg = 0 => r = bps_cnt_reg
    BY <1>1
  <2>3. b_reg = 1 => r = TxT + bps_cnt_reg
    BY <1>1
  <2>4. b_reg = 2 => r = 2 * TxT + bps_cnt_reg
    BY <1>1
  <2>5. b_reg = 3 => r = 3 * TxT + bps_cnt_reg
    BY <1>1
  <2> HIDE DEF r
  <2> QED
    BY <1>1, <2>1, <2>2, <2>3, <2>4, <2>5
<1>3. CASE current_state = "start"
  <2>1. TX!Elapsed = r /\ b_reg <= 1
    BY <1>3 DEF TX!Elapsed, TxInv
  <2> HIDE DEF r
  <2>2. r \div (2 * TxT) = 0
    BY <1>1, <1>2, <2>1, Quotient
  <2> QED
    BY <1>1, <1>2, <1>3, <2>1, <2>2
<1>4. CASE current_state = "data"
  <2>1. TX!Elapsed = 2 * TxT + 2 * TxT * count_reg + r /\ b_reg <= 1
    BY <1>1, <1>4 DEF TX!Elapsed, TxInv
  <2> HIDE DEF r
  <2>2. (1 + count_reg) * (2 * TxT) = 2 * TxT + 2 * TxT * count_reg
    BY <1>1, Z3
  <2>3. 2 * TxT + 2 * TxT * count_reg \in Nat
    BY <1>1, Z3
  <2>4. TX!Elapsed \div (2 * TxT) = 1 + count_reg
    BY <1>1, <1>2, <2>1, <2>2, <2>3, Quotient
  <2> QED
    BY <1>1, <1>2, <1>4, <2>1, <2>3, <2>4
<1>5. CASE current_state = "stop"
  <2>1. TX!Elapsed = 18 * TxT + r
    BY <1>1, <1>5 DEF TX!Elapsed, TxInv
  <2> HIDE DEF r
  <2>2. CASE b_reg <= 1
    <3>1. TX!Elapsed \div (2 * TxT) = 9
      BY <1>1, <1>2, <2>1, <2>2, Quotient
    <3> QED
      BY <1>1, <1>2, <1>5, <2>1, <3>1
  <2>3. CASE b_reg > 1
    <3>1. TX!Elapsed \div (2 * TxT) = 10
      BY <1>1, <1>2, <2>1, <2>3, Quotient
    <3> QED
      BY <1>1, <1>2, <1>5, <2>1, <3>1
  <2> QED
    BY <1>1, <2>2, <2>3
<1> QED
  BY <1>1, <1>3, <1>4, <1>5 DEF TxInv

\* A clock that does not end the state: the counters move on by one clock.
LEMMA TxHold ==
  ASSUME TxInv, current_state # "idle", TX!Count, NEW last \in 1 .. 3, TX!Hold(last),
         last = IF current_state = "stop" THEN 3 ELSE 1, tx_reg' \in {0, 1}
  PROVE  TxInv' /\ TX!Elapsed' = TX!Elapsed + 1
<1>1. /\ TxT \in Nat \ {0} /\ b_reg \in 0 .. 3 /\ count_reg \in 0 .. 7
      /\ bps_cnt_reg \in 0 .. (TxT - 1) /\ b_reg <= last
      /\ UNCHANGED <<current_state, count_reg, data_reg, byte>>
      /\ ~(bps_cnt_reg = TxT - 1 /\ b_reg = last)
      /\ b_reg' = IF bps_cnt_reg = TxT - 1 THEN b_reg + 1 ELSE b_reg
      /\ bps_cnt_reg' = IF bps_cnt_reg < TxT - 1 THEN bps_cnt_reg + 1 ELSE 0
  BY SerialAssumption DEF TxInv, TX!Count, TX!Hold, TX!b_tick
<1>2. b_reg' \in 0 .. last /\ bps_cnt_reg' \in 0 .. (TxT - 1)
  BY <1>1
<1>3. b_reg' * TxT + bps_cnt_reg' = b_reg * TxT + bps_cnt_reg + 1
  BY <1>1, Z3
<1>4. TxInv'
  BY <1>1, <1>2 DEF TxInv
<1>5. TX!Elapsed' = TX!Elapsed + 1
  <2> DEFINE r == b_reg * TxT + bps_cnt_reg
             s == b_reg' * TxT + bps_cnt_reg'
             c == 2 * TxT * count_reg
  <2>1. r \in Nat /\ s \in Nat /\ c \in Nat /\ s = r + 1
    BY <1>1, <1>2, <1>3, Z3
  <2>2. CASE current_state = "start"
    <3>1. TX!Elapsed = r /\ TX!Elapsed' = s
      BY <1>1, <2>2 DEF TX!Elapsed
    <3> QED
      BY <2>1, <3>1
  <2>3. CASE current_state = "data"
    <3>1. TX!Elapsed = 2 * TxT + c + r /\ TX!Elapsed' = 2 * TxT + c + s
      BY <1>1, <1>2, <2>3, Z3 DEF TX!Elapsed
    <3> HIDE DEF r, s, c
    <3> QED
      BY <1>1, <2>1, <3>1
  <2>4. CASE current_state = "stop"
    <3>1. TX!Elapsed = 18 * TxT + r /\ TX!Elapsed' = 18 * TxT + s
      BY <1>1, <1>2, <2>4, Z3 DEF TX!Elapsed
    <3> HIDE DEF r, s, c
    <3> QED
      BY <1>1, <2>1, <3>1
  <2> QED
    BY <2>2, <2>3, <2>4 DEF TxInv
<1> QED
  BY <1>4, <1>5

\* Inside a frame every clock is a clock of the frame that UartFrame sends.
LEMMA TxSend ==
  ASSUME TxInv, TX!Count, TX!Start \/ TX!Data \/ TX!Stop
  PROVE  TxInv' /\ TX!Line!Send
<1> USE SerialAssumption
<1>1. current_state # "idle" /\ byte # <<>> /\ byte \in Bytes /\ TX!Elapsed \in Nat
  BY TxPlace DEF TX!Start, TX!Data, TX!Stop
<1>2. tx_reg' = TX!Line!Level(byte, TX!Elapsed \div (2 * TxT)) /\ tx_reg' \in {0, 1}
  <2>1. CASE TX!Start
    BY <2>1, TxPlace DEF TX!Start, TX!Line!Level
  <2>2. CASE TX!Data
    <3>1. /\ tx_reg' = data_reg[1] /\ count_reg \in 0 .. 7
          /\ data_reg[1] = byte[1 + count_reg] /\ data_reg[1] \in {0, 1}
      BY <2>2 DEF TX!Data, TxInv
    <3>2. TX!Elapsed \div (2 * TxT) = 1 + count_reg
      BY <2>2, TxPlace DEF TX!Data
    <3> QED
      BY <3>1, <3>2 DEF TX!Line!Level
  <2>3. CASE TX!Stop
    <3>1. TX!Elapsed \div (2 * TxT) \in Int /\ TX!Elapsed \div (2 * TxT) >= 9
      BY <1>1, <2>3, TxPlace DEF TX!Stop
    <3> QED
      BY <2>3, <3>1 DEF TX!Stop, TX!Line!Level
  <2> QED
    BY <2>1, <2>2, <2>3
<1>3. CASE \/ TX!Hold(1) /\ current_state # "stop"
           \/ TX!Hold(3) /\ current_state = "stop"
  <2>1. TxInv' /\ TX!Elapsed' = TX!Elapsed + 1
    BY <1>1, <1>2, <1>3, TxHold
  <2>2. TX!Elapsed + 1 < 9 * (2 * TxT) + 4 * TxT
    <3> DEFINE r == b_reg * TxT + bps_cnt_reg
               c == 2 * TxT * count_reg
    <3>1. /\ TxT \in Nat \ {0} /\ b_reg \in 0 .. 3 /\ bps_cnt_reg \in 0 .. (TxT - 1)
          /\ count_reg \in 0 .. 7
      BY DEF TxInv
    <3>2. r \in Nat /\ c \in Nat /\ c <= 14 * TxT /\ r < 4 * TxT
      BY <3>1, Z3
    <3>3. CASE current_state # "stop"
      <4>1. b_reg <= 1
        BY <1>1, <3>3 DEF TxInv
      <4>2. r < 2 * TxT
        BY <3>1, <4>1, Z3
      <4>3. TX!Elapsed = r \/ TX!Elapsed = 2 * TxT + c + r
        <5>1. CASE current_state = "start"
          BY <5>1 DEF TX!Elapsed
        <5>2. CASE current_state = "data"
          BY <3>1, <5>2, Z3 DEF TX!Elapsed
        <5> QED
          BY <1>1, <3>3, <5>1, <5>2 DEF TxInv
      <4> HIDE DEF r, c
      <4> QED
        BY <3>1, <3>2, <4>2, <4>3
    <3>4. CASE current_state = "stop"
      <4>1. r + 1 < 4 * TxT
        <5>1. b_reg # 3 \/ bps_cnt_reg # TxT - 1
          BY <1>3, <3>4 DEF TX!Hold, TX!b_tick
        <5> QED
          BY <3>1, <5>1, Z3
      <4>2. TX!Elapsed = 18 * TxT + r
        BY <3>1, <3>4, Z3 DEF TX!Elapsed
      <4> HIDE DEF r, c
      <4> QED
        BY <3>1, <3>2, <4>1, <4>2
    <3> QED
      BY <3>3, <3>4
  <2> QED
    BY <1>1, <1>2, <1>3, <2>1, <2>2 DEF TX!Line!Send, TX!Hold
<1>4. CASE TX!Start /\ ~TX!Hold(1)
  <2>1. /\ bps_cnt_reg = TxT - 1 /\ b_reg = 1 /\ bps_cnt_reg' = 0
        /\ current_state' = "data" /\ b_reg' = 0 /\ count_reg' = 0
        /\ UNCHANGED <<data_reg, byte>>
    BY <1>1, <1>4 DEF TX!Start, TX!Count, TX!b_tick, TxInv
  <2>2. TX!Elapsed = 2 * TxT - 1 /\ TX!Elapsed' = 2 * TxT
    BY <1>4, <2>1 DEF TX!Elapsed, TX!Start
  <2>3. TxInv'
    BY <1>1, <1>4, <2>1 DEF TxInv, TX!Start
  <2> QED
    BY <1>1, <1>2, <2>1, <2>2, <2>3 DEF TX!Line!Send
<1>5. CASE TX!Data /\ ~TX!Hold(1)
  <2>1. /\ bps_cnt_reg = TxT - 1 /\ b_reg = 1 /\ bps_cnt_reg' = 0 /\ b_reg' = 0
        /\ count_reg \in 0 .. 7 /\ data_reg' = TX!Shift /\ byte' = byte
        /\ IF count_reg = 7
             THEN current_state' = "stop" /\ count_reg' = count_reg
             ELSE count_reg' = count_reg + 1 /\ current_state' = "data"
    BY <1>1, <1>5 DEF TX!Data, TX!Count, TX!b_tick, TxInv
  <2>2. TX!Elapsed = 2 * TxT + 2 * TxT * count_reg + 2 * TxT - 1
    BY <1>5, <2>1 DEF TX!Elapsed, TX!Data
  <2>3. TX!Elapsed' = TX!Elapsed + 1
    <3>1. CASE count_reg = 7
      <4>1. TX!Elapsed' = 18 * TxT /\ 2 * TxT * count_reg = 14 * TxT
        BY <2>1, <3>1 DEF TX!Elapsed
      <4> QED
        BY <2>2, <4>1
    <3>2. CASE count_reg # 7
      <4>1. TX!Elapsed' = 2 * TxT + 2 * TxT * (count_reg + 1)
        BY <2>1, <3>2 DEF TX!Elapsed
      <4>2. 2 * TxT * (count_reg + 1) = 2 * TxT * count_reg + 2 * TxT
        BY <2>1, Z3
      <4>3. 2 * TxT * count_reg \in Nat
        BY <2>1, Z3
      <4> QED
        BY <2>2, <4>1, <4>2, <4>3
    <3> QED
      BY <3>1, <3>2
  <2>4. TX!Elapsed + 1 <= 18 * TxT
    <3>1. 2 * TxT * count_reg <= 14 * TxT /\ 2 * TxT * count_reg \in Nat
      BY <2>1, Z3
    <3> QED
      BY <2>2, <3>1
  <2>5. TxInv'
    <3>1. data_reg \in [1 .. 8 -> {0, 1}] /\ (\A i \in 1 .. (8 - count_reg) : data_reg[i] = byte[i + count_reg])
      BY <1>5 DEF TX!Data, TxInv
    <3>2. ShiftsIn({0, 1}, data_reg, 0)
      BY <3>1, ByteShift
    <3>3. /\ data_reg' \in [1 .. 8 -> {0, 1}]
          /\ \A i \in 1 .. 7 : data_reg'[i] = data_reg[i + 1]
      BY <2>1, <3>2 DEF ShiftsIn, TX!Shift
    <3>4. CASE count_reg = 7
      BY <1>1, <2>1, <3>3, <3>4 DEF TxInv
    <3>5. CASE count_reg # 7
      <4>1. count_reg' = count_reg + 1 /\ current_state' = "data"
        BY <2>1, <3>5
      <4>2. \A i \in 1 .. (8 - count_reg') : data_reg'[i] = byte'[i + count_reg']
        <5>1. SUFFICES ASSUME NEW i \in 1 .. (8 - count_reg')
                       PROVE  data_reg'[i] = byte[i + count_reg']
          BY <2>1
        <5>2. i \in 1 .. 7 /\ i + 1 \in 1 .. (8 - count_reg)
          BY <2>1, <4>1
        <5>3. data_reg'[i] = data_reg[i + 1]
          BY <3>3, <5>2
        <5>4. (i + 1) + count_reg = i + count_reg'
          BY <2>1, <4>1, <5>2
        <5> QED
          BY <3>1, <5>2, <5>3, <5>4
      <4> QED
        BY <1>1, <2>1, <3>3, <3>5, <4>1, <4>2 DEF TxInv
    <3> QED
      BY <3>4, <3>5
  <2> QED
    BY <1>1, <1>2, <2>1, <2>3, <2>4, <2>5 DEF TX!Line!Send
<1>6. CASE TX!Stop /\ ~TX!Hold(3)
  <2>1. /\ bps_cnt_reg = TxT - 1 /\ b_reg = 3 /\ bps_cnt_reg' = 0
        /\ current_state' = "idle" /\ byte' = <<>>
        /\ UNCHANGED <<b_reg, count_reg, data_reg>>
    BY <1>1, <1>6 DEF TX!Stop, TX!Count, TX!b_tick, TX!Done, TxInv
  <2>2. TX!Elapsed = 22 * TxT - 1 /\ TX!Elapsed' = 0
    BY <1>6, <2>1 DEF TX!Elapsed, TX!Stop
  <2>3. TxInv'
    BY <1>1, <1>6, <2>1 DEF TxInv, TX!Stop
  <2> QED
    BY <1>1, <1>2, <2>1, <2>2, <2>3 DEF TX!Line!Send
<1> QED
  BY <1>3, <1>4, <1>5, <1>6 DEF TX!Start, TX!Data, TX!Stop

\* A clock of the board is a clock of the line, or leaves UART_TX alone.
LEMMA TxStep ==
  ASSUME TxInv, [Next]_vars
  PROVE  TxInv' /\ [TX!Line!Next]_TX!Line!vars
<1>1. CASE ClockTx
  <2>1. CASE TX!Idle
    BY <1>1, <2>1, SerialAssumption
       DEF ClockTx, TX!Next, TX!Count, TX!Idle, TxInv, TX!Line!Next, TX!Line!Rest, TX!Elapsed
  <2>2. ASSUME NEW d \in Bytes, TX!Load(d) PROVE TxInv' /\ TX!Line!Begin(d)
    <3>1. d \in [1 .. 8 -> {0, 1}]
      BY ByteType
    <3>2. /\ current_state = "idle" /\ byte = <<>> /\ bps_cnt_reg' = 0
          /\ tx_reg' = 1 /\ current_state' = "start" /\ b_reg' = 0 /\ data_reg' = d /\ byte' = d
          /\ count_reg' = count_reg
      BY <1>1, <2>2, SerialAssumption DEF ClockTx, TX!Next, TX!Count, TX!Load, TxInv
    <3>3. TxInv'
      BY <3>1, <3>2, SerialAssumption DEF TxInv
    <3>4. TX!Elapsed = 0 /\ TX!Elapsed' = 0
      BY <3>2, SerialAssumption DEF TX!Elapsed
    <3> QED
      BY <3>2, <3>3, <3>4 DEF TX!Line!Begin
  <2>3. CASE TX!Start \/ TX!Data \/ TX!Stop
    BY <1>1, <2>3, TxSend DEF ClockTx, TX!Next, TX!Line!Next
  <2> QED
    BY <1>1, <2>1, <2>2, <2>3 DEF ClockTx, TX!Next, TX!Line!Next
<1>2. CASE ~ClockTx
  <2>1. UNCHANGED uart_tx
    BY <1>2 DEF Next, ClockRx, ClockEcho, ClockMdio, vars, uarts
  <2> QED
    BY <2>1 DEF uart_tx, TxInv, TX!Line!vars, TX!Elapsed
<1> QED
  BY <1>1, <1>2

\* UART_TX puts each byte on its line as one whole frame (UartFrame): a start
\* bit, the eight bits in order, the lowest first, and a stop bit, each two
\* baud ticks long and the last one four, for every baud divisor and byte.
THEOREM FramesSent == Spec => SendsFrames
<1>1. Init => TxInv /\ TX!Line!Init
  BY TxStart
<1>2. TxInv /\ [Next]_vars => TxInv' /\ [TX!Line!Next]_TX!Line!vars
  BY TxStep
<1> QED
  BY <1>1, <1>2, PTL DEF Spec, SendsFrames, TX!SendsFrames, TX!Line!Spec

-----------------------------------------------------------------------------
\* UART_RX.  A tick comes every Period clocks, and a bit is read every other
\* one: the sender's bits must be longer than that, by less than an
\* eighteenth, and its stop bit as long.
Period == RxT + 1
Tolerable ==
  /\ \A b \in Bits : b \in Nat /\ b > 2 * Period /\ 9 * (b - 2 * Period) <= Period
  /\ \A s \in Stops : s \in Nat /\ s >= 2 * Period

\* The clocks UART_RX has counted, from where it clears b_reg.
Counted ==
  CASE rx_state = "start" -> rx_b * Period + rx_bps
    [] rx_state = "data" -> 2 * Period + 2 * Period * rx_count + rx_b * Period + rx_bps
    [] rx_state = "stop" -> 18 * Period + rx_b * Period + rx_bps
    [] OTHER -> 0

\* Between two frames.
Resting == frame = <<>> /\ at = 0 /\ line = 1 /\ rx_state = "idle" /\ owed = <<>>
\* A frame has begun and UART_RX has not seen its start bit.
Unseen == /\ frame \in Bytes /\ at \in 0 .. 1 /\ line = 1 - at
          /\ rx_state = "idle" /\ owed = <<frame>>
\* It reads the frame, one or two clocks behind the sender, or, when it
\* started with b_reg still 1, ahead of it.
Reading ==
  /\ frame \in Bytes /\ owed = <<frame>> /\ rx_state # "idle"
  /\ at \in Nat /\ at >= 1 /\ line = RX!Sender!Level(frame, (at - 1) \div bit)
  /\ at = Counted + 1 \/ at = Counted + 2 \/ at = Counted + 1 - Period
  /\ rx_state = "data" => \A i \in 1 .. rx_count : rx_data[8 - rx_count + i] = frame[i]
  /\ rx_state = "stop" => rx_data = frame
\* It has delivered the byte, and the stop bit goes on.
Delivered ==
  /\ frame \in Bytes /\ rx_state = "idle" /\ owed = <<>>
  /\ at \in Nat /\ at > 9 * bit /\ at < 9 * bit + stop /\ line = 1

RxType ==
  /\ bit \in Bits /\ stop \in Stops
  /\ rx_state \in {"idle", "start", "data", "stop"}
  /\ rx_b \in 0 .. 1 /\ rx_count \in 0 .. 7 /\ rx_bps \in 0 .. RxT
  /\ rx_data \in [1 .. 8 -> {0, 1}]
  /\ rx_state = "idle" => rx_bps = 0
RxInv == RxType /\ (Resting \/ Unseen \/ Reading \/ Delivered)

LEMMA Tolerance ==
  ASSUME Tolerable, RxType
  PROVE  /\ Period \in Nat /\ Period >= 9 /\ RxT \in Nat /\ RxT = Period - 1
         /\ bit \in Nat \ {0} /\ bit > 2 * Period /\ 9 * bit <= 19 * Period
         /\ stop \in Nat /\ stop >= 2 * Period
<1>1. /\ bit \in Nat /\ bit > 2 * Period /\ 9 * (bit - 2 * Period) <= Period
      /\ stop \in Nat /\ stop >= 2 * Period
  BY DEF Tolerable, RxType
<1>2. RxT \in Nat /\ Period \in Nat /\ RxT = Period - 1
  BY SerialAssumption DEF Period
<1> QED
  BY <1>1, <1>2

\* What UART_RX has counted in its state.
LEMMA Counts ==
  ASSUME Tolerable, RxType, rx_state # "idle"
  PROVE  \E r \in 0 .. (2 * Period - 1) :
           /\ r = IF rx_b = 0 THEN rx_bps ELSE Period + rx_bps
           /\ rx_state = "start" => Counted = r
           /\ rx_state = "data" => Counted = 2 * Period * (1 + rx_count) + r
           /\ rx_state = "stop" => Counted = 18 * Period + r
<1>1. /\ Period \in Nat /\ rx_b \in 0 .. 1 /\ rx_count \in 0 .. 7 /\ rx_bps \in 0 .. (Period - 1)
  BY Tolerance DEF RxType
<1>2. PICK r : r = IF rx_b = 0 THEN rx_bps ELSE Period + rx_bps
  OBVIOUS
<1>3. r \in 0 .. (2 * Period - 1) /\ r = rx_b * Period + rx_bps
  BY <1>1, <1>2
<1>4. rx_state = "start" => Counted = r
  BY <1>3 DEF Counted
<1>5. rx_state = "data" => Counted = 2 * Period * (1 + rx_count) + r
  BY <1>1, <1>3, Z3 DEF Counted
<1>6. rx_state = "stop" => Counted = 18 * Period + r
  BY <1>1, <1>3, Z3 DEF Counted
<1> QED
  BY <1>2, <1>3, <1>4, <1>5, <1>6

LEMMA CountedType ==
  ASSUME Tolerable, RxType, rx_state # "idle"
  PROVE  Counted \in 0 .. (20 * Period - 1)
<1>1. PICK r \in 0 .. (2 * Period - 1) :
           /\ rx_state = "start" => Counted = r
           /\ rx_state = "data" => Counted = 2 * Period * (1 + rx_count) + r
           /\ rx_state = "stop" => Counted = 18 * Period + r
  BY Counts
<1>2. Period \in Nat /\ Period >= 9 /\ rx_count \in 0 .. 7
  BY Tolerance DEF RxType
<1>3. 2 * Period * (1 + rx_count) \in 0 .. 16 * Period
  BY <1>2, Z3
<1> QED
  BY <1>1, <1>2, <1>3 DEF RxType

\* While a frame is sent the line takes the level of the bit the sender is in.
LEMMA Sent ==
  ASSUME frame \in Bytes, RX!Sender!Next
  PROVE  /\ UNCHANGED <<bit, stop>>
         /\ line' = RX!Sender!Level(frame, at \div bit)
         /\ at + 1 < 9 * bit + stop => at' = at + 1 /\ frame' = frame
         /\ ~(at + 1 < 9 * bit + stop) => at' = 0 /\ frame' = <<>>
<1>1. frame # <<>>
  BY ByteType
<1> QED
  BY <1>1 DEF RX!Sender!Next, RX!Sender!Rest, RX!Sender!Begin, RX!Sender!Send

LEMMA Quotient9 ==
  ASSUME NEW b \in Nat \ {0}, NEW x \in Nat, x >= 9 * b
  PROVE  x \div b \in Nat /\ x \div b >= 9
  BY Z3

\* The stop bit is high, and so is the line at rest.
LEMMA StopLevel ==
  ASSUME NEW f, NEW q \in Nat, q >= 9
  PROVE  RX!Sender!Level(f, q) = 1
  BY DEF RX!Sender!Level

LEMMA RestingStep ==
  ASSUME Tolerable, RxType, Resting, RX!Next
  PROVE  RxType' /\ (Resting' \/ Unseen')
<1>1. RX!Sender!Next /\ RX!Count /\ RX!Idle /\ RX!Owed
  BY DEF RX!Next, RX!Engine, RX!Start, RX!Data, RX!Stop, Resting
<1>2. line' = 1 /\ at' = 0 /\ UNCHANGED <<bit, stop>> /\ (frame' = <<>> \/ frame' \in Bytes)
  BY <1>1 DEF RX!Sender!Next, RX!Sender!Rest, RX!Sender!Begin, RX!Sender!Send, Resting
<1>3. /\ rx_state' = "idle" /\ rx_b' = rx_b /\ rx_bps' = 0
      /\ UNCHANGED <<rx_count, rx_data>>
  BY <1>1, <1>2 DEF RX!Idle, RX!Seen, RX!Count, Resting
<1>4. RxType'
  BY <1>2, <1>3, SerialAssumption DEF RxType
<1>5. CASE frame' = <<>>
  <2>1. owed' = owed
    BY <1>1, <1>5, Zenon DEF RX!Owed, RX!rx_done, Resting
  <2> QED
    BY <1>2, <1>3, <1>4, <1>5, <2>1 DEF Resting
<1>6. CASE frame' \in Bytes
  <2>1. frame' # <<>>
    BY <1>6, ByteType
  <2>2. owed' = Append(owed, frame')
    BY <1>1, <2>1 DEF RX!Owed, RX!rx_done, Resting
  <2>3. owed' = <<frame'>>
    BY <2>2 DEF Resting
  <2> QED
    BY <1>2, <1>3, <1>4, <1>6, <2>3 DEF Unseen
<1> QED
  BY <1>2, <1>4, <1>5, <1>6

\* A step inside a frame begins none, and what is owed stays owed until the
\* byte is delivered.
LEMMA OwedStep ==
  ASSUME frame \in Bytes, RX!Owed
  PROVE  /\ ~RX!rx_done => owed' = owed
         /\ RX!rx_done /\ owed = <<frame>> => owed' = <<>>
<1>1. frame # <<>>
  BY ByteType
<1>2. owed' = IF RX!rx_done /\ owed # <<>> THEN Tail(owed) ELSE owed
  BY <1>1 DEF RX!Owed
<1>3. Tail(<<frame>>) = <<>> /\ <<frame>> # <<>>
  OBVIOUS
<1> QED
  BY <1>2, <1>3, Zenon

LEMMA UnseenStep ==
  ASSUME Tolerable, RxType, Unseen, RX!Next
  PROVE  RxType' /\ (Unseen' \/ Reading')
<1>1. RX!Sender!Next /\ RX!Count /\ RX!Idle /\ RX!Owed /\ frame \in Bytes
  BY DEF RX!Next, RX!Engine, RX!Start, RX!Data, RX!Stop, Unseen
<1>2. /\ UNCHANGED <<bit, stop, frame>> /\ at' = at + 1
      /\ line' = RX!Sender!Level(frame, at \div bit)
  BY <1>1, Sent, Tolerance DEF Unseen
<1>3. at \div bit = 0 /\ line' = 0
  <2>1. at \div bit = 0
    BY Tolerance, Quotient DEF Unseen
  <2> QED
    BY <1>2, <2>1 DEF RX!Sender!Level
<1>4. owed' = owed
  BY <1>1, OwedStep DEF RX!rx_done, Unseen
<1>5. /\ rx_bps' = 0 /\ UNCHANGED <<rx_count, rx_data>>
      /\ rx_state' \in {"idle", "start"} /\ rx_b' \in {0, rx_b}
      /\ at = 1 => rx_state' = "start" /\ rx_b' = 0
  BY <1>1, <1>3 DEF RX!Idle, RX!Seen, RX!Count, Unseen
<1>6. RxType'
  BY <1>2, <1>5, Tolerance DEF RxType
<1>7. CASE rx_state' = "idle"
  BY <1>2, <1>3, <1>4, <1>5, <1>6, <1>7 DEF Unseen
<1>8. CASE rx_state' = "start"
  <2>1. Counted' = 0 \/ (Counted' = Period /\ at = 0)
    BY <1>5, <1>8, Tolerance DEF Counted, RxType, Unseen, Period
  <2>2. at' = Counted' + 1 \/ at' = Counted' + 2 \/ at' = Counted' + 1 - Period
    BY <1>2, <1>5, <1>8, <2>1, Tolerance DEF Unseen, Counted, Period
  <2>3. line' = RX!Sender!Level(frame', (at' - 1) \div bit') /\ at' \in Nat /\ at' >= 1
    BY <1>2 DEF Unseen
  <2> QED
    BY <1>2, <1>4, <1>6, <1>8, <2>2, <2>3 DEF Reading, Unseen
<1> QED
  BY <1>5, <1>6, <1>7, <1>8

LEMMA DeliveredStep ==
  ASSUME Tolerable, RxType, Delivered, RX!Next
  PROVE  RxType' /\ (Delivered' \/ Resting')
<1>1. RX!Sender!Next /\ RX!Count /\ RX!Idle /\ RX!Owed /\ frame \in Bytes
  BY DEF RX!Next, RX!Engine, RX!Start, RX!Data, RX!Stop, Delivered
<1>2. line' = 1
  <2>1. bit \in Nat \ {0} /\ at \in Nat /\ at >= 9 * bit
    BY Tolerance DEF Delivered
  <2>2. at \div bit \in Nat /\ at \div bit >= 9
    BY <2>1, Quotient9
  <2> QED
    BY <1>1, <2>2, Sent, StopLevel
<1>3. owed' = owed
  BY <1>1, OwedStep DEF RX!rx_done, Delivered
<1>4. rx_bps' = 0 /\ UNCHANGED <<rx_count, rx_data, rx_state, rx_b>>
  BY <1>1, <1>2 DEF RX!Idle, RX!Seen, RX!Count, Delivered
<1>5. UNCHANGED <<bit, stop>>
  BY <1>1, Sent
<1>6. RxType'
  BY <1>4, <1>5, SerialAssumption DEF RxType
<1>7. CASE at + 1 < 9 * bit + stop
  BY <1>1, <1>2, <1>3, <1>4, <1>5, <1>6, <1>7, Sent, Tolerance DEF Delivered
<1>8. CASE ~(at + 1 < 9 * bit + stop)
  BY <1>1, <1>2, <1>3, <1>4, <1>6, <1>8, Sent DEF Delivered, Resting
<1> QED
  BY <1>7, <1>8

\* While UART_RX reads, the frame lasts.
LEMMA ReadingSent ==
  ASSUME Tolerable, RxType, Reading, RX!Sender!Next
  PROVE  /\ UNCHANGED <<bit, stop, frame>> /\ at' = at + 1 /\ at' \in Nat /\ at' >= 1
         /\ line' = RX!Sender!Level(frame', (at' - 1) \div bit')
         /\ line' = RX!Sender!Level(frame, at \div bit)
<1>1. at \in Nat /\ at <= 20 * Period + 1 /\ frame \in Bytes
  BY CountedType, Tolerance DEF Reading
<1>2. at + 1 < 9 * bit + stop
  BY <1>1, Tolerance
<1> QED
  BY <1>1, <1>2, Sent

\* A clock that does not end the state.
LEMMA ReadHold ==
  ASSUME Tolerable, RxType, Reading, RX!Sender!Next, RX!Count, RX!Tick1, RX!Owed
  PROVE  RxType' /\ Reading'
<1>1. /\ Period \in Nat /\ Period >= 9 /\ RxT = Period - 1
      /\ rx_b \in 0 .. 1 /\ rx_count \in 0 .. 7 /\ rx_bps \in 0 .. (Period - 1)
      /\ UNCHANGED <<rx_state, rx_count, rx_data>>
      /\ ~(rx_bps = Period - 1 /\ rx_b = 1)
      /\ rx_b' = IF rx_bps = Period - 1 THEN rx_b + 1 ELSE rx_b
      /\ rx_bps' = IF rx_bps < Period - 1 THEN rx_bps + 1 ELSE 0
  BY Tolerance DEF RxType, Reading, RX!Count, RX!Tick1, RX!b_tick
<1>2. rx_b' \in 0 .. 1 /\ rx_bps' \in 0 .. (Period - 1)
  BY <1>1
<1>3. Counted' = Counted + 1 /\ Counted \in Nat
  <2> DEFINE r == rx_b * Period + rx_bps
             s == rx_b' * Period + rx_bps'
             c == 2 * Period * rx_count
  <2>1. r \in Nat /\ s \in Nat /\ c \in Nat /\ s = r + 1 /\ Period' = Period
    BY <1>1, <1>2, Z3 DEF Period
  <2>2. CASE rx_state = "start"
    <3>1. Counted = r /\ Counted' = s
      BY <1>1, <2>1, <2>2 DEF Counted
    <3> HIDE DEF r, s
    <3> QED
      BY <2>1, <3>1
  <2>3. CASE rx_state = "data"
    <3>1. Counted = 2 * Period + c + r /\ Counted' = 2 * Period + c + s
      BY <1>1, <1>2, <2>1, <2>3, Z3 DEF Counted
    <3> HIDE DEF r, s, c
    <3> QED
      BY <1>1, <2>1, <3>1
  <2>4. CASE rx_state = "stop"
    <3>1. Counted = 18 * Period + r /\ Counted' = 18 * Period + s
      BY <1>1, <1>2, <2>1, <2>4, Z3 DEF Counted
    <3> HIDE DEF r, s, c
    <3> QED
      BY <1>1, <2>1, <3>1
  <2> QED
    BY <2>2, <2>3, <2>4 DEF RxType, Reading
<1>4. /\ UNCHANGED <<bit, stop, frame>> /\ at' = at + 1 /\ at' \in Nat /\ at' >= 1
      /\ line' = RX!Sender!Level(frame', (at' - 1) \div bit')
  BY ReadingSent
<1>5. owed' = owed
  BY <1>1, OwedStep DEF RX!rx_done, RX!b_tick, Reading
<1>6. RxType'
  BY <1>1, <1>2, <1>4 DEF RxType, Reading
<1>7. at' = Counted' + 1 \/ at' = Counted' + 2 \/ at' = Counted' + 1 - Period
  BY <1>1, <1>3, <1>4 DEF Reading
<1> QED
  BY <1>1, <1>4, <1>5, <1>6, <1>7 DEF Reading, Period

\* The second tick of the start bit.
LEMMA ReadStart ==
  ASSUME Tolerable, RxType, Reading, RX!Sender!Next, RX!Count, RX!Start, ~RX!Tick1, RX!Owed
  PROVE  RxType' /\ Reading'
<1>1. /\ Period \in Nat /\ Period >= 9 /\ RxT = Period - 1
      /\ rx_state = "start" /\ rx_b = 1 /\ rx_bps = Period - 1
      /\ rx_state' = "data" /\ rx_b' = 0 /\ rx_count' = 0 /\ rx_data' = rx_data /\ rx_bps' = 0
  BY Tolerance DEF RX!Count, RX!Start, RX!b_tick, Period
<1>2. Counted = 2 * Period - 1 /\ Counted' = 2 * Period
  <2>1. Counted = Period + (Period - 1)
    BY <1>1 DEF Counted
  <2>2. Counted' = 2 * Period + 2 * Period * 0 + 0 * Period + 0
    BY <1>1 DEF Counted, Period
  <2> QED
    BY <1>1, <2>1, <2>2
<1>3. /\ UNCHANGED <<bit, stop, frame>> /\ at' = at + 1 /\ at' \in Nat /\ at' >= 1
      /\ line' = RX!Sender!Level(frame', (at' - 1) \div bit')
  BY ReadingSent
<1>4. owed' = owed
  BY <1>1, OwedStep DEF RX!rx_done, Reading
<1>5. RxType'
  BY <1>1, <1>3 DEF RxType
<1>6. at' = Counted' + 1 \/ at' = Counted' + 2 \/ at' = Counted' + 1 - Period
  BY <1>1, <1>2, <1>3 DEF Reading
<1> QED
  BY <1>1, <1>3, <1>4, <1>5, <1>6 DEF Reading, Period

\* The second tick of the stop bit: the byte is delivered.
LEMMA ReadStop ==
  ASSUME Tolerable, RxType, Reading, RX!Sender!Next, RX!Count, RX!Stop, ~RX!Tick1, RX!Owed
  PROVE  RxType' /\ Delivered'
<1>1. /\ Period \in Nat /\ Period >= 9 /\ RxT = Period - 1
      /\ rx_state = "stop" /\ rx_b = 1 /\ rx_bps = Period - 1 /\ RX!rx_done
      /\ rx_state' = "idle" /\ rx_b' = rx_b /\ rx_count' = rx_count /\ rx_data' = rx_data
      /\ rx_bps' = 0
  BY Tolerance DEF RX!Count, RX!Stop, RX!rx_done, RX!b_tick, Period
<1>2. Counted = 20 * Period - 1
  <2>1. Counted = 18 * Period + Period + (Period - 1)
    BY <1>1 DEF Counted
  <2> QED
    BY <1>1, <2>1
<1>3. /\ UNCHANGED <<bit, stop, frame>> /\ at' = at + 1
      /\ line' = RX!Sender!Level(frame, at \div bit)
  BY ReadingSent
<1>4. at \in Nat /\ at >= 19 * Period /\ at <= 20 * Period + 1
  BY <1>1, <1>2 DEF Reading
<1>5. bit \in Nat \ {0} /\ stop \in Nat /\ at >= 9 * bit /\ at + 1 < 9 * bit + stop
  BY <1>1, <1>4, Tolerance
<1>6. line' = 1
  <2>1. at \div bit \in Nat /\ at \div bit >= 9
    BY <1>4, <1>5, Quotient9
  <2> QED
    BY <1>3, <2>1, StopLevel
<1>7. owed' = <<>>
  BY <1>1, OwedStep DEF Reading
<1>8. RxType'
  BY <1>1, <1>3 DEF RxType
<1> QED
  BY <1>1, <1>3, <1>4, <1>5, <1>6, <1>7, <1>8 DEF Delivered, Reading

\* With this tolerance the sample of bit k lies inside bit k, and so does the
\* clock after it.
LEMMA SampleInBit ==
  ASSUME NEW p \in Nat, p >= 9, NEW b \in Nat, b > 2 * p, 9 * b <= 19 * p,
         NEW k \in 0 .. 7, NEW a \in Nat,
         a >= 2 * p * (k + 2) - p, a <= 2 * p * (k + 2) + 1
  PROVE  (k + 1) * b <= a - 1 /\ a < (k + 1) * b + b
<1>1. k = 0 \/ k = 1 \/ k = 2 \/ k = 3 \/ k = 4 \/ k = 5 \/ k = 6 \/ k = 7
  OBVIOUS
<1>2. CASE k = 0
  BY <1>2
<1>3. CASE k = 1
  BY <1>3
<1>4. CASE k = 2
  BY <1>4
<1>5. CASE k = 3
  BY <1>5
<1>6. CASE k = 4
  BY <1>6
<1>7. CASE k = 5
  BY <1>7
<1>8. CASE k = 6
  BY <1>8
<1>9. CASE k = 7
  BY <1>9
<1> QED
  BY <1>1, <1>2, <1>3, <1>4, <1>5, <1>6, <1>7, <1>8, <1>9

\* The second tick of a data bit reads that bit.
LEMMA ReadData ==
  ASSUME Tolerable, RxType, Reading, RX!Sender!Next, RX!Count, RX!Data, ~RX!Tick1, RX!Owed
  PROVE  RxType' /\ Reading'
<1>1. /\ Period \in Nat /\ Period >= 9 /\ RxT = Period - 1 /\ rx_count \in 0 .. 7
      /\ rx_state = "data" /\ rx_b = 1 /\ rx_bps = Period - 1
      /\ rx_b' = 0 /\ rx_bps' = 0 /\ RX!ShiftIn
      /\ IF rx_count = 7 THEN rx_state' = "stop" /\ rx_count' = rx_count
         ELSE rx_count' = rx_count + 1 /\ rx_state' = "data"
  BY Tolerance DEF RX!Count, RX!Data, RX!b_tick, Period, RxType
<1>2. Counted = 2 * Period * (rx_count + 2) - 1
  <2>1. Counted = 2 * Period + 2 * Period * rx_count + 1 * Period + (Period - 1)
    BY <1>1 DEF Counted
  <2> QED
    BY <1>1, <2>1, Z3
<1>3. Counted' = Counted + 1 /\ Period' = Period
  <2>1. CASE rx_count = 7
    <3>1. Counted' = 18 * Period + 0 * Period + 0
      BY <1>1, <2>1 DEF Counted, Period
    <3> QED
      BY <1>1, <1>2, <2>1, <3>1 DEF Period
  <2>2. CASE rx_count # 7
    <3>1. Counted' = 2 * Period + 2 * Period * (rx_count + 1) + 0 * Period + 0
      BY <1>1, <2>2 DEF Counted, Period
    <3>2. 2 * Period + 2 * Period * (rx_count + 1) + 0 * Period + 0 = 2 * Period * (rx_count + 2)
      BY <1>1, Z3
    <3>3. 2 * Period * (rx_count + 2) \in Nat
      BY <1>1, Z3
    <3> QED
      BY <1>2, <3>1, <3>2, <3>3 DEF Period
  <2> QED
    BY <2>1, <2>2
<1>4. /\ UNCHANGED <<bit, stop, frame>> /\ at' = at + 1 /\ at' \in Nat /\ at' >= 1
      /\ line' = RX!Sender!Level(frame', (at' - 1) \div bit')
      /\ line' = RX!Sender!Level(frame, at \div bit)
  BY ReadingSent
<1>5. at \in Nat /\ at - 1 \in Nat /\ line = RX!Sender!Level(frame, (at - 1) \div bit)
  BY DEF Reading
<1>6. (at - 1) \div bit = rx_count + 1 /\ at \div bit = rx_count + 1
  <2>1. 2 * Period * (rx_count + 2) \in Nat
    BY <1>1, Z3
  <2>2. at >= 2 * Period * (rx_count + 2) - Period /\ at <= 2 * Period * (rx_count + 2) + 1
    BY <1>1, <1>2, <2>1 DEF Reading
  <2>3. bit \in Nat \ {0} /\ bit > 2 * Period /\ 9 * bit <= 19 * Period
    BY Tolerance
  <2>4. (rx_count + 1) * bit <= at - 1 /\ at < (rx_count + 1) * bit + bit
    BY <1>1, <1>5, <2>2, <2>3, SampleInBit
  <2>5. (rx_count + 1) * bit \in Nat /\ rx_count + 1 \in Nat
    BY <1>1, <2>3, Z3
  <2>6. /\ (rx_count + 1) * bit <= at /\ at - 1 < (rx_count + 1) * bit + bit
    BY <1>5, <2>3, <2>4, <2>5
  <2> QED
    BY <1>5, <2>3, <2>4, <2>5, <2>6, Quotient
<1>7. line = frame[rx_count + 1] /\ line' = frame[rx_count + 1]
  <2>1. rx_count + 1 # 0 /\ rx_count + 1 <= 8
    BY <1>1
  <2> QED
    BY <1>4, <1>5, <1>6, <2>1 DEF RX!Sender!Level
<1>8. frame \in [1 .. 8 -> {0, 1}] /\ frame[rx_count + 1] \in {0, 1} /\ rx_data \in [1 .. 8 -> {0, 1}]
  BY <1>1, ByteType DEF Reading, RxType
<1>9. /\ rx_data' \in [1 .. 8 -> {0, 1}] /\ rx_data'[8] = frame[rx_count + 1]
      /\ \A i \in 1 .. 7 : rx_data'[i] = rx_data[i + 1]
  <2>1. rx_data' = Append(Tail(rx_data), frame[rx_count + 1])
    BY <1>1, <1>7 DEF RX!ShiftIn, RX!Seen
  <2>2. ShiftsIn({0, 1}, rx_data, frame[rx_count + 1])
    BY <1>8, ByteShift
  <2> QED
    BY <2>1, <2>2 DEF ShiftsIn
<1>10. \A i \in 1 .. (rx_count + 1) : rx_data'[7 - rx_count + i] = frame[i]
  <2> TAKE i \in 1 .. (rx_count + 1)
  <2>1. CASE i = rx_count + 1
    BY <1>1, <1>9, <2>1
  <2>2. CASE i # rx_count + 1
    <3>1. i \in 1 .. rx_count /\ 7 - rx_count + i \in 1 .. 7
      BY <1>1, <2>2
    <3>2. (7 - rx_count + i) + 1 = 8 - rx_count + i
      BY <1>1, <3>1
    <3> QED
      BY <1>1, <1>9, <3>1, <3>2 DEF Reading
  <2> QED
    BY <2>1, <2>2
<1>11. owed' = owed
  BY <1>1, OwedStep DEF RX!rx_done, Reading
<1>12. RxType'
  BY <1>1, <1>4, <1>9 DEF RxType
<1>13. at' = Counted' + 1 \/ at' = Counted' + 2 \/ at' = Counted' + 1 - Period'
  <2>1. 2 * Period * (rx_count + 2) \in Nat
    BY <1>1, Z3
  <2> QED
    BY <1>1, <1>2, <1>3, <1>4, <2>1 DEF Reading
<1>14. CASE rx_count = 7
  <2>1. rx_data' = frame
    BY <1>8, <1>9, <1>10, <1>14
  <2> QED
    BY <1>1, <1>4, <1>11, <1>12, <1>13, <1>14, <2>1 DEF Reading
<1>15. CASE rx_count # 7
  <2>1. rx_count' = rx_count + 1 /\ rx_state' = "data"
    BY <1>1, <1>15
  <2>2. \A i \in 1 .. rx_count' : rx_data'[8 - rx_count' + i] = frame'[i]
    BY <1>1, <1>4, <1>10, <2>1
  <2> QED
    BY <1>4, <1>11, <1>12, <1>13, <2>1, <2>2 DEF Reading
<1> QED
  BY <1>14, <1>15

\* Every clock of UART_RX and its sender.
LEMMA RxStep ==
  ASSUME Tolerable, RxInv, RX!Next
  PROVE  RxInv'
<1>1. CASE Resting \/ Unseen \/ Delivered
  BY <1>1, RestingStep, UnseenStep, DeliveredStep DEF RxInv
<1>2. CASE Reading
  <2>1. RxType /\ RX!Sender!Next /\ RX!Count /\ RX!Owed /\ (RX!Start \/ RX!Data \/ RX!Stop)
    BY <1>2 DEF RxInv, RX!Next, RX!Engine, RX!Idle, Reading
  <2>2. CASE RX!Tick1
    BY <1>2, <2>1, <2>2, ReadHold DEF RxInv
  <2>3. CASE ~RX!Tick1
    BY <1>2, <2>1, <2>3, ReadStart, ReadData, ReadStop DEF RxInv
  <2> QED
    BY <2>2, <2>3
<1> QED
  BY <1>1, <1>2 DEF RxInv

\* UART_RX delivers each byte once, whole, before the next one begins, for
\* every baud divisor and every sender whose bits are longer than two ticks
\* by less than an eighteenth; whichever way the start edge is caught.
THEOREM FramesRead == Tolerable => (Spec => []ReadsFrames)
<1> SUFFICES ASSUME Tolerable PROVE Spec => []ReadsFrames
  OBVIOUS
<1> DEFINE Inv == powered = "UART_RX" => RxInv
<1>1. Init => Inv
  BY SerialAssumption DEF Init, RX!Init, RX!EngineInit, RX!Sender!Init, RxInv, RxType, Resting
<1>2. Inv /\ [Next]_vars => Inv'
  <2> SUFFICES ASSUME Inv, [Next]_vars PROVE Inv'
    OBVIOUS
  <2>1. CASE ClockRx
    BY <2>1, RxStep DEF ClockRx
  <2>2. CASE ClockTx \/ ClockEcho \/ ClockMdio
    BY <2>2 DEF ClockTx, ClockEcho, ClockMdio
  <2>3. CASE UNCHANGED vars
    BY <2>3 DEF vars, uarts, uart_rx, sending, RxInv, RxType, Resting, Unseen, Reading, Delivered,
                Counted, Period
  <2> QED
    BY <2>1, <2>2, <2>3 DEF Next
<1>3. Inv => ReadsFrames
  <2> SUFFICES ASSUME RxInv PROVE RX!ReadsFrames
    BY DEF ReadsFrames
  <2>1. frame \in Bytes => frame # <<>>
    BY ByteType
  <2>2. RX!rx_done => rx_state = "stop"
    BY DEF RX!rx_done
  <2>3. Head(<<frame>>) = frame /\ Len(<<frame>>) = 1 /\ Len(<<>>) = 0 /\ <<frame>> # <<>>
    OBVIOUS
  <2>4. RX!rx_done => owed = <<frame>> /\ rx_data = frame
    BY <2>2 DEF RxInv, Resting, Unseen, Reading, Delivered
  <2>5. (owed = <<>> \/ owed = <<frame>>) /\ (frame = <<>> => owed = <<>>)
    BY <2>1 DEF RxInv, Resting, Unseen, Reading, Delivered
  <2>6. Len(owed) <= 1
    <3>1. Len(owed) = 0 \/ Len(owed) = 1
      BY <2>3, <2>5, Zenon
    <3> QED
      BY <3>1
  <2> QED
    BY <2>3, <2>4, <2>5, <2>6, Zenon DEF RX!ReadsFrames
<1> QED
  BY <1>1, <1>2, <1>3, PTL DEF Spec

-----------------------------------------------------------------------------
\* The echo demo.  Its engines keep up with a sender that shortens its stop
\* bit to two clocks more than half a bit, at bits of three clocks or more.
InTime == /\ BPS_CNT >= 3
          /\ \A s \in EchoStops : s \in Nat /\ s >= Echo!Half + 2

\* Where in its frame an engine is.
Place(r) == r.cnt * BPS_CNT + r.bps

EchoType ==
  /\ bit = BPS_CNT /\ stop \in EchoStops
  /\ frame \in Bytes \cup {<<>>} /\ at \in 0 .. (9 * BPS_CNT + stop - 1)
  /\ frame = <<>> => at = 0
  /\ rxr \in [d0 : {0, 1}, d1 : {0, 1}, flag : BOOLEAN, bps : 0 .. (BPS_CNT - 1), cnt : 0 .. 9,
              data : [1 .. 8 -> {0, 1}], rxd : [1 .. 8 -> {0, 1}], done : BOOLEAN]
  /\ txr \in [d0 : BOOLEAN, d1 : BOOLEAN, flag : BOOLEAN, bps : 0 .. (BPS_CNT - 1), cnt : 0 .. 9,
              data : [1 .. 8 -> {0, 1}], out : {0, 1}]
  /\ tap \in [busy : BOOLEAN, t : Nat, data : [1 .. 8 -> {0, 1}], last : {0, 1},
              got : {<<>>} \cup {<<d>> : d \in [1 .. 8 -> {0, 1}]}]

\* The line i clocks ago, and what the synchroniser has of it.
Was(i) == IF at > i THEN Echo!Sender!Level(frame, (at - 1 - i) \div BPS_CNT) ELSE 1
Sees ==
  /\ line = Was(0)
  /\ \/ rxr.d1 = 0 /\ at = 0 /\ ~rxr.flag /\ (frame # <<>> => rxr.d0 = 1)
     \/ rxr.d0 \in {Was(0), Was(1)} /\ rxr.d1 \in {Was(1), Was(2)}

\* uart_rx takes a frame two or three clocks behind the line ...
Hearing ==
  /\ rxr.flag /\ at > 0
  /\ at = Place(rxr) + 2 \/ at = Place(rxr) + 3
  /\ rxr.cnt = 9 => rxr.bps <= Echo!Half
  /\ \A k \in 1 .. 8 : rxr.cnt > k \/ (rxr.cnt = k /\ rxr.bps > Echo!Half) => rxr.data[k] = frame[k]
\* ... and may end it when the line has ended it ...
Over == /\ rxr.flag /\ at = 0 /\ rxr.cnt = 9
        /\ rxr.bps = Echo!Half \/ (rxr.bps = Echo!Half - 1 /\ frame = <<>>)
\* ... or it waits for one that it may not have seen yet.
Waiting ==
  /\ ~rxr.flag
  /\ (rxr.cnt = 0 /\ rxr.bps = 0) \/ (rxr.cnt = 9 /\ rxr.bps = Echo!Half + 1)
  /\ at = 0 \/ (at \in 1 .. 2 /\ rxr.d1 = 1) \/ at >= 9 * BPS_CNT + Echo!Half + 3

\* uart_tx has taken the byte that uart_rx still holds.
Loaded == rxr.cnt = 9 /\ (rxr.flag => rxr.bps >= 2)

\* A byte's flag is high once a frame, and its edge is seen with the byte.
Handed ==
  IF rxr.cnt = 9
    THEN /\ rxr.done <=> ~rxr.flag \/ rxr.bps >= 1
         /\ txr.d0 <=> ~rxr.flag \/ rxr.bps >= 2
         /\ txr.d1 <=> rxr.bps >= 3
         /\ rxr.done => rxr.rxd = rxr.data
    ELSE /\ rxr.done => txr.d0 /\ rxr.cnt = 0 /\ rxr.bps = 0
         /\ txr.d0 => txr.d1 /\ rxr.cnt = 0 /\ rxr.bps <= 1
         /\ txr.d1 => rxr.cnt = 0 /\ rxr.bps <= 2

\* uart_tx after its last bit, while the tap still reads it.
Ending == ~txr.flag /\ txr.cnt = 9

\* uart_tx is ahead of uart_rx by half a bit, so it is free in time.
Ahead ==
  /\ IF txr.flag THEN txr.cnt = 9 => txr.bps <= Echo!Half
     ELSE (txr.cnt = 0 /\ txr.bps = 0) \/ (txr.cnt = 9 /\ txr.bps = Echo!Half + 1)
  /\ IF Loaded THEN /\ txr.flag /\ txr.data = rxr.data
                    /\ txr.cnt = 0 /\ rxr.bps = 2 + txr.bps
     ELSE txr.flag \/ Ending => Place(rxr) + Echo!Half <= Place(txr)
  /\ txr.out = IF txr.flag /\ Place(txr) > 0
                 THEN Echo!Sender!Level(txr.data, (Place(txr) - 1) \div BPS_CNT) ELSE 1

\* The tap is one clock behind uart_tx.
Tapped ==
  IF (txr.flag /\ Place(txr) >= 2) \/ Ending
    THEN /\ tap.busy /\ tap.t = Place(txr) - 1 /\ tap.got = <<>>
         /\ txr.flag => \A k \in 1 .. 8 :
              txr.cnt > k \/ (txr.cnt = k /\ txr.bps > Echo!Half + 1) => tap.data[k] = txr.data[k]
    ELSE ~tap.busy /\ tap.last = 1 /\ (txr.flag /\ Place(txr) = 1 => tap.got = <<>>)

\* What is owed: a byte the tap has just read, and those in uart_tx, in
\* uart_rx and on the line.
InTx == IF txr.flag THEN <<txr.data>> ELSE IF Ending THEN <<tap.data>> ELSE <<>>
InRx == IF rxr.flag /\ ~Loaded THEN <<IF rxr.cnt = 9 THEN rxr.data ELSE frame>> ELSE <<>>
OnLine == IF frame # <<>> /\ at <= 2 /\ (rxr.flag => at = 0) THEN <<frame>> ELSE <<>>
Due(a, b, c, d) == ((a \o b) \o c) \o d

EchoInv ==
  /\ EchoType /\ Sees /\ (Hearing \/ Over \/ Waiting) /\ Handed /\ Ahead /\ Tapped
  /\ owed = Due(tap.got, InTx, InRx, OnLine)

LEMMA EchoBits ==
  ASSUME InTime
  PROVE  /\ BPS_CNT \in Nat /\ BPS_CNT >= 3
         /\ Echo!Half \in Nat /\ Echo!Half >= 1 /\ Echo!Half + 2 <= BPS_CNT
         /\ \A s \in EchoStops : s \in Nat /\ s >= Echo!Half + 2
  BY SerialAssumption, Z3 DEF InTime, Echo!Half

\* The levels of a frame.
LEMMA Levels ==
  ASSUME InTime, NEW d \in Bytes, NEW x \in Nat
  PROVE  /\ Echo!Sender!Level(d, x \div BPS_CNT) \in {0, 1}
         /\ x < BPS_CNT => Echo!Sender!Level(d, x \div BPS_CNT) = 0
         /\ x >= 9 * BPS_CNT => Echo!Sender!Level(d, x \div BPS_CNT) = 1
         /\ \A k \in 1 .. 8 : k * BPS_CNT <= x /\ x < k * BPS_CNT + BPS_CNT
              => Echo!Sender!Level(d, x \div BPS_CNT) = d[k]
<1>1. BPS_CNT \in Nat \ {0}
  BY EchoBits
<1>2. PICK q \in Nat : q = x \div BPS_CNT
  BY <1>1, Z3
<1>3. d \in [1 .. 8 -> {0, 1}]
  BY ByteType
<1>4. x < BPS_CNT => q = 0
  BY <1>1, <1>2, Z3
<1>5. x >= 9 * BPS_CNT => q >= 9
  BY <1>1, <1>2, Z3
<1>6. ASSUME NEW k \in 1 .. 8, k * BPS_CNT <= x, x < k * BPS_CNT + BPS_CNT PROVE q = k
  BY <1>1, <1>2, <1>6, Quotient
<1>7. Echo!Sender!Level(d, q) = IF q = 0 THEN 0 ELSE IF q <= 8 THEN d[q] ELSE 1
  BY DEF Echo!Sender!Level
<1>8. Echo!Sender!Level(d, q) \in {0, 1}
  BY <1>3, <1>7
<1>9. x < BPS_CNT => Echo!Sender!Level(d, q) = 0
  BY <1>4, <1>7
<1>10. x >= 9 * BPS_CNT => Echo!Sender!Level(d, q) = 1
  BY <1>5, <1>7
<1>11. ASSUME NEW k \in 1 .. 8, k * BPS_CNT <= x, x < k * BPS_CNT + BPS_CNT
       PROVE  Echo!Sender!Level(d, q) = d[k]
  BY <1>6, <1>7, <1>11
<1> QED
  BY <1>2, <1>8, <1>9, <1>10, <1>11

\* What a clock does to each register.
LEMMA RxFields ==
  ASSUME InTime, EchoType, NEW s \in {0, 1}, rxr' = Echo!RxEdge(rxr, s)
  PROVE  /\ rxr'.d0 = s /\ rxr'.d1 = rxr.d0
         /\ rxr'.flag <=> \/ rxr.d1 = 1 /\ rxr.d0 = 0
                          \/ rxr.flag /\ ~(rxr.bps = Echo!Half /\ rxr.cnt = 9)
         /\ ~rxr.flag => rxr'.bps = 0 /\ rxr'.cnt = 0
         /\ rxr.flag /\ rxr.bps < BPS_CNT - 1 => rxr'.bps = rxr.bps + 1 /\ rxr'.cnt = rxr.cnt
         /\ rxr.flag /\ rxr.bps = BPS_CNT - 1 => rxr'.bps = 0 /\ rxr'.cnt = rxr.cnt + 1
         /\ rxr.flag /\ rxr.bps = Echo!Half /\ rxr.cnt \in 1 .. 8
              => rxr'.data = [rxr.data EXCEPT ![rxr.cnt] = rxr.d1]
         /\ rxr.flag /\ ~(rxr.bps = Echo!Half /\ rxr.cnt \in 1 .. 8) => rxr'.data = rxr.data
         /\ rxr'.data \in [1 .. 8 -> {0, 1}] /\ rxr'.rxd \in [1 .. 8 -> {0, 1}]
         /\ rxr'.done <=> rxr.cnt = 9
         /\ rxr.cnt = 9 => rxr'.rxd = rxr.data
         /\ rxr' = [d0 |-> s, d1 |-> rxr.d0, flag |-> rxr'.flag, bps |-> rxr'.bps, cnt |-> rxr'.cnt,
                    data |-> rxr'.data, rxd |-> rxr'.rxd, done |-> rxr'.done]
         /\ rxr'.flag \in BOOLEAN /\ rxr'.done \in BOOLEAN
<1>1. rxr' = [d0 |-> s, d1 |-> rxr.d0, flag |-> Echo!RxFlag(rxr), bps |-> Echo!Bps(rxr),
              cnt |-> Echo!Cnt(rxr), data |-> Echo!RxData(rxr), done |-> rxr.cnt = 9,
              rxd |-> IF rxr.cnt = 9 THEN rxr.data ELSE Echo!Zeros]
  BY DEF Echo!RxEdge
<1>2. /\ rxr.flag \in BOOLEAN /\ rxr.bps \in 0 .. (BPS_CNT - 1) /\ rxr.cnt \in 0 .. 9
      /\ rxr.d0 \in {0, 1} /\ rxr.d1 \in {0, 1} /\ rxr.data \in [1 .. 8 -> {0, 1}]
  BY DEF EchoType
<1>3. Echo!Zeros \in [1 .. 8 -> {0, 1}]
  BY DEF Echo!Zeros
<1>4. Echo!RxFlag(rxr) \in BOOLEAN
  BY <1>2 DEF Echo!RxFlag
<1>5. Echo!RxFlag(rxr) <=> \/ rxr.d1 = 1 /\ rxr.d0 = 0
                           \/ rxr.flag /\ ~(rxr.bps = Echo!Half /\ rxr.cnt = 9)
  BY <1>2 DEF Echo!RxFlag
<1>6. /\ ~rxr.flag => Echo!Bps(rxr) = 0 /\ Echo!Cnt(rxr) = 0
      /\ rxr.flag /\ rxr.bps < BPS_CNT - 1 => Echo!Bps(rxr) = rxr.bps + 1 /\ Echo!Cnt(rxr) = rxr.cnt
      /\ rxr.flag /\ rxr.bps = BPS_CNT - 1 => Echo!Bps(rxr) = 0 /\ Echo!Cnt(rxr) = rxr.cnt + 1
  BY <1>2, EchoBits DEF Echo!Bps, Echo!Cnt
<1>7. /\ rxr.flag /\ rxr.bps = Echo!Half /\ rxr.cnt \in 1 .. 8
              => Echo!RxData(rxr) = [rxr.data EXCEPT ![rxr.cnt] = rxr.d1]
      /\ rxr.flag /\ ~(rxr.bps = Echo!Half /\ rxr.cnt \in 1 .. 8) => Echo!RxData(rxr) = rxr.data
      /\ ~rxr.flag => Echo!RxData(rxr) = Echo!Zeros
  BY <1>2 DEF Echo!RxData
<1>8. Echo!RxData(rxr) \in [1 .. 8 -> {0, 1}]
  <2>1. [rxr.data EXCEPT ![rxr.cnt] = rxr.d1] \in [1 .. 8 -> {0, 1}]
    BY <1>2
  <2> QED
    BY <1>2, <1>3, <1>7, <2>1
<1>9. (IF rxr.cnt = 9 THEN rxr.data ELSE Echo!Zeros) \in [1 .. 8 -> {0, 1}]
  BY <1>2, <1>3
<1>10. /\ rxr'.d0 = s /\ rxr'.d1 = rxr.d0 /\ rxr'.flag = Echo!RxFlag(rxr)
       /\ rxr'.bps = Echo!Bps(rxr) /\ rxr'.cnt = Echo!Cnt(rxr) /\ rxr'.data = Echo!RxData(rxr)
       /\ rxr'.done = (rxr.cnt = 9)
       /\ rxr'.rxd = IF rxr.cnt = 9 THEN rxr.data ELSE Echo!Zeros
  BY <1>1
<1>11. rxr' = [d0 |-> s, d1 |-> rxr.d0, flag |-> rxr'.flag, bps |-> rxr'.bps, cnt |-> rxr'.cnt,
               data |-> rxr'.data, rxd |-> rxr'.rxd, done |-> rxr'.done]
  BY <1>1, <1>10, Zenon
<1>12. rxr'.done \in BOOLEAN /\ (rxr'.done <=> rxr.cnt = 9)
  BY <1>10, Zenon
<1>13. rxr'.rxd \in [1 .. 8 -> {0, 1}] /\ (rxr.cnt = 9 => rxr'.rxd = rxr.data)
  BY <1>9, <1>10, Zenon
<1> QED
  BY <1>4, <1>5, <1>6, <1>7, <1>8, <1>10, <1>11, <1>12, <1>13, Zenon

\* Clocks as bits and clocks of a bit.
LEMMA Places ==
  ASSUME InTime, NEW c \in 0 .. 9, NEW b \in 0 .. (BPS_CNT - 1)
  PROVE  /\ c * BPS_CNT \in Nat /\ c * BPS_CNT <= 9 * BPS_CNT
         /\ c = 0 => c * BPS_CNT = 0
         /\ c # 0 => c * BPS_CNT >= BPS_CNT
         /\ c # 9 => c * BPS_CNT + BPS_CNT <= 9 * BPS_CNT
         /\ c < 8 => c * BPS_CNT + 2 * BPS_CNT <= 9 * BPS_CNT
         /\ (c + 1) * BPS_CNT = c * BPS_CNT + BPS_CNT
         /\ (c * BPS_CNT + b) \div BPS_CNT = c
<1>1. BPS_CNT \in Nat \ {0}
  BY EchoBits
<1>2. /\ c * BPS_CNT \in Nat /\ c * BPS_CNT <= 9 * BPS_CNT
      /\ c = 0 => c * BPS_CNT = 0
      /\ c # 0 => c * BPS_CNT >= BPS_CNT
      /\ c # 9 => c * BPS_CNT + BPS_CNT <= 9 * BPS_CNT
      /\ c < 8 => c * BPS_CNT + 2 * BPS_CNT <= 9 * BPS_CNT
      /\ (c + 1) * BPS_CNT = c * BPS_CNT + BPS_CNT
  BY <1>1, Z3
<1>3. (c * BPS_CNT + b) \div BPS_CNT = c
  BY <1>1, <1>2, Quotient
<1> QED
  BY <1>2, <1>3

LEMMA Remainder ==
  ASSUME NEW b \in Nat \ {0}, NEW q \in Nat, NEW x \in Nat, q * b <= x, x < q * b + b
  PROVE  x % b = x - q * b
<1>1. x \div b = q
  BY Quotient
<1> QED
  BY <1>1, Z3

\* The tap reads the middle of uart_tx's bits.
LEMMA TapPlace ==
  ASSUME InTime, NEW c \in 0 .. 9, NEW b \in 0 .. (BPS_CNT - 1),
         NEW x \in Nat, x = c * BPS_CNT + b - 1
  PROVE  /\ x % BPS_CNT = Echo!Half <=> b = Echo!Half + 1
         /\ b = Echo!Half + 1 => x \div BPS_CNT = c
<1>1. BPS_CNT \in Nat \ {0} /\ Echo!Half \in Nat /\ Echo!Half + 2 <= BPS_CNT
  BY EchoBits
<1>2. c * BPS_CNT \in Nat
  BY <1>1, Z3
<1>3. CASE b >= 1
  <2>1. x \div BPS_CNT = c
    BY <1>1, <1>2, <1>3, Quotient
  <2>2. x % BPS_CNT = x - c * BPS_CNT
    BY <1>1, <1>2, <1>3, Remainder
  <2> QED
    BY <1>1, <1>2, <1>3, <2>1, <2>2
<1>4. CASE b = 0
  <2>1. c # 0 /\ c - 1 \in Nat /\ c * BPS_CNT = (c - 1) * BPS_CNT + BPS_CNT
    BY <1>1, <1>4, Z3
  <2>2. (c - 1) * BPS_CNT \in Nat
    BY <1>1, <2>1, Z3
  <2>3. x \div BPS_CNT = c - 1
    BY <1>1, <1>4, <2>1, <2>2, Quotient
  <2>4. x % BPS_CNT = x - (c - 1) * BPS_CNT
    BY <1>1, <1>4, <2>1, <2>2, Remainder
  <2> QED
    BY <1>1, <1>2, <1>4, <2>1, <2>2, <2>4
<1> QED
  BY <1>3, <1>4

LEMMA TxFields ==
  ASSUME InTime, EchoType, txr' = Echo!TxEdge(txr, rxr.done, rxr.rxd)
  PROVE  /\ txr'.d0 = rxr.done /\ txr'.d1 = txr.d0
         /\ txr'.flag <=> \/ rxr.done /\ ~txr.d1
                          \/ txr.flag /\ ~(txr.cnt = 9 /\ txr.bps = Echo!Half)
         /\ ~txr.flag => txr'.bps = 0 /\ txr'.cnt = 0
         /\ txr.flag /\ txr.bps < BPS_CNT - 1 => txr'.bps = txr.bps + 1 /\ txr'.cnt = txr.cnt
         /\ txr.flag /\ txr.bps = BPS_CNT - 1 => txr'.bps = 0 /\ txr'.cnt = txr.cnt + 1
         /\ rxr.done /\ ~txr.d1 => txr'.data = rxr.rxd
         /\ ~(rxr.done /\ ~txr.d1) /\ ~(txr.cnt = 9 /\ txr.bps = Echo!Half) => txr'.data = txr.data
         /\ txr'.data \in [1 .. 8 -> {0, 1}]
         /\ ~txr.flag => txr'.out = 1
         /\ txr.flag => txr'.out = Echo!Sender!Level(txr.data, Place(txr) \div BPS_CNT)
         /\ txr'.out \in {0, 1} /\ (txr.cnt = 9 => txr'.out = 1)
         /\ txr' = [d0 |-> txr'.d0, d1 |-> txr'.d1, flag |-> txr'.flag, bps |-> txr'.bps,
                    cnt |-> txr'.cnt, data |-> txr'.data, out |-> txr'.out]
         /\ txr'.flag \in BOOLEAN /\ txr'.d0 \in BOOLEAN /\ txr'.d1 \in BOOLEAN
<1>1. txr' = [d0 |-> rxr.done, d1 |-> txr.d0, flag |-> Echo!TxFlag(txr, rxr.done),
              bps |-> Echo!Bps(txr), cnt |-> Echo!Cnt(txr),
              data |-> Echo!TxData(txr, rxr.done, rxr.rxd), out |-> Echo!TxOut(txr)]
  BY DEF Echo!TxEdge
<1>2. /\ txr.flag \in BOOLEAN /\ txr.bps \in 0 .. (BPS_CNT - 1) /\ txr.cnt \in 0 .. 9
      /\ txr.d0 \in BOOLEAN /\ txr.d1 \in BOOLEAN /\ txr.data \in [1 .. 8 -> {0, 1}]
      /\ rxr.done \in BOOLEAN /\ rxr.rxd \in [1 .. 8 -> {0, 1}]
  BY DEF EchoType
<1>3. Echo!Zeros \in [1 .. 8 -> {0, 1}]
  BY DEF Echo!Zeros
<1>4. /\ Echo!TxFlag(txr, rxr.done) \in BOOLEAN
      /\ Echo!TxFlag(txr, rxr.done) <=> \/ rxr.done /\ ~txr.d1
                                        \/ txr.flag /\ ~(txr.cnt = 9 /\ txr.bps = Echo!Half)
  BY <1>2 DEF Echo!TxFlag, Echo!StartFlag
<1>5. /\ ~txr.flag => Echo!Bps(txr) = 0 /\ Echo!Cnt(txr) = 0
      /\ txr.flag /\ txr.bps < BPS_CNT - 1 => Echo!Bps(txr) = txr.bps + 1 /\ Echo!Cnt(txr) = txr.cnt
      /\ txr.flag /\ txr.bps = BPS_CNT - 1 => Echo!Bps(txr) = 0 /\ Echo!Cnt(txr) = txr.cnt + 1
  BY <1>2, EchoBits DEF Echo!Bps, Echo!Cnt
<1>6. /\ rxr.done /\ ~txr.d1 => Echo!TxData(txr, rxr.done, rxr.rxd) = rxr.rxd
      /\ ~(rxr.done /\ ~txr.d1) /\ ~(txr.cnt = 9 /\ txr.bps = Echo!Half)
           => Echo!TxData(txr, rxr.done, rxr.rxd) = txr.data
      /\ Echo!TxData(txr, rxr.done, rxr.rxd) \in [1 .. 8 -> {0, 1}]
  BY <1>2, <1>3 DEF Echo!TxData, Echo!StartFlag
<1>7. /\ ~txr.flag => Echo!TxOut(txr) = 1
      /\ txr.flag => Echo!TxOut(txr) = Echo!Sender!Level(txr.data, txr.cnt)
      /\ Echo!TxOut(txr) \in {0, 1} /\ (txr.cnt = 9 => Echo!TxOut(txr) = 1)
  BY <1>2 DEF Echo!TxOut, Echo!Sender!Level
<1>8. Place(txr) \div BPS_CNT = txr.cnt
  BY <1>2, Places DEF Place
<1>9. /\ txr'.d0 = rxr.done /\ txr'.d1 = txr.d0 /\ txr'.flag = Echo!TxFlag(txr, rxr.done)
      /\ txr'.bps = Echo!Bps(txr) /\ txr'.cnt = Echo!Cnt(txr)
      /\ txr'.data = Echo!TxData(txr, rxr.done, rxr.rxd) /\ txr'.out = Echo!TxOut(txr)
  BY <1>1
<1>10. txr' = [d0 |-> txr'.d0, d1 |-> txr'.d1, flag |-> txr'.flag, bps |-> txr'.bps,
               cnt |-> txr'.cnt, data |-> txr'.data, out |-> txr'.out]
  BY <1>1, <1>9, Zenon
<1> QED
  BY <1>2, <1>4, <1>5, <1>6, <1>7, <1>8, <1>9, <1>10, Zenon

LEMMA TapFields ==
  ASSUME InTime, EchoType, tap' = Echo!TapEdge(tap, txr.out)
  PROVE  LET mid == tap.t % BPS_CNT = Echo!Half
             k == tap.t \div BPS_CNT
         IN  /\ tap'.last = txr.out
             /\ ~tap.busy => /\ tap'.busy <=> tap.last = 1 /\ txr.out = 0
                             /\ tap'.t = 1 /\ tap'.got = <<>> /\ tap'.data = tap.data
             /\ tap.busy => /\ tap'.busy <=> ~(mid /\ k = 9)
                            /\ tap'.t = tap.t + 1
                            /\ mid /\ k \in 1 .. 8 => tap'.data = [tap.data EXCEPT ![k] = txr.out]
                            /\ ~(mid /\ k \in 1 .. 8) => tap'.data = tap.data
                            /\ ~(mid /\ k = 9) => tap'.got = <<>>
                            /\ mid /\ k = 9 /\ txr.out = 1 => tap'.got = <<tap.data>>
             /\ tap' \in [busy : BOOLEAN, t : Nat, data : [1 .. 8 -> {0, 1}], last : {0, 1},
                          got : {<<>>} \cup {<<d>> : d \in [1 .. 8 -> {0, 1}]}]
<1> DEFINE mid == tap.t % BPS_CNT = Echo!Half
           k == tap.t \div BPS_CNT
<1>1. /\ tap.busy \in BOOLEAN /\ tap.t \in Nat /\ tap.data \in [1 .. 8 -> {0, 1}]
      /\ tap.last \in {0, 1} /\ txr.out \in {0, 1}
      /\ tap = [busy |-> tap.busy, t |-> tap.t, data |-> tap.data, last |-> tap.last, got |-> tap.got]
  BY DEF EchoType
<1>2. Echo!Zeros \in [1 .. 8 -> {0, 1}]
  BY DEF Echo!Zeros
<1>3. CASE ~tap.busy
  <2>1. tap' = [tap EXCEPT !.busy = tap.last = 1 /\ txr.out = 0, !.t = 1, !.last = txr.out, !.got = <<>>]
    BY <1>3 DEF Echo!TapEdge
  <2>2. tap' = [busy |-> tap.last = 1 /\ txr.out = 0, t |-> 1, data |-> tap.data,
                last |-> txr.out, got |-> <<>>]
    BY <1>1, <2>1
  <2>3. /\ tap'.busy = (tap.last = 1 /\ txr.out = 0) /\ tap'.t = 1 /\ tap'.data = tap.data
        /\ tap'.last = txr.out /\ tap'.got = <<>>
    BY <2>2
  <2>4. (tap.last = 1 /\ txr.out = 0) \in BOOLEAN
    OBVIOUS
  <2> QED
    <3>1. tap' \in [busy : BOOLEAN, t : Nat, data : [1 .. 8 -> {0, 1}], last : {0, 1},
                    got : {<<>>} \cup {<<d>> : d \in [1 .. 8 -> {0, 1}]}]
      BY <1>1, <2>2, <2>4
    <3>2. tap'.busy <=> tap.last = 1 /\ txr.out = 0
      BY <2>3, Zenon
    <3> QED
      BY <1>3, <2>3, <3>1, <3>2, Zenon
<1>4. CASE tap.busy
  <2> DEFINE read == mid /\ k = 9
             byt == IF mid /\ k \in 1 .. 8 THEN [tap.data EXCEPT ![k] = txr.out] ELSE tap.data
             out == IF ~read THEN <<>> ELSE IF txr.out = 1 THEN <<tap.data>> ELSE <<Echo!Zeros>>
  <2>1. tap' = [tap EXCEPT !.t = tap.t + 1, !.last = txr.out, !.data = byt, !.busy = ~read, !.got = out]
    BY <1>1, <1>4 DEF Echo!TapEdge
  <2>2. read \in BOOLEAN
    OBVIOUS
  <2>3. byt \in [1 .. 8 -> {0, 1}]
    <3>1. [tap.data EXCEPT ![k] = txr.out] \in [1 .. 8 -> {0, 1}]
      BY <1>1
    <3> QED
      BY <1>1, <3>1
  <2>4. out \in {<<>>} \cup {<<d>> : d \in [1 .. 8 -> {0, 1}]}
    BY <1>1, <1>2
  <2>5. /\ mid /\ k \in 1 .. 8 => byt = [tap.data EXCEPT ![k] = txr.out]
        /\ ~(mid /\ k \in 1 .. 8) => byt = tap.data
        /\ ~(mid /\ k = 9) => out = <<>>
        /\ mid /\ k = 9 /\ txr.out = 1 => out = <<tap.data>>
        /\ read <=> mid /\ k = 9
    OBVIOUS
  <2> HIDE DEF read, byt, out
  <2>6. tap' = [busy |-> ~read, t |-> tap.t + 1, data |-> byt, last |-> txr.out, got |-> out]
    BY <1>1, <2>1
  <2>7. /\ tap'.busy = ~read /\ tap'.t = tap.t + 1 /\ tap'.data = byt
        /\ tap'.last = txr.out /\ tap'.got = out
    BY <2>6
  <2>8. tap' \in [busy : BOOLEAN, t : Nat, data : [1 .. 8 -> {0, 1}], last : {0, 1},
                  got : {<<>>} \cup {<<d>> : d \in [1 .. 8 -> {0, 1}]}]
    BY <1>1, <2>2, <2>3, <2>4, <2>6
  <2> HIDE DEF mid, k
  <2>9. tap'.busy <=> ~(mid /\ k = 9)
    BY <2>5, <2>7, Zenon
  <2> QED
    BY <1>1, <1>4, <2>5, <2>7, <2>8, <2>9, Zenon DEF mid, k
<1> QED
  BY <1>1, <1>3, <1>4

\* A clock of the sender: between frames, in one, or the last of one.
Between == /\ frame = <<>> /\ at = 0
           /\ frame' \in Bytes \cup {<<>>} /\ at' = 0 /\ line' = 1
Within == /\ frame \in Bytes /\ frame' = frame /\ at' = at + 1
          /\ line' = Echo!Sender!Level(frame, at \div BPS_CNT)
Closing == /\ frame \in Bytes /\ at = 9 * BPS_CNT + stop - 1
           /\ frame' = <<>> /\ at' = 0 /\ line' = 1

LEMMA EchoSent ==
  ASSUME InTime, EchoType, Echo!Sender!Next
  PROVE  /\ UNCHANGED <<bit, stop>> /\ stop \in Nat /\ stop >= Echo!Half + 2
         /\ at \in Nat /\ at' \in Nat /\ at' <= 9 * BPS_CNT + stop - 1
         /\ frame' = <<>> => at' = 0
         /\ Between \/ Within \/ Closing
<1>1. /\ BPS_CNT \in Nat /\ BPS_CNT >= 3 /\ Echo!Half \in Nat
      /\ stop \in Nat /\ stop >= Echo!Half + 2 /\ bit = BPS_CNT /\ at \in Nat
      /\ at <= 9 * BPS_CNT + stop - 1
      /\ frame \in Bytes \cup {<<>>} /\ (frame = <<>> => at = 0)
  BY EchoBits DEF EchoType
<1>2. CASE Echo!Sender!Rest
  BY <1>1, <1>2 DEF Echo!Sender!Rest, Between
<1>3. ASSUME NEW d \in Bytes, Echo!Sender!Begin(d) PROVE UNCHANGED <<bit, stop>> /\ Between /\ frame' # <<>>
  BY <1>1, <1>3, ByteType DEF Echo!Sender!Begin, Between
<1>4. CASE Echo!Sender!Send
  <2>1. frame \in Bytes /\ frame # <<>>
    BY <1>1, <1>4 DEF Echo!Sender!Send
  <2>2. CASE at + 1 < 9 * BPS_CNT + stop
    BY <1>1, <1>4, <2>1, <2>2 DEF Echo!Sender!Send, Within
  <2>3. CASE ~(at + 1 < 9 * BPS_CNT + stop)
    <3>1. at = 9 * BPS_CNT + stop - 1 /\ at >= 9 * BPS_CNT
      BY <1>1, <2>3
    <3>2. Echo!Sender!Level(frame, at \div BPS_CNT) = 1
      BY <1>1, <2>1, <3>1, Levels
    <3> QED
      BY <1>1, <1>4, <2>1, <2>3, <3>1, <3>2 DEF Echo!Sender!Send, Closing
  <2> QED
    BY <2>2, <2>3, <1>1
<1>5. CASE \E d \in Bytes : Echo!Sender!Begin(d)
  BY <1>1, <1>3, <1>5 DEF Between
<1> QED
  BY <1>1, <1>2, <1>4, <1>5 DEF Echo!Sender!Next, Between, Within, Closing

\* What the line was, by how long the frame has been under way.
LEMMA WasLevel ==
  ASSUME InTime, EchoType, NEW i \in 0 .. 2
  PROVE  /\ Was(i) \in {0, 1}
         /\ at <= i => Was(i) = 1
         /\ at > 9 * BPS_CNT + i => Was(i) = 1
         /\ i < at /\ at <= BPS_CNT + i => Was(i) = 0
         /\ \A k \in 1 .. 8 : k * BPS_CNT + i < at /\ at <= k * BPS_CNT + BPS_CNT + i
              => Was(i) = frame[k]
<1>1. /\ at \in Nat /\ frame \in Bytes \cup {<<>>} /\ (frame = <<>> => at = 0)
      /\ BPS_CNT \in Nat /\ BPS_CNT >= 3
  BY EchoBits DEF EchoType
<1>2. CASE at <= i
  <2>1. \A k \in 1 .. 8 : k * BPS_CNT \in Nat
    BY <1>1
  <2> QED
    BY <1>1, <1>2, <2>1 DEF Was
<1>3. CASE at > i
  <2>1. frame \in Bytes /\ at - 1 - i \in Nat
    BY <1>1, <1>3
  <2>2. Was(i) = Echo!Sender!Level(frame, (at - 1 - i) \div BPS_CNT)
    BY <1>3 DEF Was
  <2>3. \A k \in 1 .. 8 : k * BPS_CNT \in Nat
    BY <1>1
  <2>4. /\ Was(i) \in {0, 1}
        /\ at - 1 - i < BPS_CNT => Was(i) = 0
        /\ at - 1 - i >= 9 * BPS_CNT => Was(i) = 1
        /\ \A k \in 1 .. 8 : k * BPS_CNT <= at - 1 - i /\ at - 1 - i < k * BPS_CNT + BPS_CNT
             => Was(i) = frame[k]
    BY <2>1, <2>2, Levels
  <2> QED
    BY <1>1, <1>3, <2>1, <2>3, <2>4
<1> QED
  BY <1>1, <1>2, <1>3

\* The synchroniser follows the line by one clock or two.
LEMMA SeesStep ==
  ASSUME InTime, EchoType, Sees, Echo!Sender!Next, NEW s \in {line, line'}, rxr' = Echo!RxEdge(rxr, s)
  PROVE  Sees' /\ s \in {0, 1}
<1>1. /\ line = Was(0) /\ Was(0) \in {0, 1} /\ Was(1) \in {0, 1} /\ at \in Nat
      /\ BPS_CNT \in Nat /\ stop \in Nat /\ stop >= 3
  BY WasLevel, EchoBits, EchoSent DEF Sees
<1>2. line' \in {0, 1}
  BY <1>1, EchoSent, Levels DEF Between, Within, Closing
<1>3. /\ rxr'.d0 = s /\ rxr'.d1 = rxr.d0
      /\ rxr'.flag <=> \/ rxr.d1 = 1 /\ rxr.d0 = 0
                       \/ rxr.flag /\ ~(rxr.bps = Echo!Half /\ rxr.cnt = 9)
  BY <1>1, <1>2, RxFields
<1>4. CASE Between
  <2>1. line = 1 /\ line' = 1 /\ at' = 0 /\ at = 0 /\ Was(0) = 1 /\ Was(1) = 1
    BY <1>1, <1>4, WasLevel DEF Between
  <2>2. Was(0)' = 1 /\ Was(1)' = 1 /\ Was(2)' = 1
    BY <2>1 DEF Was
  <2>3. s = 1 /\ rxr'.d0 = 1
    BY <1>3, <2>1
  <2>4. CASE rxr.d1 = 0 /\ at = 0 /\ ~rxr.flag /\ (frame # <<>> => rxr.d0 = 1)
    <3>1. ~rxr'.flag
      BY <1>3, <2>4
    <3> QED
      BY <1>3, <2>1, <2>2, <2>3, <2>4, <3>1 DEF Sees, EchoType
  <2>5. CASE rxr.d0 \in {Was(0), Was(1)}
    BY <1>3, <2>1, <2>2, <2>3, <2>5 DEF Sees
  <2> QED
    BY <2>3, <2>4, <2>5 DEF Sees
<1>5. CASE Within
  <2>1. at' = at + 1 /\ frame' = frame /\ frame # <<>>
    BY <1>5, ByteType DEF Within
  <2>2. (at + 1) - 1 - 0 = at /\ (at + 1) - 1 - 1 = at - 1 - 0 /\ (at + 1) - 1 - 2 = at - 1 - 1
    BY <1>1
  <2>3. Was(0)' = line'
    BY <1>1, <1>5, <2>1, <2>2 DEF Was, Within
  <2>4. Was(1)' = Was(0)
    BY <1>1, <2>1, <2>2 DEF Was
  <2>5. Was(2)' = Was(1)
    BY <1>1, <2>1, <2>2 DEF Was
  <2>6. at = 0 => Was(0) = 1
    BY <1>1 DEF Was
  <2>7. rxr.d0 \in {Was(0), Was(1)}
    BY <2>1, <2>6 DEF Sees
  <2>8. s \in {Was(0)', Was(1)'}
    BY <1>1, <2>3, <2>4
  <2> QED
    BY <1>2, <1>1, <1>3, <2>3, <2>4, <2>5, <2>7, <2>8 DEF Sees
<1>6. CASE Closing
  <2>1. at > 9 * BPS_CNT + 1
    BY <1>1, <1>6 DEF Closing
  <2>2. Was(0) = 1 /\ Was(1) = 1
    BY <1>1, <2>1, WasLevel
  <2>3. line' = 1 /\ at' = 0
    BY <1>6 DEF Closing
  <2>4. Was(0)' = 1 /\ Was(1)' = 1 /\ Was(2)' = 1
    BY <2>3 DEF Was
  <2> QED
    BY <1>1, <1>3, <2>1, <2>2, <2>3, <2>4 DEF Sees
<1> QED
  BY <1>1, <1>2, <1>4, <1>5, <1>6, EchoSent

\* A falling edge is seen within two clocks of a frame's start, and not
\* again when the engine is about to rest.
LEMMA Edges ==
  ASSUME InTime, EchoType, Sees
  PROVE  /\ Waiting /\ rxr.d1 = 1 /\ rxr.d0 = 0 => at \in 1 .. 2
         /\ Waiting /\ at = 2 => rxr.d0 = 0
         /\ Waiting /\ at = 0 /\ frame # <<>> => rxr.d0 = 1
         /\ Hearing /\ rxr.cnt = 9 /\ rxr.bps = Echo!Half => ~(rxr.d1 = 1 /\ rxr.d0 = 0)
         /\ Over => rxr.d0 = 1
<1>1. /\ BPS_CNT \in Nat /\ BPS_CNT >= 3 /\ Echo!Half \in Nat /\ Echo!Half >= 1
      /\ at \in Nat /\ rxr.cnt \in 0 .. 9 /\ rxr.bps \in 0 .. (BPS_CNT - 1)
  BY EchoBits DEF EchoType
<1>2. at = 0 => Was(0) = 1 /\ Was(1) = 1
  BY <1>1, WasLevel
<1>3. at > 9 * BPS_CNT + 1 => Was(0) = 1 /\ Was(1) = 1
  BY <1>1, WasLevel
<1>4. at = 2 => Was(0) = 0 /\ Was(1) = 0
  BY <1>1, WasLevel
<1>5. Hearing /\ rxr.cnt = 9 /\ rxr.bps = Echo!Half => at > 9 * BPS_CNT + 1
  BY <1>1 DEF Hearing, Place
<1>6. Waiting => at = 0 \/ at \in 1 .. 2 \/ at > 9 * BPS_CNT + 1
  BY <1>1 DEF Waiting
<1>7. Hearing => rxr.flag /\ at > 0
  BY DEF Hearing
<1>8. Over => rxr.flag /\ at = 0
  BY DEF Over
<1>9. Waiting => ~rxr.flag
  BY DEF Waiting
<1> QED
  BY <1>1, <1>2, <1>3, <1>4, <1>5, <1>6, <1>7, <1>8, <1>9 DEF Sees

\* While it waits.
LEMMA WaitingStep ==
  ASSUME InTime, EchoType, Sees, Waiting, Echo!Sender!Next,
         NEW s \in {line, line'}, rxr' = Echo!RxEdge(rxr, s)
  PROVE  Hearing' \/ Waiting'
<1>1. /\ BPS_CNT \in Nat /\ BPS_CNT >= 3 /\ Echo!Half \in Nat /\ Echo!Half >= 1
      /\ at \in Nat /\ at' \in Nat /\ stop \in Nat /\ stop >= 3
  BY EchoBits, EchoSent
<1>2. /\ rxr'.d1 = rxr.d0 /\ rxr'.bps = 0 /\ rxr'.cnt = 0
      /\ rxr'.flag <=> rxr.d1 = 1 /\ rxr.d0 = 0
  BY RxFields, SeesStep DEF Waiting
<1>3. CASE rxr.d1 = 1 /\ rxr.d0 = 0
  <2>1. at \in 1 .. 2
    BY <1>3, Edges
  <2>2. at' = at + 1
    BY <1>1, <2>1, EchoSent DEF Between, Within, Closing
  <2>3. Place(rxr)' = 0
    BY <1>1, <1>2 DEF Place
  <2>4. rxr'.flag
    BY <1>2, <1>3
  <2> QED
    BY <1>1, <1>2, <2>1, <2>2, <2>3, <2>4 DEF Hearing
<1>4. CASE ~(rxr.d1 = 1 /\ rxr.d0 = 0)
  <2>1. ~rxr'.flag
    BY <1>2, <1>4
  <2>2. at' = 0 \/ (at' \in 1 .. 2 /\ rxr'.d1 = 1) \/ at' >= 9 * BPS_CNT + Echo!Half + 3
    <3>1. CASE Within
      <4>1. frame # <<>> /\ at' = at + 1
        BY <3>1, ByteType DEF Within
      <4>2. CASE at = 0
        BY <1>2, <4>1, <4>2, Edges
      <4>3. CASE at \in 1 .. 2
        <5>1. rxr.d1 = 1
          BY <1>1, <4>3 DEF Waiting
        <5>2. rxr.d0 \in {0, 1}
          BY DEF EchoType
        <5> QED
          BY <1>2, <1>4, <4>1, <4>3, <5>1, <5>2, Edges
      <4> QED
        BY <1>1, <4>1, <4>2, <4>3 DEF Waiting
    <3> QED
      BY <3>1, EchoSent DEF Between, Closing
  <2> QED
    BY <1>2, <2>1, <2>2 DEF Waiting
<1> QED
  BY <1>3, <1>4

LEMMA OverStep ==
  ASSUME InTime, EchoType, Sees, Over, Echo!Sender!Next,
         NEW s \in {line, line'}, rxr' = Echo!RxEdge(rxr, s)
  PROVE  Over' \/ Waiting'
<1>1. /\ BPS_CNT \in Nat /\ BPS_CNT >= 3 /\ Echo!Half \in Nat /\ Echo!Half >= 1
      /\ Echo!Half + 2 <= BPS_CNT /\ at \in Nat /\ at' \in Nat /\ stop \in Nat /\ stop >= 3
  BY EchoBits, EchoSent
<1>2. /\ rxr.flag /\ at = 0 /\ rxr.cnt = 9 /\ rxr.bps < BPS_CNT - 1
      /\ rxr'.d1 = 1 /\ rxr'.bps = rxr.bps + 1 /\ rxr'.cnt = 9
      /\ rxr'.flag <=> rxr.bps # Echo!Half
  <2>1. rxr.flag /\ at = 0 /\ rxr.cnt = 9 /\ rxr.bps < BPS_CNT - 1 /\ rxr.d0 = 1
    BY <1>1, Edges DEF Over
  <2> QED
    BY <2>1, RxFields, SeesStep
<1>3. CASE rxr.bps = Echo!Half
  <2>1. at' = 0 \/ at' = 1
    BY <1>1, <1>2, EchoSent DEF Between, Within, Closing
  <2>2. ~rxr'.flag
    BY <1>2, <1>3
  <2> QED
    BY <1>1, <1>2, <1>3, <2>1, <2>2 DEF Waiting
<1>4. CASE rxr.bps = Echo!Half - 1 /\ frame = <<>>
  <2>1. at' = 0
    BY <1>4, EchoSent, ByteType DEF Between, Within, Closing
  <2>2. rxr'.flag
    BY <1>1, <1>2, <1>4
  <2> QED
    BY <1>1, <1>2, <1>4, <2>1, <2>2 DEF Over
<1> QED
  BY <1>3, <1>4 DEF Over

\* The sample in the middle of a bit is that bit.
LEMMA EchoSample ==
  ASSUME InTime, EchoType, Sees, Hearing, rxr.bps = Echo!Half, rxr.cnt \in 1 .. 8
  PROVE  rxr.d1 = frame[rxr.cnt]
<1>1. /\ BPS_CNT \in Nat /\ BPS_CNT >= 3 /\ Echo!Half \in Nat /\ Echo!Half >= 1
      /\ Echo!Half + 2 <= BPS_CNT /\ at \in Nat /\ rxr.flag /\ at > 0
  BY EchoBits DEF EchoType, Hearing
<1>2. PICK k \in 1 .. 8 : k = rxr.cnt
  OBVIOUS
<1>3. k * BPS_CNT \in Nat
  BY <1>1, <1>2
<1>4. at = k * BPS_CNT + Echo!Half + 2 \/ at = k * BPS_CNT + Echo!Half + 3
  BY <1>1, <1>2, <1>3 DEF Hearing, Place
<1>5. Was(1) = frame[k] /\ Was(2) = frame[k]
  <2>1. /\ k * BPS_CNT + 1 < at /\ at <= k * BPS_CNT + BPS_CNT + 1
        /\ k * BPS_CNT + 2 < at /\ at <= k * BPS_CNT + BPS_CNT + 2
    BY <1>1, <1>3, <1>4
  <2> QED
    BY <2>1, WasLevel
<1> QED
  BY <1>1, <1>2, <1>5 DEF Sees

\* The counters of an engine that is under way.
LEMMA RxCounts ==
  ASSUME InTime, EchoType, rxr.flag, rxr.cnt = 9 => rxr.bps <= Echo!Half,
         NEW s \in {0, 1}, rxr' = Echo!RxEdge(rxr, s)
  PROVE  /\ rxr'.cnt \in 0 .. 9 /\ rxr'.bps \in 0 .. (BPS_CNT - 1)
         /\ Place(rxr)' = Place(rxr) + 1 /\ Place(rxr) \in Nat
         /\ \/ rxr'.cnt = rxr.cnt /\ rxr'.bps = rxr.bps + 1
            \/ rxr'.cnt = rxr.cnt + 1 /\ rxr.bps = BPS_CNT - 1 /\ rxr'.bps = 0
<1>1. /\ BPS_CNT \in Nat /\ BPS_CNT >= 3 /\ Echo!Half \in Nat /\ Echo!Half + 2 <= BPS_CNT
      /\ rxr.cnt \in 0 .. 9 /\ rxr.bps \in 0 .. (BPS_CNT - 1)
  BY EchoBits DEF EchoType
<1>2. /\ rxr.bps < BPS_CNT - 1 => rxr'.bps = rxr.bps + 1 /\ rxr'.cnt = rxr.cnt
      /\ rxr.bps = BPS_CNT - 1 => rxr'.bps = 0 /\ rxr'.cnt = rxr.cnt + 1
  BY RxFields
<1>3. /\ rxr'.cnt \in 0 .. 9 /\ rxr'.bps \in 0 .. (BPS_CNT - 1)
      /\ \/ rxr'.cnt = rxr.cnt /\ rxr'.bps = rxr.bps + 1
         \/ rxr'.cnt = rxr.cnt + 1 /\ rxr.bps = BPS_CNT - 1 /\ rxr'.bps = 0
  BY <1>1, <1>2
<1>4. rxr.cnt * BPS_CNT \in Nat /\ (rxr.cnt + 1) * BPS_CNT = rxr.cnt * BPS_CNT + BPS_CNT
  BY <1>1, Places
<1>5. Place(rxr)' = Place(rxr) + 1 /\ Place(rxr) \in Nat
  BY <1>1, <1>3, <1>4 DEF Place
<1> QED
  BY <1>3, <1>5

LEMMA HearingData ==
  ASSUME InTime, EchoType, Sees, Hearing, NEW s \in {0, 1}, rxr' = Echo!RxEdge(rxr, s)
  PROVE  /\ \A k \in 1 .. 8 :
              rxr'.cnt > k \/ (rxr'.cnt = k /\ rxr'.bps > Echo!Half) => rxr'.data[k] = frame[k]
         /\ rxr'.cnt = 9 => rxr'.data = frame
<1>1. /\ BPS_CNT \in Nat /\ BPS_CNT >= 3 /\ Echo!Half \in Nat /\ Echo!Half >= 1
      /\ Echo!Half + 2 <= BPS_CNT /\ rxr.flag /\ (rxr.cnt = 9 => rxr.bps <= Echo!Half)
      /\ rxr.cnt \in 0 .. 9 /\ rxr.bps \in 0 .. (BPS_CNT - 1) /\ rxr.data \in [1 .. 8 -> {0, 1}]
      /\ frame \in Bytes /\ frame \in [1 .. 8 -> {0, 1}]
  BY EchoBits, ByteType DEF EchoType, Hearing
<1>2. /\ \/ rxr'.cnt = rxr.cnt /\ rxr'.bps = rxr.bps + 1
         \/ rxr'.cnt = rxr.cnt + 1 /\ rxr.bps = BPS_CNT - 1 /\ rxr'.bps = 0
      /\ rxr'.cnt \in 0 .. 9
  BY <1>1, RxCounts
<1>3. ASSUME NEW k \in 1 .. 8, rxr'.cnt > k \/ (rxr'.cnt = k /\ rxr'.bps > Echo!Half)
      PROVE  rxr'.data[k] = frame[k]
  <2>1. CASE rxr.bps = Echo!Half /\ rxr.cnt \in 1 .. 8
    <3>1. rxr'.data = [rxr.data EXCEPT ![rxr.cnt] = rxr.d1]
      BY <1>1, <2>1, RxFields
    <3>2. rxr.d1 = frame[rxr.cnt]
      BY <2>1, EchoSample
    <3>3. rxr.cnt = k \/ rxr.cnt > k
      BY <1>1, <1>2, <1>3, <2>1
    <3>4. CASE rxr.cnt = k
      BY <1>1, <3>1, <3>2, <3>4
    <3>5. CASE rxr.cnt > k
      <4>1. rxr'.data[k] = rxr.data[k]
        BY <1>1, <2>1, <3>1, <3>5
      <4> QED
        BY <3>5, <4>1 DEF Hearing
    <3> QED
      BY <3>3, <3>4, <3>5
  <2>2. CASE ~(rxr.bps = Echo!Half /\ rxr.cnt \in 1 .. 8)
    <3>1. rxr'.data = rxr.data
      BY <1>1, <2>2, RxFields
    <3>2. rxr.cnt > k \/ (rxr.cnt = k /\ rxr.bps > Echo!Half)
      BY <1>1, <1>2, <1>3, <2>2
    <3> QED
      BY <3>1, <3>2 DEF Hearing
  <2> QED
    BY <2>1, <2>2
<1>4. ASSUME rxr'.cnt = 9 PROVE rxr'.data = frame
  <2>1. rxr'.data \in [1 .. 8 -> {0, 1}]
    BY RxFields
  <2>2. \A k \in 1 .. 8 : rxr'.data[k] = frame[k]
    BY <1>3, <1>4
  <2> QED
    BY <1>1, <2>1, <2>2
<1> QED
  BY <1>3, <1>4

\* While it hears a frame.
LEMMA HearingStep ==
  ASSUME InTime, EchoType, Sees, Hearing, Echo!Sender!Next,
         NEW s \in {line, line'}, rxr' = Echo!RxEdge(rxr, s)
  PROVE  Hearing' \/ Over' \/ Waiting'
<1>1. /\ BPS_CNT \in Nat /\ BPS_CNT >= 3 /\ Echo!Half \in Nat /\ Echo!Half >= 1
      /\ Echo!Half + 2 <= BPS_CNT /\ at \in Nat /\ at' \in Nat
      /\ stop \in Nat /\ stop >= Echo!Half + 2 /\ stop' = stop /\ s \in {0, 1}
      /\ rxr.flag /\ (rxr.cnt = 9 => rxr.bps <= Echo!Half) /\ at > 0
      /\ rxr.cnt \in 0 .. 9 /\ rxr.bps \in 0 .. (BPS_CNT - 1)
  BY EchoBits, EchoSent, SeesStep DEF EchoType, Hearing
<1>2. /\ rxr'.cnt \in 0 .. 9 /\ rxr'.bps \in 0 .. (BPS_CNT - 1)
      /\ Place(rxr)' = Place(rxr) + 1 /\ Place(rxr) \in Nat
      /\ \/ rxr'.cnt = rxr.cnt /\ rxr'.bps = rxr.bps + 1
         \/ rxr'.cnt = rxr.cnt + 1 /\ rxr.bps = BPS_CNT - 1 /\ rxr'.bps = 0
  BY <1>1, RxCounts
<1>3. rxr'.flag <=> \/ rxr.d1 = 1 /\ rxr.d0 = 0
                    \/ ~(rxr.bps = Echo!Half /\ rxr.cnt = 9)
  BY <1>1, RxFields
<1>4. Within \/ Closing
  BY <1>1, EchoSent DEF Between
<1>5. CASE rxr.bps = Echo!Half /\ rxr.cnt = 9
  <2>1. ~rxr'.flag
    BY <1>3, <1>5, Edges
  <2>2. at >= 9 * BPS_CNT + Echo!Half + 2
    BY <1>1, <1>5 DEF Hearing, Place
  <2>3. at' = 0 \/ at' >= 9 * BPS_CNT + Echo!Half + 3
    BY <1>1, <1>4, <2>2 DEF Within, Closing
  <2> QED
    BY <1>1, <1>2, <1>5, <2>1, <2>3 DEF Waiting
<1>6. CASE ~(rxr.bps = Echo!Half /\ rxr.cnt = 9)
  <2>1. rxr'.flag
    BY <1>3, <1>6
  <2>2. rxr'.cnt = 9 => rxr'.bps <= Echo!Half
    BY <1>1, <1>2, <1>6
  <2>3. CASE Within
    <3>1. at' = at + 1 /\ frame' = frame
      BY <2>3 DEF Within
    <3>2. at' = Place(rxr)' + 2 \/ at' = Place(rxr)' + 3
      BY <1>1, <1>2, <3>1 DEF Hearing
    <3>3. \A k \in 1 .. 8 :
            rxr'.cnt > k \/ (rxr'.cnt = k /\ rxr'.bps > Echo!Half) => rxr'.data[k] = frame'[k]
      BY <1>1, <3>1, HearingData
    <3> QED
      BY <1>1, <2>1, <2>2, <3>1, <3>2, <3>3 DEF Hearing
  <2>4. CASE Closing
    <3>1. at' = 0 /\ frame' = <<>> /\ at >= 9 * BPS_CNT + Echo!Half + 1
      BY <1>1, <2>4 DEF Closing
    <3>2. Place(rxr) >= 9 * BPS_CNT + Echo!Half - 2
      BY <1>1, <1>2, <3>1 DEF Hearing
    <3>3. /\ rxr.cnt * BPS_CNT \in Nat
          /\ rxr.cnt # 9 => rxr.cnt * BPS_CNT + BPS_CNT <= 9 * BPS_CNT
          /\ rxr.cnt < 8 => rxr.cnt * BPS_CNT + 2 * BPS_CNT <= 9 * BPS_CNT
      BY <1>1, Places
    <3>4. Place(rxr) = rxr.cnt * BPS_CNT + rxr.bps
      BY DEF Place
    <3>5. CASE rxr.cnt = 9
      BY <1>1, <1>2, <1>6, <2>1, <3>1, <3>2, <3>4, <3>5 DEF Over
    <3>6. CASE rxr.cnt # 9
      <4>1. rxr.cnt >= 8 /\ rxr.bps = BPS_CNT - 1 /\ Echo!Half = 1
        BY <1>1, <3>2, <3>3, <3>4, <3>6
      <4>2. rxr'.cnt = 9 /\ rxr'.bps = 0
        BY <1>1, <1>2, <3>6, <4>1
      <4> QED
        BY <1>1, <2>1, <3>1, <4>1, <4>2 DEF Over
    <3> QED
      BY <3>5, <3>6
  <2> QED
    BY <1>4, <2>3, <2>4
<1> QED
  BY <1>5, <1>6

\* How uart_rx's flag and counters go on.
LEMMA RxGoes ==
  ASSUME InTime, EchoType, Sees, Hearing \/ Over \/ Waiting,
         NEW s \in {0, 1}, rxr' = Echo!RxEdge(rxr, s)
  PROVE  /\ rxr.flag => /\ rxr.cnt = 9 => rxr.bps <= Echo!Half
                        /\ rxr'.flag <=> ~(rxr.cnt = 9 /\ rxr.bps = Echo!Half)
                        /\ \/ rxr'.cnt = rxr.cnt /\ rxr'.bps = rxr.bps + 1
                           \/ rxr'.cnt = rxr.cnt + 1 /\ rxr.bps = BPS_CNT - 1 /\ rxr'.bps = 0
                        /\ Place(rxr)' = Place(rxr) + 1
                        /\ rxr.cnt = 9 => rxr'.data = rxr.data
         /\ ~rxr.flag => /\ (rxr.cnt = 0 /\ rxr.bps = 0) \/ (rxr.cnt = 9 /\ rxr.bps = Echo!Half + 1)
                         /\ rxr'.cnt = 0 /\ rxr'.bps = 0 /\ Place(rxr)' = 0
         /\ rxr'.cnt \in 0 .. 9 /\ rxr'.bps \in 0 .. (BPS_CNT - 1)
         /\ Place(rxr) \in Nat
<1>1. /\ BPS_CNT \in Nat /\ BPS_CNT >= 3 /\ Echo!Half \in Nat /\ Echo!Half >= 1
      /\ Echo!Half + 2 <= BPS_CNT
      /\ rxr.cnt \in 0 .. 9 /\ rxr.bps \in 0 .. (BPS_CNT - 1)
  BY EchoBits DEF EchoType
<1>2. rxr.cnt * BPS_CNT \in Nat
  BY <1>1, Places
<1>3. CASE rxr.flag
  <2>1. Hearing \/ Over
    BY <1>3 DEF Waiting
  <2>2. rxr.cnt = 9 => rxr.bps <= Echo!Half
    BY <1>1, <2>1 DEF Hearing, Over
  <2>3. rxr.cnt = 9 /\ rxr.bps = Echo!Half => ~(rxr.d1 = 1 /\ rxr.d0 = 0)
    BY <2>1, Edges
  <2>4. /\ rxr'.flag <=> \/ rxr.d1 = 1 /\ rxr.d0 = 0
                         \/ rxr.flag /\ ~(rxr.bps = Echo!Half /\ rxr.cnt = 9)
        /\ rxr.cnt = 9 => rxr'.data = rxr.data
    BY <1>3, RxFields
  <2> QED
    BY <1>1, <1>2, <1>3, <2>2, <2>3, <2>4, RxCounts
<1>4. CASE ~rxr.flag
  <2>1. Waiting
    BY <1>4 DEF Hearing, Over
  <2>2. rxr'.cnt = 0 /\ rxr'.bps = 0
    BY <1>4, RxFields
  <2>3. Place(rxr)' = 0
    BY <1>1, <2>2 DEF Place
  <2> QED
    BY <1>1, <1>2, <1>4, <2>1, <2>2, <2>3 DEF Waiting, Place
<1> QED
  BY <1>3, <1>4

LEMMA HandedStep ==
  ASSUME InTime, EchoType, Sees, Hearing \/ Over \/ Waiting, Handed,
         NEW s \in {0, 1}, rxr' = Echo!RxEdge(rxr, s), txr' = Echo!TxEdge(txr, rxr.done, rxr.rxd)
  PROVE  Handed'
<1>1. /\ BPS_CNT \in Nat /\ BPS_CNT >= 3 /\ Echo!Half \in Nat /\ Echo!Half >= 1
      /\ Echo!Half + 2 <= BPS_CNT
      /\ rxr.cnt \in 0 .. 9 /\ rxr.bps \in 0 .. (BPS_CNT - 1)
  BY EchoBits DEF EchoType
<1>2. /\ txr'.d0 = rxr.done /\ txr'.d1 = txr.d0
      /\ rxr'.done <=> rxr.cnt = 9
      /\ rxr.cnt = 9 => rxr'.rxd = rxr.data
      /\ txr.d0 \in BOOLEAN /\ txr.d1 \in BOOLEAN /\ rxr.done \in BOOLEAN
      /\ rxr.flag \in BOOLEAN /\ rxr'.flag \in BOOLEAN
  BY RxFields, TxFields DEF EchoType
<1>3. CASE rxr.cnt = 9 /\ rxr.flag
  BY <1>1, <1>2, <1>3, RxGoes DEF Handed
<1>4. CASE ~rxr.flag
  BY <1>1, <1>2, <1>4, RxGoes DEF Handed
<1>5. CASE rxr.cnt # 9 /\ rxr.flag
  <2>1. /\ rxr'.flag /\ ~rxr'.done
        /\ \/ rxr'.cnt = rxr.cnt /\ rxr'.bps = rxr.bps + 1
           \/ rxr'.cnt = rxr.cnt + 1 /\ rxr.bps = BPS_CNT - 1 /\ rxr'.bps = 0
    BY <1>2, <1>5, RxGoes
  <2>2. /\ rxr.done => txr.d0 /\ rxr.cnt = 0 /\ rxr.bps = 0
        /\ txr.d0 => txr.d1 /\ rxr.cnt = 0 /\ rxr.bps <= 1
    BY <1>5 DEF Handed
  <2>3. CASE rxr'.cnt = 9
    <3>1. ~rxr.done /\ ~txr.d0 /\ rxr'.bps = 0
      BY <1>1, <1>5, <2>1, <2>2, <2>3
    <3> QED
      BY <1>2, <2>1, <2>3, <3>1 DEF Handed
  <2>4. CASE rxr'.cnt # 9
    BY <1>1, <1>2, <2>1, <2>2, <2>4 DEF Handed
  <2> QED
    BY <2>3, <2>4
<1> QED
  BY <1>3, <1>4, <1>5

LEMMA TxCounts ==
  ASSUME InTime, EchoType, Ahead, txr' = Echo!TxEdge(txr, rxr.done, rxr.rxd)
  PROVE  /\ txr.flag => /\ txr.cnt = 9 => txr.bps <= Echo!Half
                        /\ \/ txr'.cnt = txr.cnt /\ txr'.bps = txr.bps + 1
                           \/ txr'.cnt = txr.cnt + 1 /\ txr.bps = BPS_CNT - 1 /\ txr'.bps = 0
                        /\ Place(txr)' = Place(txr) + 1 /\ Place(txr) <= 9 * BPS_CNT + Echo!Half
         /\ ~txr.flag => /\ (txr.cnt = 0 /\ txr.bps = 0 /\ Place(txr) = 0)
                            \/ (/\ txr.cnt = 9 /\ txr.bps = Echo!Half + 1 /\ Ending
                                /\ Place(txr) = 9 * BPS_CNT + Echo!Half + 1)
                         /\ txr'.cnt = 0 /\ txr'.bps = 0 /\ Place(txr)' = 0
         /\ txr'.cnt \in 0 .. 9 /\ txr'.bps \in 0 .. (BPS_CNT - 1)
         /\ Place(txr) \in Nat
<1>1. /\ BPS_CNT \in Nat /\ BPS_CNT >= 3 /\ Echo!Half \in Nat /\ Echo!Half >= 1
      /\ Echo!Half + 2 <= BPS_CNT
      /\ txr.cnt \in 0 .. 9 /\ txr.bps \in 0 .. (BPS_CNT - 1)
  BY EchoBits DEF EchoType
<1>2. /\ txr.cnt * BPS_CNT \in Nat /\ (txr.cnt + 1) * BPS_CNT = txr.cnt * BPS_CNT + BPS_CNT
      /\ txr.cnt = 0 => txr.cnt * BPS_CNT = 0
      /\ txr.cnt # 9 => txr.cnt * BPS_CNT + BPS_CNT <= 9 * BPS_CNT
  BY <1>1, Places
<1>3. CASE txr.flag
  <2>1. txr.cnt = 9 => txr.bps <= Echo!Half
    BY <1>3 DEF Ahead
  <2>2. /\ txr.bps < BPS_CNT - 1 => txr'.bps = txr.bps + 1 /\ txr'.cnt = txr.cnt
        /\ txr.bps = BPS_CNT - 1 => txr'.bps = 0 /\ txr'.cnt = txr.cnt + 1
    BY <1>3, TxFields
  <2>3. /\ \/ txr'.cnt = txr.cnt /\ txr'.bps = txr.bps + 1
           \/ txr'.cnt = txr.cnt + 1 /\ txr.bps = BPS_CNT - 1 /\ txr'.bps = 0
        /\ txr'.cnt \in 0 .. 9 /\ txr'.bps \in 0 .. (BPS_CNT - 1)
    BY <1>1, <2>1, <2>2
  <2>4. Place(txr)' = Place(txr) + 1
    BY <1>1, <1>2, <2>3 DEF Place
  <2>5. Place(txr) <= 9 * BPS_CNT + Echo!Half /\ Place(txr) \in Nat
    BY <1>1, <1>2, <2>1 DEF Place
  <2> QED
    BY <1>3, <2>1, <2>3, <2>4, <2>5
<1>4. CASE ~txr.flag
  <2>1. (txr.cnt = 0 /\ txr.bps = 0) \/ (txr.cnt = 9 /\ txr.bps = Echo!Half + 1)
    BY <1>4 DEF Ahead
  <2>2. txr'.cnt = 0 /\ txr'.bps = 0
    BY <1>4, TxFields
  <2>3. Place(txr)' = 0
    BY <1>1, <2>2 DEF Place
  <2> QED
    BY <1>1, <1>2, <1>4, <2>1, <2>2, <2>3 DEF Place, Ending
<1> QED
  BY <1>3, <1>4

\* uart_tx takes the byte.
Loading == rxr.flag /\ rxr.cnt = 9 /\ rxr.bps = 1

LEMMA TxStarts ==
  ASSUME InTime, EchoType, Hearing \/ Over \/ Waiting, Handed, Ahead
  PROVE  /\ Loading => rxr.done /\ ~txr.d1 /\ ~txr.flag /\ rxr.rxd = rxr.data
         /\ rxr.done /\ ~txr.d1 /\ ~Loading
              => Loaded /\ rxr.bps = 2 /\ rxr.rxd = txr.data
<1>1. /\ BPS_CNT \in Nat /\ BPS_CNT >= 3 /\ Echo!Half \in Nat /\ Echo!Half >= 1
      /\ rxr.cnt \in 0 .. 9 /\ rxr.bps \in 0 .. (BPS_CNT - 1) /\ rxr.flag \in BOOLEAN
      /\ txr.cnt \in 0 .. 9 /\ txr.bps \in 0 .. (BPS_CNT - 1)
      /\ txr.d0 \in BOOLEAN /\ txr.d1 \in BOOLEAN /\ rxr.done \in BOOLEAN
  BY EchoBits DEF EchoType
<1>2. ASSUME Loading PROVE rxr.done /\ ~txr.d1 /\ ~txr.flag /\ rxr.rxd = rxr.data
  <2>1. rxr.done /\ ~txr.d1 /\ rxr.rxd = rxr.data
    BY <1>1, <1>2 DEF Loading, Handed
  <2>2. ASSUME txr.flag PROVE FALSE
    <3>1. ~Loaded /\ Place(rxr) = 9 * BPS_CNT + 1
      BY <1>1, <1>2 DEF Loading, Loaded, Place
    <3>2. Place(txr) <= 9 * BPS_CNT + Echo!Half /\ Place(txr) \in Nat
      <4>1. /\ txr.cnt * BPS_CNT \in Nat /\ txr.cnt * BPS_CNT <= 9 * BPS_CNT
            /\ txr.cnt # 9 => txr.cnt * BPS_CNT + BPS_CNT <= 9 * BPS_CNT
        BY <1>1, Places
      <4>2. txr.cnt = 9 => txr.bps <= Echo!Half
        BY <2>2 DEF Ahead
      <4> QED
        BY <1>1, <4>1, <4>2 DEF Place
    <3>3. Place(rxr) + Echo!Half <= Place(txr)
      BY <2>2, <3>1 DEF Ahead
    <3> QED
      BY <1>1, <3>1, <3>2, <3>3
  <2> QED
    BY <2>1, <2>2
<1>3. ASSUME rxr.done, ~txr.d1, ~Loading PROVE Loaded /\ rxr.bps = 2 /\ rxr.rxd = txr.data
  <2>1. rxr.cnt = 9 /\ rxr.rxd = rxr.data /\ rxr.bps < 3 /\ (~rxr.flag \/ rxr.bps >= 1)
    BY <1>1, <1>3 DEF Handed
  <2>2. ~rxr.flag => rxr.bps = Echo!Half + 1
    BY <2>1 DEF Hearing, Over, Waiting
  <2>3. Loaded /\ rxr.bps = 2
    BY <1>1, <1>3, <2>1, <2>2 DEF Loaded, Loading
  <2> QED
    BY <2>1, <2>3 DEF Ahead
<1> QED
  BY <1>2, <1>3

LEMMA TxGoes ==
  ASSUME InTime, EchoType, Hearing \/ Over \/ Waiting, Handed, Ahead,
         txr' = Echo!TxEdge(txr, rxr.done, rxr.rxd)
  PROVE  /\ txr'.flag <=> Loading \/ (txr.flag /\ ~(txr.cnt = 9 /\ txr.bps = Echo!Half))
         /\ Loading => ~txr.flag /\ txr'.data = rxr.data
         /\ txr.flag /\ txr'.flag => txr'.data = txr.data
<1>1. /\ BPS_CNT \in Nat /\ BPS_CNT >= 3 /\ Echo!Half \in Nat /\ Echo!Half >= 1
      /\ txr.d1 \in BOOLEAN /\ rxr.done \in BOOLEAN /\ txr.flag \in BOOLEAN /\ txr'.flag \in BOOLEAN
  BY EchoBits, TxFields DEF EchoType
<1>2. /\ txr'.flag <=> \/ rxr.done /\ ~txr.d1
                       \/ txr.flag /\ ~(txr.cnt = 9 /\ txr.bps = Echo!Half)
      /\ rxr.done /\ ~txr.d1 => txr'.data = rxr.rxd
      /\ ~(rxr.done /\ ~txr.d1) /\ ~(txr.cnt = 9 /\ txr.bps = Echo!Half) => txr'.data = txr.data
  BY TxFields
<1>3. CASE Loading
  BY <1>2, <1>3, TxStarts
<1>4. CASE ~Loading /\ rxr.done /\ ~txr.d1
  <2>1. Loaded /\ rxr.rxd = txr.data
    BY <1>4, TxStarts
  <2>2. txr.flag /\ txr.cnt = 0 /\ txr.cnt # 9
    BY <2>1 DEF Ahead
  <2>3. txr'.flag /\ txr'.data = txr.data
    BY <1>2, <1>4, <2>1, Zenon
  <2> QED
    BY <1>4, <2>2, <2>3, Zenon
<1>5. CASE ~Loading /\ ~(rxr.done /\ ~txr.d1)
  BY <1>1, <1>2, <1>5
<1> QED
  BY <1>3, <1>4, <1>5

LEMMA AheadStep ==
  ASSUME InTime, EchoType, Sees, Hearing \/ Over \/ Waiting, Handed, Ahead,
         NEW s \in {0, 1}, rxr' = Echo!RxEdge(rxr, s), txr' = Echo!TxEdge(txr, rxr.done, rxr.rxd)
  PROVE  Ahead'
<1>1. /\ BPS_CNT \in Nat /\ BPS_CNT >= 3 /\ Echo!Half \in Nat /\ Echo!Half >= 1
      /\ Echo!Half + 2 <= BPS_CNT
      /\ rxr.cnt \in 0 .. 9 /\ rxr.bps \in 0 .. (BPS_CNT - 1)
      /\ txr.cnt \in 0 .. 9 /\ txr.bps \in 0 .. (BPS_CNT - 1)
  BY EchoBits DEF EchoType
<1>2. /\ txr'.flag <=> Loading \/ (txr.flag /\ ~(txr.cnt = 9 /\ txr.bps = Echo!Half))
      /\ Loading => ~txr.flag /\ txr'.data = rxr.data
      /\ txr.flag /\ txr'.flag => txr'.data = txr.data
  BY TxGoes
<1>3. txr'.out = IF txr'.flag /\ Place(txr)' > 0
                   THEN Echo!Sender!Level(txr'.data, (Place(txr)' - 1) \div BPS_CNT) ELSE 1
  <2>1. CASE ~txr.flag
    <3>1. txr'.out = 1 /\ Place(txr)' = 0
      BY <2>1, TxFields, TxCounts
    <3> QED
      BY <3>1
  <2>2. CASE txr.flag /\ ~txr'.flag
    <3>1. txr.cnt = 9
      BY <1>2, <2>2
    <3>2. txr'.out = 1
      BY <3>1, TxFields
    <3> QED
      BY <2>2, <3>2
  <2>3. CASE txr.flag /\ txr'.flag
    <3>1. txr'.out = Echo!Sender!Level(txr.data, Place(txr) \div BPS_CNT)
      BY <2>3, TxFields
    <3>2. Place(txr)' = Place(txr) + 1 /\ Place(txr) \in Nat
      BY <2>3, TxCounts
    <3>3. Place(txr)' > 0 /\ Place(txr)' - 1 = Place(txr)
      BY <3>2
    <3> QED
      BY <1>2, <2>3, <3>1, <3>3
  <2> QED
    BY <2>1, <2>2, <2>3
<1>4. CASE Loading
  <2>1. ~txr.flag /\ txr'.flag /\ txr'.data = rxr.data /\ txr'.cnt = 0 /\ txr'.bps = 0
    BY <1>2, <1>4, TxCounts
  <2>2. rxr'.cnt = 9 /\ rxr'.bps = 2 /\ rxr'.data = rxr.data
    BY <1>1, <1>4, RxGoes DEF Loading
  <2>3. Loaded'
    BY <2>2 DEF Loaded
  <2> QED
    BY <1>3, <2>1, <2>2, <2>3 DEF Ahead
<1>5. CASE Loaded
  <2>1. /\ txr.flag /\ txr.data = rxr.data /\ txr.cnt = 0 /\ rxr.bps = 2 + txr.bps /\ ~Loading
        /\ rxr.cnt = 9
    BY <1>1, <1>5 DEF Ahead, Loaded, Loading
  <2>2. txr'.flag /\ txr'.data = txr.data
    BY <1>2, <2>1
  <2>3. CASE rxr.flag
    <3>1. /\ rxr'.cnt = 9 /\ rxr'.bps = rxr.bps + 1 /\ rxr'.data = rxr.data /\ rxr.bps <= Echo!Half
      BY <1>1, <2>1, <2>3, RxGoes
    <3>2. Loaded'
      BY <1>1, <2>1, <3>1 DEF Loaded
    <3>3. txr'.cnt = 0 /\ txr'.bps = txr.bps + 1
      BY <1>1, <2>1, <3>1, TxCounts
    <3> QED
      BY <1>1, <1>3, <2>1, <2>2, <3>1, <3>2, <3>3 DEF Ahead
  <2>4. CASE ~rxr.flag
    <3>1. rxr'.cnt = 0 /\ rxr'.bps = 0 /\ Place(rxr)' = 0 /\ rxr.bps = Echo!Half + 1
      BY <2>1, <2>4, RxGoes
    <3>2. txr'.cnt = 0 /\ txr'.bps = Echo!Half
      BY <1>1, <2>1, <3>1, TxCounts
    <3>3. ~Loaded' /\ Place(txr)' = Echo!Half
      BY <1>1, <3>1, <3>2 DEF Loaded, Place
    <3> QED
      BY <1>1, <1>3, <2>2, <3>1, <3>2, <3>3 DEF Ahead
  <2> QED
    BY <2>3, <2>4
<1>6. CASE ~Loading /\ ~Loaded
  <2>1. ~Loaded' /\ Place(rxr)' <= Place(rxr) + 1 /\ Place(rxr)' \in Nat /\ Place(rxr) \in Nat
    BY <1>1, <1>6, RxGoes DEF Loaded, Loading
  <2>2. txr'.flag <=> txr.flag /\ ~(txr.cnt = 9 /\ txr.bps = Echo!Half)
    BY <1>2, <1>6
  <2>3. txr.flag \/ Ending => Place(rxr) + Echo!Half <= Place(txr)
    BY <1>6 DEF Ahead
  <2>4. CASE txr.flag
    <3>1. /\ txr.cnt = 9 => txr.bps <= Echo!Half
          /\ \/ txr'.cnt = txr.cnt /\ txr'.bps = txr.bps + 1
             \/ txr'.cnt = txr.cnt + 1 /\ txr.bps = BPS_CNT - 1 /\ txr'.bps = 0
          /\ Place(txr)' = Place(txr) + 1 /\ Place(txr) \in Nat
      BY <2>4, TxCounts
    <3>2. Place(rxr)' + Echo!Half <= Place(txr)'
      BY <1>1, <2>1, <2>3, <2>4, <3>1
    <3>3. CASE txr.cnt = 9 /\ txr.bps = Echo!Half
      <4>1. ~txr'.flag /\ txr'.cnt = 9 /\ txr'.bps = Echo!Half + 1
        BY <1>1, <2>2, <3>1, <3>3
      <4> QED
        BY <1>3, <2>1, <3>2, <4>1 DEF Ahead
    <3>4. CASE ~(txr.cnt = 9 /\ txr.bps = Echo!Half)
      <4>1. txr'.flag /\ (txr'.cnt = 9 => txr'.bps <= Echo!Half)
        BY <1>1, <2>2, <2>4, <3>1, <3>4
      <4> QED
        BY <1>3, <2>1, <3>2, <4>1 DEF Ahead
    <3> QED
      BY <3>3, <3>4
  <2>5. CASE ~txr.flag
    <3>1. ~txr'.flag /\ txr'.cnt = 0 /\ txr'.bps = 0
      BY <2>2, <2>5, TxCounts
    <3> QED
      BY <1>3, <2>1, <3>1 DEF Ahead, Ending
  <2> QED
    BY <2>4, <2>5
<1> QED
  BY <1>4, <1>5, <1>6

\* The tap reads what uart_tx sends.
LEMMA TappedStep ==
  ASSUME InTime, EchoType, Hearing \/ Over \/ Waiting, Handed, Ahead, Tapped,
         txr' = Echo!TxEdge(txr, rxr.done, rxr.rxd), tap' = Echo!TapEdge(tap, txr.out)
  PROVE  /\ Tapped'
         /\ tap'.got = IF Ending THEN <<tap.data>> ELSE <<>>
         /\ Ending' => txr.flag /\ tap'.data = txr.data
<1>1. /\ BPS_CNT \in Nat /\ BPS_CNT >= 3 /\ Echo!Half \in Nat /\ Echo!Half >= 1
      /\ Echo!Half + 2 <= BPS_CNT
      /\ txr.cnt \in 0 .. 9 /\ txr.bps \in 0 .. (BPS_CNT - 1)
      /\ txr.data \in [1 .. 8 -> {0, 1}] /\ tap.data \in [1 .. 8 -> {0, 1}]
      /\ tap.t \in Nat
  BY EchoBits DEF EchoType
<1>2. /\ txr'.flag <=> Loading \/ (txr.flag /\ ~(txr.cnt = 9 /\ txr.bps = Echo!Half))
      /\ Loading => ~txr.flag
      /\ txr.flag /\ txr'.flag => txr'.data = txr.data
  BY TxGoes
<1>3. CASE ~txr.flag
  <2>1. txr.out = 1 /\ Place(txr)' = 0 /\ txr'.cnt = 0
    BY <1>3, TxCounts DEF Ahead
  <2>2. ~Ending' /\ ~(txr'.flag /\ Place(txr)' >= 2) /\ ~(txr'.flag /\ Place(txr)' = 1)
    BY <2>1 DEF Ending
  <2>3. CASE Ending
    <3>1. /\ tap.busy /\ tap.t = Place(txr) - 1 /\ txr.cnt = 9 /\ txr.bps = Echo!Half + 1
      BY <1>1, <1>3, <2>3 DEF Tapped, Ending, Ahead
    <3>2. tap.t % BPS_CNT = Echo!Half /\ tap.t \div BPS_CNT = 9
      <4>1. tap.t = txr.cnt * BPS_CNT + txr.bps - 1
        BY <1>1, <3>1, Places DEF Place
      <4> QED
        BY <1>1, <3>1, <4>1, TapPlace
    <3>3. ~tap'.busy /\ tap'.last = 1 /\ tap'.got = <<tap.data>>
      BY <2>1, <3>1, <3>2, TapFields
    <3> QED
      BY <2>2, <2>3, <3>3 DEF Tapped
  <2>4. CASE ~Ending
    <3>1. ~tap.busy /\ tap.last = 1
      BY <1>3, <2>4 DEF Tapped
    <3>2. ~tap'.busy /\ tap'.last = 1 /\ tap'.got = <<>>
      BY <2>1, <3>1, TapFields
    <3> QED
      BY <2>2, <2>4, <3>2 DEF Tapped
  <2> QED
    BY <2>3, <2>4
<1>4. CASE txr.flag
  <2>1. /\ ~Ending /\ (txr.cnt = 9 => txr.bps <= Echo!Half)
        /\ \/ txr'.cnt = txr.cnt /\ txr'.bps = txr.bps + 1
           \/ txr'.cnt = txr.cnt + 1 /\ txr.bps = BPS_CNT - 1 /\ txr'.bps = 0
        /\ Place(txr)' = Place(txr) + 1 /\ Place(txr) \in Nat
    BY <1>4, TxCounts DEF Ending
  <2>2. CASE Place(txr) = 0
    <3>1. ~tap.busy /\ tap.last = 1 /\ txr.out = 1
      BY <1>4, <2>1, <2>2 DEF Tapped, Ahead
    <3>2. ~tap'.busy /\ tap'.last = 1 /\ tap'.got = <<>>
      BY <3>1, TapFields
    <3>3. txr.cnt = 0 /\ txr'.cnt # 9
      <4>1. txr.cnt # 0 => txr.cnt * BPS_CNT >= BPS_CNT
        BY <1>1, Places
      <4>2. txr.cnt * BPS_CNT + txr.bps = 0 /\ txr.cnt * BPS_CNT \in Nat
        BY <1>1, <2>2, Places DEF Place
      <4> QED
        BY <1>1, <2>1, <4>1, <4>2
    <3> QED
      BY <2>1, <2>2, <3>2, <3>3 DEF Tapped, Ending
  <2>3. CASE Place(txr) = 1
    <3>1. txr.cnt = 0 /\ txr.bps = 1
      <4>1. txr.cnt # 0 => txr.cnt * BPS_CNT >= BPS_CNT
        BY <1>1, Places
      <4>2. txr.cnt * BPS_CNT + txr.bps = 1 /\ txr.cnt * BPS_CNT \in Nat
            /\ (txr.cnt = 0 => txr.cnt * BPS_CNT = 0)
        BY <1>1, <2>3, Places DEF Place
      <4> QED
        BY <1>1, <4>1, <4>2
    <3>2. txr.out = 0
      <4>1. (Place(txr) - 1) \div BPS_CNT = 0
        BY <1>1, <2>3, Quotient
      <4> QED
        BY <1>4, <2>3, <4>1 DEF Ahead, Echo!Sender!Level
    <3>3. ~tap.busy /\ tap.last = 1
      BY <1>4, <2>1, <2>3 DEF Tapped
    <3>4. tap'.busy /\ tap'.t = 1 /\ tap'.got = <<>>
      BY <3>2, <3>3, TapFields
    <3>5. txr'.flag /\ txr'.cnt = 0
      BY <1>1, <1>2, <1>4, <2>1, <3>1
    <3>6. ~Ending' /\ Place(txr)' = 2
      BY <2>1, <2>3, <3>5 DEF Ending
    <3> QED
      BY <2>1, <3>4, <3>5, <3>6 DEF Tapped
  <2>4. CASE Place(txr) >= 2
    <3>1. /\ tap.busy /\ tap.t = Place(txr) - 1
          /\ \A k \in 1 .. 8 : txr.cnt > k \/ (txr.cnt = k /\ txr.bps > Echo!Half + 1)
               => tap.data[k] = txr.data[k]
      BY <1>4, <2>4 DEF Tapped
    <3>2. /\ tap.t % BPS_CNT = Echo!Half <=> txr.bps = Echo!Half + 1
          /\ txr.bps = Echo!Half + 1 => tap.t \div BPS_CNT = txr.cnt
      <4>1. tap.t = txr.cnt * BPS_CNT + txr.bps - 1
        <5>1. tap.t = Place(txr) - 1
          BY <3>1
        <5>2. txr.cnt * BPS_CNT \in Nat
          BY <1>1, Places
        <5> QED
          BY <1>1, <5>1, <5>2 DEF Place
      <4> QED
        BY <1>1, <4>1, TapPlace
    <3>3. ~(tap.t % BPS_CNT = Echo!Half /\ tap.t \div BPS_CNT = 9)
      BY <1>1, <2>1, <3>2
    <3>4. tap'.busy /\ tap'.t = tap.t + 1 /\ tap'.got = <<>>
      BY <3>1, <3>3, TapFields
    <3>5. ASSUME NEW k \in 1 .. 8, txr'.cnt > k \/ (txr'.cnt = k /\ txr'.bps > Echo!Half + 1)
          PROVE  tap'.data[k] = txr.data[k]
      <4>1. CASE txr.bps = Echo!Half + 1 /\ txr.cnt \in 1 .. 8
        <5>1. tap'.data = [tap.data EXCEPT ![txr.cnt] = txr.out]
          <6>1. tap.t % BPS_CNT = Echo!Half /\ tap.t \div BPS_CNT = txr.cnt
            BY <3>2, <4>1
          <6>2. tap'.data = [tap.data EXCEPT ![tap.t \div BPS_CNT] = txr.out]
            BY <3>1, <4>1, <6>1, TapFields
          <6> QED
            BY <6>1, <6>2
        <5>2. txr.out = txr.data[txr.cnt]
          <6>1. (Place(txr) - 1) \div BPS_CNT = txr.cnt
            BY <3>1, <3>2, <4>1
          <6>2. txr.out = Echo!Sender!Level(txr.data, txr.cnt)
            BY <1>4, <2>1, <2>4, <6>1 DEF Ahead
          <6> QED
            BY <4>1, <6>2 DEF Echo!Sender!Level
        <5>3. txr.cnt = k \/ txr.cnt > k
          BY <1>1, <2>1, <3>5, <4>1
        <5> QED
          BY <1>1, <3>1, <4>1, <5>1, <5>2, <5>3
      <4>2. CASE ~(txr.bps = Echo!Half + 1 /\ txr.cnt \in 1 .. 8)
        <5>1. tap'.data = tap.data
          BY <3>1, <3>2, <4>2, TapFields
        <5>2. txr.cnt > k \/ (txr.cnt = k /\ txr.bps > Echo!Half + 1)
          BY <1>1, <2>1, <3>5, <4>2
        <5> QED
          BY <3>1, <5>1, <5>2
      <4> QED
        BY <4>1, <4>2
    <3>6. ASSUME Ending' PROVE txr.flag /\ tap'.data = txr.data
      <4>1. ~txr'.flag /\ txr'.cnt = 9 /\ txr.cnt = 9
        BY <1>2, <1>4, <3>6 DEF Ending
      <4>2. \A k \in 1 .. 8 : tap'.data[k] = txr.data[k]
        BY <3>5, <4>1
      <4>3. tap'.data \in [1 .. 8 -> {0, 1}]
        BY TapFields
      <4> QED
        BY <1>1, <1>4, <4>2, <4>3
    <3>7. txr'.flag \/ Ending'
      BY <1>1, <1>2, <1>4, <2>1 DEF Ending
    <3>8. /\ tap'.busy /\ tap'.t = Place(txr)' - 1 /\ tap'.got = <<>>
          /\ txr'.flag => \A k \in 1 .. 8 :
               txr'.cnt > k \/ (txr'.cnt = k /\ txr'.bps > Echo!Half + 1) => tap'.data[k] = txr'.data[k]
      BY <1>2, <1>4, <2>1, <3>1, <3>4, <3>5
    <3>9. Tapped'
      BY <2>1, <2>4, <3>7, <3>8 DEF Tapped
    <3> QED
      BY <2>1, <3>4, <3>6, <3>9
  <2> QED
    BY <2>1, <2>2, <2>3, <2>4
<1> QED
  BY <1>3, <1>4

LEMMA EchoTypeStep ==
  ASSUME InTime, EchoType, Sees, Hearing \/ Over \/ Waiting, Handed, Ahead, Echo!Sender!Next,
         NEW s \in {line, line'}, rxr' = Echo!RxEdge(rxr, s),
         txr' = Echo!TxEdge(txr, rxr.done, rxr.rxd), tap' = Echo!TapEdge(tap, txr.out)
  PROVE  EchoType'
<1>1. s \in {0, 1}
  BY SeesStep
<1>2. /\ bit = BPS_CNT /\ stop \in EchoStops /\ BPS_CNT \in Nat /\ rxr.d0 \in {0, 1}
      /\ rxr.done \in BOOLEAN /\ txr.d0 \in BOOLEAN
  BY EchoBits DEF EchoType
<1>3. /\ bit' = BPS_CNT /\ stop' \in EchoStops
      /\ frame' \in Bytes \cup {<<>>} /\ at' \in 0 .. (9 * BPS_CNT + stop' - 1)
      /\ frame' = <<>> => at' = 0
  <2>1. /\ bit' = bit /\ stop' = stop /\ stop \in Nat /\ at' \in Nat /\ at' <= 9 * BPS_CNT + stop - 1
        /\ frame' = <<>> => at' = 0
        /\ Between \/ Within \/ Closing
    BY EchoSent
  <2>2. frame' \in Bytes \cup {<<>>}
    BY <2>1 DEF Between, Within, Closing
  <2> QED
    BY <1>2, <2>1, <2>2
<1>4. rxr' \in [d0 : {0, 1}, d1 : {0, 1}, flag : BOOLEAN, bps : 0 .. (BPS_CNT - 1), cnt : 0 .. 9,
                data : [1 .. 8 -> {0, 1}], rxd : [1 .. 8 -> {0, 1}], done : BOOLEAN]
  <2>1. rxr'.cnt \in 0 .. 9 /\ rxr'.bps \in 0 .. (BPS_CNT - 1)
    BY <1>1, RxGoes
  <2>2. /\ rxr' = [d0 |-> s, d1 |-> rxr.d0, flag |-> rxr'.flag, bps |-> rxr'.bps, cnt |-> rxr'.cnt,
                   data |-> rxr'.data, rxd |-> rxr'.rxd, done |-> rxr'.done]
        /\ rxr'.flag \in BOOLEAN /\ rxr'.done \in BOOLEAN
        /\ rxr'.data \in [1 .. 8 -> {0, 1}] /\ rxr'.rxd \in [1 .. 8 -> {0, 1}]
    BY <1>1, RxFields
  <2> QED
    BY <1>1, <1>2, <2>1, <2>2
<1>5. txr' \in [d0 : BOOLEAN, d1 : BOOLEAN, flag : BOOLEAN, bps : 0 .. (BPS_CNT - 1), cnt : 0 .. 9,
                data : [1 .. 8 -> {0, 1}], out : {0, 1}]
  <2>1. txr'.cnt \in 0 .. 9 /\ txr'.bps \in 0 .. (BPS_CNT - 1)
    BY TxCounts
  <2>2. /\ txr' = [d0 |-> txr'.d0, d1 |-> txr'.d1, flag |-> txr'.flag, bps |-> txr'.bps,
                   cnt |-> txr'.cnt, data |-> txr'.data, out |-> txr'.out]
        /\ txr'.flag \in BOOLEAN /\ txr'.d0 \in BOOLEAN /\ txr'.d1 \in BOOLEAN
        /\ txr'.data \in [1 .. 8 -> {0, 1}] /\ txr'.out \in {0, 1}
    BY TxFields
  <2> QED
    BY <2>1, <2>2
<1>6. tap' \in [busy : BOOLEAN, t : Nat, data : [1 .. 8 -> {0, 1}], last : {0, 1},
                got : {<<>>} \cup {<<d>> : d \in [1 .. 8 -> {0, 1}]}]
  BY TapFields
<1> QED
  BY <1>3, <1>4, <1>5, <1>6 DEF EchoType

\* What is owed, as its parts move up.
LEMMA DueSeq ==
  ASSUME NEW S, NEW a \in Seq(S), NEW b \in Seq(S), NEW c \in Seq(S), NEW d \in Seq(S)
  PROVE  Due(a, b, c, d) \in Seq(S) /\ Len(Due(a, b, c, d)) = Len(a) + Len(b) + Len(c) + Len(d)
<1>1. a \o b \in Seq(S) /\ Len(a \o b) = Len(a) + Len(b)
  BY ConcatProperties
<1>2. (a \o b) \o c \in Seq(S) /\ Len((a \o b) \o c) = Len(a) + Len(b) + Len(c)
  BY <1>1, ConcatProperties
<1> QED
  BY <1>2, ConcatProperties DEF Due

LEMMA DueShort ==
  ASSUME NEW S, NEW a \in Seq(S), NEW b \in Seq(S), NEW c \in Seq(S),
         Len(a) \in 0 .. 1, Len(b) \in 0 .. 1, Len(c) \in 0 .. 1
  PROVE  Len(Due(<<>>, a, b, c)) < 4
<1>1. <<>> \in Seq(S) /\ Len(<<>>) = 0
  OBVIOUS
<1>2. PICK e \in Seq(S) : e = <<>> /\ Len(e) = 0
  BY <1>1
<1>3. Len(Due(e, a, b, c)) = Len(e) + Len(a) + Len(b) + Len(c)
  BY DueSeq
<1>4. Len(Due(e, a, b, c)) < 4
  <2>1. Len(e) = 0
    BY <1>2
  <2> DEFINE l == Len(Due(e, a, b, c))
             k == Len(e)
             x == Len(a)
             y == Len(b)
             z == Len(c)
  <2>2. l = k + x + y + z /\ k = 0 /\ x \in 0 .. 1 /\ y \in 0 .. 1 /\ z \in 0 .. 1
    BY <2>1, <1>3
  <2> HIDE DEF l, k, x, y, z
  <2>3. l < 4
    BY <2>2
  <2> QED
    BY <2>3 DEF l
<1>5. Due(e, a, b, c) = Due(<<>>, a, b, c)
  BY <1>2
<1> QED
  BY <1>4, <1>5

LEMMA DueMoves ==
  ASSUME NEW S, NEW a \in Seq(S), NEW b \in Seq(S), NEW c \in Seq(S)
  PROVE  /\ Due(<<>>, a, b, c) = Due(a, <<>>, b, c)
         /\ Due(a, <<>>, b, c) = Due(a, b, <<>>, c)
         /\ Due(a, b, <<>>, c) = Due(a, b, c, <<>>)
<1>1. a \o b \in Seq(S)
  BY ConcatProperties
<1>2. (a \o b) \o c \in Seq(S)
  BY <1>1, ConcatProperties
<1>3. /\ <<>> \o a = a /\ a \o <<>> = a /\ (a \o b) \o <<>> = a \o b
      /\ ((a \o b) \o c) \o <<>> = (a \o b) \o c
  BY <1>1, <1>2, ConcatEmptySeq
<1> QED
  BY <1>3 DEF Due

LEMMA DueAppend ==
  ASSUME NEW S, NEW a \in Seq(S), NEW b \in Seq(S), NEW c \in Seq(S), NEW x \in S
  PROVE  Append(Due(a, b, c, <<>>), x) = Due(a, b, c, <<x>>)
<1>1. a \o b \in Seq(S)
  BY ConcatProperties
<1>2. (a \o b) \o c \in Seq(S)
  BY <1>1, ConcatProperties
<1>3. Due(a, b, c, <<>>) = (a \o b) \o c
  BY <1>2, ConcatEmptySeq DEF Due
<1>4. Append((a \o b) \o c, x) = ((a \o b) \o c) \o <<x>>
  BY <1>2, AppendIsConcat
<1> QED
  BY <1>3, <1>4 DEF Due

LEMMA ConsSeq ==
  ASSUME NEW S, NEW x \in S, NEW r \in Seq(S), NEW f, f = <<x>> \o r
  PROVE  /\ f \in Seq(S) /\ f # <<>> /\ Len(f) = 1 + Len(r) /\ Len(r) \in Nat
         /\ f[1] = x /\ \A i \in 1 .. Len(r) : f[i + 1] = r[i]
<1>1. <<x>> \in Seq(S) /\ Len(<<x>>) = 1 /\ <<x>>[1] = x
  OBVIOUS
<1>2. /\ f \in Seq(S) /\ Len(f) = 1 + Len(r) /\ Len(r) \in Nat
      /\ \A i \in 1 .. 1 + Len(r) : f[i] = IF i <= 1 THEN x ELSE r[i - 1]
  BY <1>1, ConcatProperties, LenProperties
<1> QED
  BY <1>2, EmptySeq

LEMMA ConsHead ==
  ASSUME NEW S, NEW x \in S, NEW r \in Seq(S), NEW f, f = <<x>> \o r
  PROVE  f # <<>> /\ Head(f) = x
<1>1. f \in Seq(S) /\ f # <<>> /\ Len(f) = 1 + Len(r) /\ Len(r) \in Nat /\ f[1] = x
  BY ConsSeq
<1> QED
  BY <1>1

LEMMA ConsTail ==
  ASSUME NEW S, NEW x \in S, NEW r \in Seq(S), NEW f, f = <<x>> \o r
  PROVE  f # <<>> /\ Tail(f) = r
<1>1. /\ f \in Seq(S) /\ f # <<>> /\ Len(f) = 1 + Len(r)
      /\ Len(r) \in Nat /\ \A i \in 1 .. Len(r) : f[i + 1] = r[i]
  BY ConsSeq
<1>2. /\ Tail(f) \in Seq(S) /\ Len(Tail(f)) = Len(f) - 1
      /\ \A i \in 1 .. Len(Tail(f)) : Tail(f)[i] = f[i + 1]
  BY <1>1, HeadTailProperties
<1>3. Len(Tail(f)) = Len(r)
  BY <1>1, <1>2
<1> QED
  BY <1>1, <1>2, <1>3, SeqEqual

LEMMA DueCons ==
  ASSUME NEW S, NEW x \in S, NEW b \in Seq(S), NEW c \in Seq(S), NEW d \in Seq(S)
  PROVE  Due(<<x>>, b, c, d) = <<x>> \o Due(<<>>, b, c, d) /\ Due(<<>>, b, c, d) \in Seq(S)
<1>1. <<x>> \in Seq(S)
  OBVIOUS
<1>2. b \o c \in Seq(S) /\ <<>> \o b = b
  BY ConcatProperties, ConcatEmptySeq
<1>3. (<<x>> \o b) \o c = <<x>> \o (b \o c)
  BY <1>1, ConcatAssociative
<1>4. (<<x>> \o (b \o c)) \o d = <<x>> \o ((b \o c) \o d)
  BY <1>1, <1>2, ConcatAssociative
<1>5. (b \o c) \o d \in Seq(S)
  BY <1>2, ConcatProperties
<1> QED
  BY <1>2, <1>3, <1>4, <1>5 DEF Due

LEMMA DueFirst ==
  ASSUME NEW S, NEW x \in S, NEW b \in Seq(S), NEW c \in Seq(S), NEW d \in Seq(S),
         NEW e, e = Due(<<x>>, b, c, d)
  PROVE  e # <<>> /\ Head(e) = x
<1>1. Due(<<>>, b, c, d) \in Seq(S) /\ e = <<x>> \o Due(<<>>, b, c, d)
  BY DueCons
<1> QED
  BY <1>1, ConsHead

LEMMA DueRest ==
  ASSUME NEW S, NEW x \in S, NEW b \in Seq(S), NEW c \in Seq(S), NEW d \in Seq(S),
         NEW e, e = Due(<<x>>, b, c, d)
  PROVE  e # <<>> /\ Tail(e) = Due(<<>>, b, c, d)
<1>1. Due(<<>>, b, c, d) \in Seq(S) /\ e = <<x>> \o Due(<<>>, b, c, d)
  BY DueCons
<1> QED
  BY <1>1, ConsTail

\* uart_rx hands its byte on, or keeps it.
Rest == IF Loading THEN <<>> ELSE InRx
New == frame = <<>> /\ frame' # <<>>

\* The line's side: nothing moves, uart_rx catches the frame, or one begins.
LEMMA RxKeeps ==
  ASSUME InTime, EchoType, Sees, Hearing \/ Over, rxr.flag, rxr.cnt = 9,
         NEW s \in {0, 1}, rxr' = Echo!RxEdge(rxr, s)
  PROVE  InRx' = Rest
<1>1. /\ BPS_CNT \in Nat /\ BPS_CNT >= 3 /\ Echo!Half \in Nat /\ Echo!Half >= 1
      /\ Echo!Half + 2 <= BPS_CNT /\ rxr.bps \in 0 .. (BPS_CNT - 1)
  BY EchoBits DEF EchoType
<1>2. /\ rxr.bps <= Echo!Half /\ (rxr'.flag <=> rxr.bps # Echo!Half)
      /\ rxr'.cnt = 9 /\ rxr'.bps = rxr.bps + 1 /\ rxr'.data = rxr.data
  BY <1>1, RxGoes
<1>3. CASE rxr.bps >= 1
  <2>1. Loaded'
    BY <1>1, <1>2, <1>3 DEF Loaded
  <2>2. rxr.bps >= 2 => Loaded
    BY DEF Loaded
  <2>3. rxr.bps = 1 => Loading
    BY DEF Loading
  <2>4. rxr.bps = 1 \/ rxr.bps >= 2
    BY <1>1, <1>3
  <2> QED
    BY <2>1, <2>2, <2>3, <2>4 DEF Rest, InRx
<1>4. CASE rxr.bps = 0
  <2>1. ~Loaded /\ ~Loading
    BY <1>4 DEF Loaded, Loading
  <2>2. rxr'.flag /\ rxr'.bps = 1 /\ ~Loaded'
    BY <1>1, <1>2, <1>4 DEF Loaded
  <2> QED
    BY <1>2, <2>1, <2>2 DEF Rest, InRx
<1> QED
  BY <1>1, <1>3, <1>4

LEMMA LineSide ==
  ASSUME InTime, EchoType, Sees, Hearing \/ Over \/ Waiting, Echo!Sender!Next,
         NEW s \in {line, line'}, rxr' = Echo!RxEdge(rxr, s)
  PROVE  \/ ~New /\ InRx' = Rest /\ OnLine' = OnLine
         \/ ~New /\ Rest = <<>> /\ InRx' = OnLine /\ OnLine' = <<>>
         \/ New /\ InRx' = Rest /\ OnLine = <<>> /\ OnLine' = <<frame'>>
<1>1. /\ BPS_CNT \in Nat /\ BPS_CNT >= 3 /\ Echo!Half \in Nat /\ Echo!Half >= 1
      /\ Echo!Half + 2 <= BPS_CNT /\ at \in Nat /\ at' \in Nat
      /\ rxr.cnt \in 0 .. 9 /\ rxr.bps \in 0 .. (BPS_CNT - 1)
      /\ stop \in Nat /\ stop >= 3 /\ s \in {0, 1}
      /\ frame' = <<>> => at' = 0
  BY EchoBits, EchoSent, SeesStep DEF EchoType
<1>2. Between \/ Within \/ Closing
  BY EchoSent
<1>3. frame \in Bytes => frame # <<>>
  BY ByteType
<1>4. CASE Waiting
  <2>1. ~rxr.flag /\ Rest = <<>>
    BY <1>4 DEF Waiting, Rest, InRx
  <2>2. rxr'.cnt = 0 /\ rxr'.bps = 0 /\ ~Loaded' /\ (rxr'.flag <=> rxr.d1 = 1 /\ rxr.d0 = 0)
    BY <1>1, <2>1, RxFields DEF Loaded
  <2>3. CASE rxr'.flag
    <3>1. at \in 1 .. 2
      BY <1>4, <2>2, <2>3, Edges
    <3>2. frame # <<>> /\ frame' = frame /\ at' = at + 1
      BY <1>1, <1>2, <1>3, <3>1 DEF Between, Within, Closing
    <3>3. InRx' = <<frame>> /\ OnLine = <<frame>> /\ OnLine' = <<>> /\ ~New
      BY <1>1, <2>1, <2>2, <2>3, <3>1, <3>2 DEF InRx, OnLine, New
    <3> QED
      BY <2>1, <3>3
  <2>4. CASE ~rxr'.flag
    <3>1. InRx' = Rest
      BY <2>1, <2>4 DEF InRx
    <3>2. CASE Between
      BY <2>1, <2>4, <3>1, <3>2 DEF Between, OnLine, New
    <3>3. CASE Within
      <4>1. at' = at + 1 /\ frame' = frame /\ frame # <<>>
        BY <1>3, <3>3 DEF Within
      <4>2. at # 2
        <5>1. ASSUME at = 2 PROVE FALSE
          <6>1. rxr.d1 = 1
            BY <1>1, <1>4, <5>1 DEF Waiting
          <6> QED
            BY <1>4, <2>2, <2>4, <5>1, <6>1, Edges
        <5> QED
          BY <5>1
      <4> QED
        BY <1>1, <2>1, <2>4, <3>1, <4>1, <4>2 DEF OnLine, New
    <3>4. CASE Closing
      <4>1. at > 2 /\ frame # <<>> /\ frame' = <<>>
        BY <1>1, <1>3, <3>4 DEF Closing
      <4> QED
        BY <1>1, <3>1, <4>1 DEF OnLine, New
    <3> QED
      BY <1>2, <3>2, <3>3, <3>4
  <2> QED
    BY <2>3, <2>4
<1>5. CASE Hearing
  <2>1. rxr.flag /\ at > 0 /\ OnLine = <<>>
    <3>1. rxr.flag /\ at > 0
      BY <1>5 DEF Hearing
    <3> QED
      BY <1>1, <3>1 DEF OnLine
  <2>2. Within \/ Closing
    BY <1>2, <2>1, <1>1 DEF Between
  <2>3. Place(rxr) \in Nat
    BY <1>1, RxGoes
  <2>4. at >= 2
    BY <1>1, <1>5, <2>3 DEF Hearing
  <2>5. ~New /\ OnLine' = <<>>
    BY <1>1, <1>3, <2>2, <2>4 DEF Within, Closing, New, OnLine
  <2>6. InRx' = Rest
    <3>1. CASE rxr.cnt = 9
      BY <1>1, <1>5, <2>1, <3>1, RxKeeps
    <3>2. CASE rxr.cnt # 9
      <4>1. ~Loaded /\ ~Loading
        BY <3>2 DEF Loaded, Loading
      <4>2. Rest = <<frame>>
        BY <2>1, <3>2, <4>1 DEF Rest, InRx
      <4>3. /\ rxr'.flag /\ (rxr'.cnt = 9 => rxr'.data = frame)
            /\ rxr'.cnt = 9 => rxr'.bps = 0
        BY <1>1, <1>5, <2>1, <3>2, RxGoes, HearingData
      <4>4. ~Loaded'
        BY <4>3 DEF Loaded
      <4>5. frame' = frame \/ rxr'.cnt = 9
        <5>1. Hearing' \/ Over' \/ Waiting'
          BY <1>5, HearingStep
        <5>2. Closing => at' = 0
          BY DEF Closing
        <5> QED
          BY <2>2, <4>3, <5>1, <5>2 DEF Within, Hearing, Over, Waiting
      <4> QED
        BY <4>2, <4>3, <4>4, <4>5 DEF InRx
    <3> QED
      BY <3>1, <3>2
  <2> QED
    BY <2>1, <2>5, <2>6
<1>6. CASE Over
  <2>1. rxr.flag /\ at = 0 /\ rxr.cnt = 9
    BY <1>6 DEF Over
  <2>2. InRx' = Rest
    BY <1>1, <1>6, <2>1, RxKeeps
  <2>3. rxr'.flag <=> rxr.bps # Echo!Half
    BY <1>1, <1>6, <2>1, RxGoes
  <2>4. CASE Between
    BY <2>1, <2>2, <2>4 DEF Between, OnLine, New
  <2>5. CASE Within
    <3>1. at' = 1 /\ frame' = frame /\ frame # <<>>
      BY <1>3, <2>1, <2>5 DEF Within
    <3>2. ~rxr'.flag
      BY <1>6, <2>3, <3>1 DEF Over
    <3> QED
      BY <2>1, <2>2, <3>1, <3>2 DEF OnLine, New
  <2>6. ~Closing
    BY <1>1, <2>1 DEF Closing
  <2> QED
    BY <1>2, <2>4, <2>5, <2>6
<1> QED
  BY <1>4, <1>5, <1>6

\* uart_tx's side: it takes uart_rx's byte, and gives its own to the tap.
LEMMA TxSide ==
  ASSUME InTime, EchoType, Hearing \/ Over \/ Waiting, Handed, Ahead, Tapped,
         txr' = Echo!TxEdge(txr, rxr.done, rxr.rxd), tap' = Echo!TapEdge(tap, txr.out)
  PROVE  \/ Loading /\ tap'.got = InTx /\ InTx' = InRx
         \/ ~Loading /\ tap'.got = InTx /\ InTx' = <<>>
         \/ ~Loading /\ tap'.got = <<>> /\ InTx' = InTx
<1>1. /\ txr'.flag <=> Loading \/ (txr.flag /\ ~(txr.cnt = 9 /\ txr.bps = Echo!Half))
      /\ Loading => ~txr.flag /\ txr'.data = rxr.data
      /\ txr.flag /\ txr'.flag => txr'.data = txr.data
  BY TxGoes
<1>2. /\ tap'.got = IF Ending THEN <<tap.data>> ELSE <<>>
      /\ Ending' => txr.flag /\ tap'.data = txr.data
  BY TappedStep
<1>3. /\ BPS_CNT \in Nat /\ BPS_CNT >= 3 /\ Echo!Half \in Nat /\ Echo!Half >= 1
      /\ Echo!Half + 2 <= BPS_CNT
  BY EchoBits
<1>4. CASE Loading
  <2>1. ~txr.flag /\ txr'.flag /\ txr'.data = rxr.data
    BY <1>1, <1>4
  <2>2. InRx = <<rxr.data>>
    BY <1>4 DEF Loading, Loaded, InRx
  <2> QED
    BY <1>2, <1>4, <2>1, <2>2 DEF InTx
<1>5. CASE ~Loading /\ txr.flag
  <2>1. ~Ending /\ tap'.got = <<>>
    BY <1>2, <1>5 DEF Ending
  <2>2. CASE txr'.flag
    BY <1>1, <1>5, <2>1, <2>2 DEF InTx
  <2>3. CASE ~txr'.flag
    <3>1. txr.cnt = 9 /\ txr.bps = Echo!Half
      BY <1>1, <1>5, <2>3
    <3>2. txr'.cnt = 9
      BY <1>3, <1>5, <3>1, TxCounts
    <3>3. Ending'
      BY <2>3, <3>2 DEF Ending
    <3> QED
      BY <1>2, <1>5, <2>1, <2>3, <3>3 DEF InTx
  <2> QED
    BY <2>2, <2>3
<1>6. CASE ~Loading /\ ~txr.flag
  <2>1. ~txr'.flag /\ ~Ending'
    BY <1>1, <1>2, <1>6
  <2> QED
    BY <1>2, <1>6, <2>1 DEF InTx
<1> QED
  BY <1>4, <1>5, <1>6

\* The parts of what is owed are sequences of bytes, of one at most.
LEMMA Parts ==
  ASSUME InTime, EchoType, Hearing \/ Over \/ Waiting
  PROVE  LET S == [1 .. 8 -> {0, 1}]
             One == {<<>>} \cup {<<d>> : d \in S}
         IN  /\ tap.got \in One /\ InTx \in One /\ InRx \in One /\ OnLine \in One
             /\ \A p \in One : p \in Seq(S) /\ Len(p) \in 0 .. 1
<1> DEFINE S == [1 .. 8 -> {0, 1}]
           One == {<<>>} \cup {<<d>> : d \in S}
<1>1. /\ tap.got \in One /\ tap.data \in S /\ txr.data \in S /\ rxr.data \in S
      /\ frame \in Bytes => frame \in S
      /\ frame \in Bytes \cup {<<>>}
  BY ByteType DEF EchoType
<1>2. \A p \in One : p \in Seq(S) /\ Len(p) \in 0 .. 1
  <2>1. ASSUME NEW d \in S PROVE <<d>> \in Seq(S) /\ Len(<<d>>) = 1
    OBVIOUS
  <2>2. <<>> \in Seq(S) /\ Len(<<>>) = 0
    OBVIOUS
  <2> HIDE DEF S
  <2>3. ASSUME NEW p \in One PROVE p \in Seq(S) /\ Len(p) \in 0 .. 1
    <3>1. CASE p = <<>>
      BY <2>2, <3>1
    <3>2. CASE \E d \in S : p = <<d>>
      BY <2>1, <3>2
    <3> QED
      BY <3>1, <3>2
  <2> QED
    BY <2>3
<1>3. InTx \in One
  BY <1>1 DEF InTx
<1>4. rxr.flag /\ rxr.cnt # 9 => frame \in Bytes
  <2>1. Over => rxr.cnt = 9
    BY DEF Over
  <2>2. Waiting => ~rxr.flag
    BY DEF Waiting
  <2>3. Hearing => frame # <<>>
    BY DEF Hearing, EchoType
  <2> QED
    BY <1>1, <2>1, <2>2, <2>3
<1>5. InRx \in One
  BY <1>1, <1>4 DEF InRx
<1>6. OnLine \in One
  BY <1>1 DEF OnLine
<1> QED
  BY <1>1, <1>2, <1>3, <1>5, <1>6

\* What is owed is in its places.
LEMMA EchoOwed ==
  ASSUME InTime, EchoInv, Echo!Next
  PROVE  owed' = Due(tap'.got, InTx', InRx', OnLine')
<1> DEFINE S == [1 .. 8 -> {0, 1}]
           left == IF tap.got = <<>> \/ owed = <<>> THEN owed ELSE Tail(owed)
           rest == Due(<<>>, InTx, InRx, OnLine)
<1>1. PICK s \in {line, line'} : rxr' = Echo!RxEdge(rxr, s)
  BY DEF Echo!Next, Echo!Edge
<1>2. /\ Echo!Sender!Next /\ EchoType /\ Sees /\ (Hearing \/ Over \/ Waiting)
      /\ Handed /\ Ahead /\ Tapped /\ owed = Due(tap.got, InTx, InRx, OnLine)
      /\ txr' = Echo!TxEdge(txr, rxr.done, rxr.rxd) /\ tap' = Echo!TapEdge(tap, txr.out)
      /\ owed' = IF frame = <<>> /\ frame' # <<>> /\ Len(left) < Echo!MaxOwed
                   THEN Append(left, frame') ELSE left
  BY DEF EchoInv, Echo!Next, Echo!Edge
<1>3. /\ tap.got \in {<<>>} \cup {<<d>> : d \in S}
      /\ InTx \in Seq(S) /\ Len(InTx) \in 0 .. 1 /\ InRx \in Seq(S) /\ Len(InRx) \in 0 .. 1
      /\ OnLine \in Seq(S) /\ Len(OnLine) \in 0 .. 1
  <2>1. LET One == {<<>>} \cup {<<d>> : d \in S}
        IN  /\ tap.got \in One /\ InTx \in One /\ InRx \in One /\ OnLine \in One
            /\ \A p \in One : p \in Seq(S) /\ Len(p) \in 0 .. 1
    BY <1>2, Parts
  <2> HIDE DEF S
  <2> QED
    BY <2>1
<1>4. frame' # <<>> => frame' \in S
  BY <1>2, EchoSent, ByteType DEF Between, Within, Closing
<1> HIDE DEF S
<1>5. <<>> \in Seq(S) /\ Len(<<>>) = 0 /\ \A d \in S : <<d>> \in Seq(S)
  OBVIOUS
<1>6. left = rest
  <2>1. CASE tap.got = <<>>
    BY <1>2, <2>1
  <2>2. ASSUME NEW d \in S, tap.got = <<d>> PROVE left = rest
    <3>1. owed # <<>> /\ Tail(owed) = rest
      BY <1>2, <1>3, <2>2, DueRest
    <3>2. tap.got # <<>>
      BY <2>2
    <3> QED
      BY <3>1, <3>2
  <2> QED
    BY <1>3, <2>1, <2>2
<1>7. Len(left) < Echo!MaxOwed
  <2>1. Len(rest) < 4
    BY <1>3, DueShort
  <2> QED
    BY <1>6, <2>1 DEF Echo!MaxOwed
<1>8. owed' = IF New THEN Append(rest, frame') ELSE rest
  BY <1>2, <1>6, <1>7 DEF New
<1>9. rest = Due(tap'.got, InTx', Rest, OnLine)
  <2>1. \/ Loading /\ tap'.got = InTx /\ InTx' = InRx
        \/ ~Loading /\ tap'.got = InTx /\ InTx' = <<>>
        \/ ~Loading /\ tap'.got = <<>> /\ InTx' = InTx
    BY <1>2, TxSide
  <2>2. rest = Due(InTx, <<>>, InRx, OnLine) /\ rest = Due(InTx, InRx, <<>>, OnLine)
    BY <1>3, DueMoves
  <2> HIDE DEF rest
  <2>3. CASE Loading /\ tap'.got = InTx /\ InTx' = InRx
    BY <2>2, <2>3 DEF Rest
  <2>4. CASE ~Loading /\ tap'.got = InTx /\ InTx' = <<>>
    BY <2>2, <2>4 DEF Rest
  <2>5. CASE ~Loading /\ tap'.got = <<>> /\ InTx' = InTx
    BY <2>5 DEF Rest, rest
  <2> QED
    BY <2>1, <2>3, <2>4, <2>5
<1>10. /\ tap'.got \in Seq(S) /\ InTx' \in Seq(S) /\ Rest \in Seq(S)
  <2>1. Rest \in Seq(S)
    BY <1>3, <1>5 DEF Rest
  <2> QED
    BY <1>2, <1>3, <1>5, <2>1, TxSide
<1>11. \/ ~New /\ InRx' = Rest /\ OnLine' = OnLine
       \/ ~New /\ Rest = <<>> /\ InRx' = OnLine /\ OnLine' = <<>>
       \/ New /\ InRx' = Rest /\ OnLine = <<>> /\ OnLine' = <<frame'>>
  BY <1>1, <1>2, LineSide
<1> HIDE DEF rest
<1>12. CASE ~New /\ InRx' = Rest /\ OnLine' = OnLine
  BY <1>8, <1>9, <1>12
<1>13. CASE ~New /\ Rest = <<>> /\ InRx' = OnLine /\ OnLine' = <<>>
  <2>1. Due(tap'.got, InTx', <<>>, OnLine) = Due(tap'.got, InTx', OnLine, <<>>)
    BY <1>3, <1>10, DueMoves
  <2> QED
    BY <1>8, <1>9, <1>13, <2>1
<1>14. CASE New /\ InRx' = Rest /\ OnLine = <<>> /\ OnLine' = <<frame'>>
  <2>1. frame' \in S
    BY <1>4, <1>14 DEF New
  <2>2. Append(Due(tap'.got, InTx', Rest, <<>>), frame') = Due(tap'.got, InTx', Rest, <<frame'>>)
    BY <1>10, <2>1, DueAppend
  <2> QED
    BY <1>8, <1>9, <1>14, <2>2
<1> QED
  BY <1>11, <1>12, <1>13, <1>14

\* Every clock of the echo demo and its sender.
LEMMA EchoStep ==
  ASSUME InTime, EchoInv, Echo!Next
  PROVE  EchoInv'
<1>1. PICK s \in {line, line'} : rxr' = Echo!RxEdge(rxr, s)
  BY DEF Echo!Next, Echo!Edge
<1>2. /\ Echo!Sender!Next /\ EchoType /\ Sees /\ (Hearing \/ Over \/ Waiting)
      /\ Handed /\ Ahead /\ Tapped
      /\ txr' = Echo!TxEdge(txr, rxr.done, rxr.rxd) /\ tap' = Echo!TapEdge(tap, txr.out)
  BY DEF EchoInv, Echo!Next, Echo!Edge
<1>3. s \in {0, 1} /\ Sees'
  BY <1>1, <1>2, SeesStep
<1>4. Hearing' \/ Over' \/ Waiting'
  BY <1>1, <1>2, HearingStep, OverStep, WaitingStep
<1>5. EchoType'
  BY <1>1, <1>2, EchoTypeStep
<1>6. Handed'
  BY <1>1, <1>2, <1>3, HandedStep
<1>7. Ahead'
  BY <1>1, <1>2, <1>3, AheadStep
<1>8. Tapped'
  BY <1>2, TappedStep
<1>9. owed' = Due(tap'.got, InTx', InRx', OnLine')
  BY EchoOwed
<1> QED
  BY <1>3, <1>4, <1>5, <1>6, <1>7, <1>8, <1>9 DEF EchoInv

\* The echo demo sends every byte it gets back, whole and in order, also when
\* they come without a pause, for every bit length of three clocks or more and
\* every sender whose stop bits are half a bit and two clocks long, or longer;
\* whichever way the first flip-flop catches the line.
THEOREM EchoKeepsUp == InTime => (Spec => []EchoesInOrder)
<1> SUFFICES ASSUME InTime PROVE Spec => []EchoesInOrder
  OBVIOUS
<1> DEFINE Inv == powered = "uart_top" => EchoInv
<1>1. Init => Inv
  <2> SUFFICES ASSUME Init, powered = "uart_top" PROVE EchoInv
    OBVIOUS
  <2>1. /\ bit = BPS_CNT /\ stop \in EchoStops /\ frame = <<>> /\ at = 0 /\ line = 1
        /\ rxr = Echo!RxInit /\ txr = Echo!TxInit /\ tap = Echo!TapInit /\ owed = <<>>
    BY DEF Init, Echo!Init, Echo!Sender!Init, Echo!BoardInit
  <2>2. /\ BPS_CNT \in Nat /\ BPS_CNT >= 3 /\ Echo!Half \in Nat /\ Echo!Half >= 1
        /\ stop \in Nat /\ stop >= 3 /\ Echo!Zeros \in [1 .. 8 -> {0, 1}]
    BY <2>1, EchoBits DEF Echo!Zeros
  <2>3. EchoType
    <3>1. Echo!RxInit \in [d0 : {0, 1}, d1 : {0, 1}, flag : BOOLEAN, bps : 0 .. (BPS_CNT - 1),
                           cnt : 0 .. 9, data : [1 .. 8 -> {0, 1}], rxd : [1 .. 8 -> {0, 1}],
                           done : BOOLEAN]
      BY <2>2 DEF Echo!RxInit
    <3>2. Echo!TxInit \in [d0 : BOOLEAN, d1 : BOOLEAN, flag : BOOLEAN, bps : 0 .. (BPS_CNT - 1),
                           cnt : 0 .. 9, data : [1 .. 8 -> {0, 1}], out : {0, 1}]
      BY <2>2 DEF Echo!TxInit
    <3>3. Echo!TapInit \in [busy : BOOLEAN, t : Nat, data : [1 .. 8 -> {0, 1}], last : {0, 1},
                            got : {<<>>} \cup {<<d>> : d \in [1 .. 8 -> {0, 1}]}]
      BY <2>2 DEF Echo!TapInit
    <3> QED
      BY <2>1, <2>2, <3>1, <3>2, <3>3 DEF EchoType
  <2>4. /\ ~rxr.flag /\ rxr.cnt = 0 /\ rxr.bps = 0 /\ ~rxr.done /\ rxr.d1 = 0
        /\ ~txr.flag /\ txr.cnt = 0 /\ txr.bps = 0 /\ txr.out = 1 /\ ~txr.d0 /\ ~txr.d1
        /\ ~tap.busy /\ tap.last = 1 /\ tap.got = <<>>
    BY <2>1 DEF Echo!RxInit, Echo!TxInit, Echo!TapInit
  <2>5. Sees /\ Waiting
    BY <2>1, <2>2, <2>4 DEF Sees, Was, Waiting
  <2>6. Handed /\ Ahead /\ Tapped
    BY <2>2, <2>4 DEF Handed, Ahead, Tapped, Ending, Loaded
  <2>7. tap.got = <<>> /\ InTx = <<>> /\ InRx = <<>> /\ OnLine = <<>>
    BY <2>1, <2>4 DEF InTx, InRx, OnLine, Ending
  <2>8. Due(<<>>, <<>>, <<>>, <<>>) = <<>>
    BY DEF Due
  <2> QED
    BY <2>1, <2>3, <2>5, <2>6, <2>7, <2>8 DEF EchoInv
<1>2. Inv /\ [Next]_vars => Inv'
  <2> SUFFICES ASSUME Inv, [Next]_vars PROVE Inv'
    OBVIOUS
  <2>1. CASE ClockEcho
    BY <2>1, EchoStep DEF ClockEcho
  <2>2. CASE ClockTx \/ ClockRx \/ ClockMdio
    BY <2>2 DEF ClockTx, ClockRx, ClockMdio
  <2>3. CASE UNCHANGED vars
    BY <2>3 DEF vars, uarts, uart_top, sending, EchoInv, EchoType, Sees, Was, Hearing, Over, Waiting,
                Handed, Ahead, Tapped, Loaded, Ending, InTx, InRx, OnLine, Place
  <2> QED
    BY <2>1, <2>2, <2>3 DEF Next
<1>3. Inv => EchoesInOrder
  <2> SUFFICES ASSUME EchoInv, tap.got # <<>> PROVE owed # <<>> /\ tap.got[1] = Head(owed)
    BY DEF EchoesInOrder, Echo!EchoesInOrder
  <2> DEFINE S == [1 .. 8 -> {0, 1}]
  <2>1. PICK d \in S : tap.got = <<d>>
    BY DEF EchoInv, EchoType
  <2>2. InTx \in Seq(S) /\ InRx \in Seq(S) /\ OnLine \in Seq(S)
    BY Parts DEF EchoInv
  <2> HIDE DEF S
  <2>3. owed = Due(<<d>>, InTx, InRx, OnLine)
    BY <2>1 DEF EchoInv
  <2>4. d \in S
    BY <2>1
  <2>5. owed # <<>> /\ Head(owed) = d
    BY <2>2, <2>3, <2>4, DueFirst
  <2> QED
    BY <2>1, <2>5
<1> QED
  BY <1>1, <1>2, <1>3, PTL DEF Spec
=============================================================================
