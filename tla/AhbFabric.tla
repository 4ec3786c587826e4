------------------------------ MODULE AhbFabric ------------------------------
(***************************************************************************)
(* The AHB-Lite bus of AHBLITE_SYS.v: the decoder (AHBDCD.v), the response *)
(* multiplexer (AHBMUX.v), and the slaves that hold words, AHB2MEM and the *)
(* configuration memory of AHB2ADC, one HCLK edge a step.                  *)
(*                                                                         *)
(* The bus is pipelined.  While one transfer is in its data phase, with    *)
(* its HWDATA and its answer, the next one is in its address phase, and    *)
(* HREADY moves both on.  It is that of the slave in the data phase;       *)
(* of the slaves only the UART ever keeps it low (AhbUart says when).      *)
(***************************************************************************)
EXTENDS Integers

CONSTANTS
  Values,   \* of a byte
  SubWord   \* the memories the program writes by bytes and half words too

Lanes == 0 .. 3
Memories == {"mem", "adc"}
Slaves == Memories \cup {"uart", "nomap"}
Words == [Lanes -> Values]

\* HSIZE: the bytes of a transfer.
Bytes(size) == CASE size = 0 -> 1 [] size = 1 -> 2 [] size = 2 -> 4

\* What the master puts on the bus: HADDR's slave and last two bits, HTRANS[1],
\* HWRITE, HSIZE.  Each memory stands for one of its words.  A byte or half
\* word is written on all the lanes it may be meant for.
Transfers ==
  {t \in [to : Slaves, trans : BOOLEAN, write : BOOLEAN, size : 0 .. 2, at : Lanes] :
     /\ t.at % Bytes(t.size) = 0
     /\ (t.to \in SubWord /\ t.trans /\ t.write) \/ t.size = 2}
DataWords == {w \in Words : w[0] = w[2] /\ w[1] = w[3]}

VARIABLES
  mux_sel,   \* APHASE_MUX_SEL
  aphase,    \* the APhase_* registers of each memory, with its own HSEL
  words,     \* memory, ADC_CFG_MEM
  HWDATA,
  uart_ready,  \* HREADYOUT_UART
  current,   \* history: the transfer the master has in its data phase
  written    \* history: each word as the completed writes left it

fabric_vars == <<mux_sel, aphase, words, HWDATA, uart_ready, current, written>>

-----------------------------------------------------------------------------
\* AHBDCD: one HSEL, and the same slave's number for the multiplexer.
HSEL(s, t) == t.to = s
MUX_SEL(t) == t.to

\* The multiplexer's HREADY.
Ready == mux_sel = "uart" => uart_ready

\* The byte lanes a memory writes (AHB2MEM.v:107, AHB2ADC.v:101).
tx_byte(a) == a.size = 0
tx_half(a) == a.size = 1
tx_word(a) == a.size = 2
byte(a) == {i \in Lanes : \/ tx_word(a)
                          \/ tx_half(a) /\ i \div 2 = a.at \div 2
                          \/ tx_byte(a) /\ i = a.at}

Written(s) ==
  LET a == aphase[s]
  IN  IF a.hsel /\ a.write /\ a.trans
        THEN [i \in Lanes |-> IF i \in byte(a) THEN HWDATA[i] ELSE words[s][i]]
        ELSE words[s]

\* Without a read of its own AHB2MEM drives 0 and AHB2ADC what it drove before.
Undriven == [i \in Lanes |-> "undriven"]
HRDATA(s) ==
  LET a == aphase[s]
  IN  IF a.hsel /\ (s = "mem" => ~a.write) THEN words[s] ELSE Undriven

Sampled(s, t) == [hsel |-> HSEL(s, t), trans |-> t.trans, write |-> t.write,
                  size |-> t.size, at |-> t.at]

SelectMut(t) == mux_sel' = MUX_SEL(t)  \* not held while HREADY is low
Select(t) == mux_sel' = IF Ready THEN MUX_SEL(t) ELSE mux_sel

Sample(t) == aphase' = IF Ready THEN [s \in Memories |-> Sampled(s, t)] ELSE aphase

\* The master, while HREADY is high, goes on to transfer t, with data of its own
\* for a write.
Master(t) ==
  /\ current' = IF Ready THEN t ELSE current
  /\ IF Ready /\ t.write THEN HWDATA' \in DataWords ELSE UNCHANGED HWDATA

\* A write counts when its data phase ends: its bytes, by address and size.
Reference ==
  LET c == current
  IN  written' = IF Ready /\ c.trans /\ c.write /\ c.to \in Memories
                   THEN [written EXCEPT ![c.to] = [i \in Lanes |->
                          IF i \in c.at .. c.at + Bytes(c.size) - 1 THEN HWDATA[i] ELSE @[i]]]
                   ELSE written

Store == words' = [s \in Memories |-> Written(s)]

Edge(t) == Select(t) /\ Sample(t) /\ Master(t)

\* The words hold anything at first: code.hex in AHB2MEM, zeros in AHB2ADC.
Idle == [to |-> "mem", trans |-> FALSE, write |-> FALSE, size |-> 2, at |-> 0]

FabricInit ==
  /\ mux_sel = "mem"
  /\ aphase = [s \in Memories |-> [Sampled(s, Idle) EXCEPT !.hsel = FALSE]]
  /\ words \in {[s \in Memories |-> w] : w \in DataWords}
  /\ HWDATA \in DataWords
  /\ uart_ready = TRUE
  /\ current = Idle
  /\ written = words

FabricNext == /\ Store /\ Reference
        /\ uart_ready' \in BOOLEAN
        /\ \E t \in Transfers : Edge(t)

FabricSpec == FabricInit /\ [][FabricNext]_fabric_vars

-----------------------------------------------------------------------------
\* Every transfer ends with the answer of the slave it was addressed to and
\* not before that slave is ready; a read gives what the completed writes
\* left, byte by byte, although the next transfer has been on the bus since
\* before the answer (AHBMUX.v:78, "latch the address phase mux select").
AnswersInTurn ==
  Ready => /\ mux_sel = current.to
           /\ current.to = "uart" => uart_ready
           /\ current.to \in Memories /\ current.trans /\ ~current.write =>
                HRDATA(mux_sel) = written[current.to]
=============================================================================
