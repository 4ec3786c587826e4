------------------------------- MODULE AdcChain -------------------------------
(***************************************************************************)
(* One chain's read sequencer (ADC_MODULE/adc_chain_regcfg_r_max11040.v),  *)
(* with what spi_drive.v shows of itself: it is enabled and ByteTime       *)
(* clocks later it has a byte (BytesOnTime of AdcChainSpi).  The chain is  *)
(* a record, and ChainEdge what one sys_clk edge makes of it.              *)
(*                                                                         *)
(* ChainEdge: the configuration has been written, cfg_r_en_h is high, and  *)
(* sampling does not end (bit 15 of ADC_SAMPLE_NUMBER).  REG_BYTE and      *)
(* next_state feed each other without a register: next_state stays where   *)
(* it is until the bytes are read, the stable state a simulation finds.    *)
(***************************************************************************)
EXTENDS Integers, Sequences

CONSTANTS
  RegByte,   \* REG_BYTE of each reading state: how many bytes it reads
  ByteTime   \* clocks from rreg_to_spi_en_hp to the byte

Reading == {"RRCR", "RDRCR", "RSICR", "RDRDATA"}
ASSUME RegByteAssumption == RegByte \in [Reading -> Nat \ {0}]
ASSUME ByteTimeAssumption == ByteTime \in Nat \ {0}

\* A definition whose name ends in Mut is a faulty variant of the next one;
\* no specification uses it.

\* What follows a state once it is done.
After == [IDELtoRRCR |-> "RRCR", RRCR |-> "RRCRtoRDRCR", RRCRtoRDRCR |-> "RDRCR",
          RDRCR |-> "RDRCRtoRSICR", RDRCRtoRSICR |-> "RSICR", RSICR |-> "RSICRtoRDRDATA",
          RSICRtoRDRDATA |-> "RDRDATA", RDRDATA |-> "RDRDATAtoIDEL", RDRDATAtoIDEL |-> "RDRDATA"]
Between == {"RSICRtoRDRDATA", "RDRDATAtoIDEL"}     \* a frame is in the FIFO
InFrame == Between \cup {"RSICR", "RDRDATA"}       \* next_state >= RSICR

\* sel is ~CS_l; sel0 and sel1, CS_l's delays, reset
\* to 0, which is "selected".  byteDue is what is left of ByteTime; the pulse
\* that spi_to_rreg_finsh_h gives when cfg_r_en_h rises is AdcChainSpi's.
ChainInit == [state |-> "IDEL", sel |-> FALSE, sel0 |-> TRUE, sel1 |-> TRUE,
              byteCnt |-> 0, en |-> FALSE, byteDue |-> 0, wen |-> FALSE, tail |-> 0,
              depCnt |-> 0, frameDep |-> 0, flagHp |-> FALSE, flag |-> FALSE,
              finish0 |-> FALSE]

\* spi_to_rreg_finsh_h_flag_hp, CS_lp
ByteIn(c) == c.byteDue = 1
Selected(c) == c.sel0 /\ ~c.sel1

NextStateMut(c, drdy) ==     \* the next frame does not wait for the reader
  IF c.state = "IDEL" THEN "IDELtoRRCR"
  ELSE IF c.state \in Reading
    THEN IF c.byteCnt <= RegByte[c.state] THEN c.state ELSE After[c.state]
  ELSE IF drdy THEN After[c.state] ELSE c.state

\* A frame starts at DRDY, and only when the reader has begun to read the
\* one before.
NextState(c, drdy) ==
  IF c.state = "IDEL" THEN "IDELtoRRCR"
  ELSE IF c.state \in Reading
    THEN IF c.byteCnt <= RegByte[c.state] THEN c.state ELSE After[c.state]
  ELSE IF drdy /\ (c.state \in Between => ~c.flag) THEN After[c.state] ELSE c.state

\* Time (four bytes) and frame count (two) follow the data; zeros fill up to
\* a multiple of four, four of them where none would do.
Count(c) == c.frameDep + 6 + 4 - ((c.frameDep + 6) % 4)
Supplement(c) == Count(c) - (c.frameDep + 6)
TailEnd(c) == 19 + Supplement(c)
TailWrites(c) == {3, 6, 9, 12, 15, 18} \cup 20 .. TailEnd(c)

ByteCntMut(c, next, byte, regs) ==     \* the last byte is not counted
  IF next \notin DOMAIN regs THEN <<0, FALSE>>
  ELSE IF Selected(c) \/ (byte /\ c.byteCnt < regs[next])
    THEN <<c.byteCnt + 1, c.byteCnt # regs[next]>>
  ELSE <<c.byteCnt, FALSE>>

\* byte_cnt and the SPI's enable; regs is REG_BYTE of each transfer.
ByteCnt(c, next, byte, regs) ==
  IF next \notin DOMAIN regs THEN <<0, FALSE>>
  ELSE IF Selected(c) \/ (byte /\ c.byteCnt <= regs[next])
    THEN <<c.byteCnt + 1, c.byteCnt # regs[next]>>
  ELSE <<c.byteCnt, FALSE>>

FrameDep(c, next) ==
  IF c.frameDep <= c.depCnt THEN c.depCnt
  ELSE IF Selected(c) /\ next \in InFrame \ {"RSICR"} THEN 0 ELSE c.frameDep

\* finish: the reader's finish flag, synchronised.  Its falling edge clears
\* the frame flag.
Flag(c, finish) == IF c.flagHp THEN TRUE ELSE c.flag /\ ~(c.finish0 /\ ~finish)

\* An edge, given the next state, whether a byte has come from the SPI, and
\* how long the SPI takes for one.
ChainStep(c, next, byte, finish, time) ==
  LET tailing == next \in InFrame /\ c.tail <= TailEnd(c)
      cnt == ByteCnt(c, next, byte, RegByte)
  IN  [state    |-> next,
       sel      |-> next \in Reading, sel0 |-> c.sel, sel1 |-> c.sel0,
       byteCnt  |-> cnt[1], en |-> cnt[2],
       byteDue  |-> IF c.en THEN time ELSE IF c.byteDue > 0 THEN c.byteDue - 1 ELSE 0,
       wen      |-> IF c.sel THEN byte
                    ELSE IF next \in InFrame THEN tailing /\ c.tail \in TailWrites(c)
                    ELSE c.wen,
       tail     |-> IF c.sel THEN 0 ELSE IF tailing THEN c.tail + 1 ELSE c.tail,
       depCnt   |-> IF c.flagHp THEN 0
                    ELSE IF c.sel /\ byte THEN (c.depCnt + 1) % 256 ELSE c.depCnt,
       frameDep |-> FrameDep(c, next),
       flagHp   |-> c.tail = TailEnd(c),
       flag     |-> Flag(c, finish), finish0 |-> finish]

ChainEdge(c, drdy, finish) ==
  ChainStep(c, NextState(c, drdy), ByteIn(c), finish, ByteTime)

\* The tail is being written: the bytes are in and the flag is not up yet.
Tailing(c) == c.state \in Between /\ (c.tail <= TailEnd(c) \/ c.flagHp)

Chain == [state : {"IDEL"} \cup DOMAIN After, sel : BOOLEAN, sel0 : BOOLEAN, sel1 : BOOLEAN,
          byteCnt : 0 .. 255, en : BOOLEAN, byteDue : 0 .. ByteTime, wen : BOOLEAN,
          tail : 0 .. 24, depCnt : 0 .. 255, frameDep : 0 .. 255, flagHp : BOOLEAN,
          flag : BOOLEAN, finish0 : BOOLEAN]
=============================================================================
