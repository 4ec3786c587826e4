------------------------------ MODULE AdcChainSpi ------------------------------
(***************************************************************************)
(* One adc_chain (ADC_MODULE/adc_chain.v) down to its SPI lines: the write *)
(* sequencer (adc_chain_regcfg_w_max11040.v), the read sequencer (r, as in *)
(* AdcChain), the SPI engine (spi_drive.v) that one of them owns, and the  *)
(* hand-over between them.  A step is an edge of sys_clk.                  *)
(*                                                                         *)
(* A byte is a name, a bit <<byte, number>>, and a byte being put together *)
(* <<byte, bits>>, where 0 bits say that the bits did not fit.             *)
(***************************************************************************)
EXTENDS AdcChain

CONSTANTS
  WRegByte,      \* REG_BYTE of each writing state
  WriteTime,     \* WRITE_TIME, 31 in the code
  CntSize,       \* 2 ** (width of adc_frame_cnt), 65536 in the code
  SampleNumber   \* ADC_SAMPLE_NUMBER; with 0 or 1 the run ends in a frame without a tail

Writing == {"WRCR", "WDRCR", "WSICR"}
ASSUME WRegByteAssumption == WRegByte \in [Writing -> Nat \ {0}] /\ WRegByte["WDRCR"] = 3
ASSUME RunAssumption == /\ WriteTime \in Nat \ {0} /\ CntSize \in Nat
                        /\ SampleNumber \in 2 .. (CntSize - 1)

VARIABLES
  start, rcfg,    \* cfg_w_start_h, ADC_WCFG_STATE a clock late; ADC_RCFG_STATE
  hp,             \* (~DRDYOUT_l_d0) && DRDYOUT_l_d1
  whrl,           \* whrl_reg_flag: the writer owns the SPI
  held,           \* the latches: what each side sees of hp and of spi_finsh_h
  w,              \* adc_chain_regcfg_w_max11040
  r, r_spi,       \* adc_chain_regcfg_r_max11040: AdcChain's part; the SPI's finsh in two
                  \* stages, cfg_r_finsh_h, the data
  frames,         \* adc_frame_cnt and adc_frame_flag_hp_r0
  spi,            \* spi_drive
  finish,         \* the frame reader's finish flag
  adc, step       \* the MAX11040: the bits and bytes of this transfer; its place in the run

spi_vars == <<start, rcfg, hp, whrl, held, w, r, r_spi, frames, spi, finish,
             adc, step>>

\* The latch of the read side is never open before the configuration is done.
SpiInit ==
  /\ start = FALSE /\ rcfg = FALSE /\ hp = FALSE /\ whrl = TRUE /\ finish = FALSE
  /\ held \in [wDRDY : {FALSE}, wfin : {TRUE}, rDRDY : {FALSE}, rfin : BOOLEAN]
  /\ w = [init |-> 0, state |-> "IDEL", finsh |-> FALSE, busy |-> FALSE, sel |-> FALSE,
          sel0 |-> TRUE, sel1 |-> TRUE, byteCnt |-> 0, en |-> FALSE, data |-> "FF",
          fin0 |-> FALSE, fin1 |-> FALSE]
  /\ r = ChainInit
  /\ r_spi = [fin0 |-> FALSE, fin1 |-> FALSE, finsh |-> FALSE, data |-> "FF"]
  /\ frames = [cnt |-> 0, flag0 |-> FALSE]
  /\ spi = [finsh |-> TRUE, tx |-> "00", bps |-> 0, bit |-> 0, sclk |-> TRUE,
            mosi |-> <<"FF", 0>>, rx |-> <<<<1, 0>>, 0>>, dataout |-> <<<<1, 0>>, 0>>]
  /\ adc = [bits |-> 0, in |-> <<"00", 0>>, heard |-> <<>>] /\ step = 1

-----------------------------------------------------------------------------
\* Both sequencers: the transfer a state prepares or makes.
Prepares == [IDELtoWRCR |-> "WRCR", WRCRtoWDRCR |-> "WDRCR", WDRCRtoWSICR |-> "WSICR",
             WRCR |-> "WRCR", WDRCR |-> "WDRCR", WSICR |-> "WSICR",
             IDELtoRRCR |-> "RRCR", RRCRtoRDRCR |-> "RDRCR", RDRCRtoRSICR |-> "RSICR",
             RDRDATAtoIDEL |-> "RDRDATA",
             RRCR |-> "RRCR", RDRCR |-> "RDRCR", RSICR |-> "RSICR", RDRDATA |-> "RDRDATA"]
Command == [WRCR |-> "60", WDRCR |-> "50", WSICR |-> "40",
            RRCR |-> "E0", RDRCR |-> "D0", RSICR |-> "C0", RDRDATA |-> "F0"]

\* What goes to the SPI: the command, then the register's bytes, or zeros.
ByteOf(next, k) ==
  IF next \notin DOMAIN Prepares THEN "FF"
  ELSE LET t == Prepares[next]
       IN  IF k = 0 THEN Command[t]
           ELSE IF t \in Reading THEN "00"
           ELSE IF t = "WDRCR" /\ k = 2 THEN "WDRCR[15:8]"
           ELSE t

\* A definition whose name ends in Mut is a faulty variant of the next one;
\* no specification uses it.
PulseMut(f) == f.fin0     \* the level, not its edge

\* spi_to_wreg_finsh_h_flag_hp and spi_to_rreg_finsh_h_flag_hp
Pulse(f) == f.fin0 /\ ~f.fin1

AfterW == [IDELtoWRCR |-> "WRCR", WRCR |-> "WRCRtoWDRCR", WRCRtoWDRCR |-> "WDRCR",
           WDRCR |-> "WDRCRtoWSICR", WDRCRtoWSICR |-> "WSICR", WSICR |-> "WSICRtoIDEL"]

NextWriteMut(go) ==     \* a transfer left a byte early
  CASE w.state = "IDEL" -> IF go /\ ~w.finsh THEN "IDELtoWRCR" ELSE "IDEL"
    [] w.state = "WSICRtoIDEL" -> IF go /\ w.finsh THEN "WSICRtoIDEL" ELSE "IDEL"
    [] w.state \in Writing ->
         IF w.byteCnt < WRegByte[w.state] THEN w.state ELSE AfterW[w.state]
    [] OTHER -> IF held.wDRDY THEN AfterW[w.state] ELSE w.state

NextWrite(go) ==
  CASE w.state = "IDEL" -> IF go /\ ~w.finsh THEN "IDELtoWRCR" ELSE "IDEL"
    [] w.state = "WSICRtoIDEL" -> IF go /\ w.finsh THEN "WSICRtoIDEL" ELSE "IDEL"
    [] w.state \in Writing ->
         IF w.byteCnt <= WRegByte[w.state] THEN w.state ELSE AfterW[w.state]
    [] OTHER -> IF held.wDRDY THEN AfterW[w.state] ELSE w.state

WriteEdge ==
  LET go == w.init = WriteTime
      next == NextWrite(go)
      cnt == ByteCnt(w, next, Pulse(w), WRegByte)
  IN  w' = [init |-> IF ~start THEN 0 ELSE IF go THEN w.init ELSE w.init + 1,
            state |-> next,
            finsh |-> (w.state = "WSICR" /\ next = "WSICRtoIDEL") \/ (w.finsh /\ w.init # 0),
            busy |-> IF go THEN next # "WSICRtoIDEL" ELSE w.busy,
            sel |-> next \in Writing, sel0 |-> w.sel, sel1 |-> w.sel0,
            byteCnt |-> cnt[1], en |-> cnt[2],
            data |-> IF go THEN ByteOf(next, w.byteCnt) ELSE w.data,
            fin0 |-> held.wfin, fin1 |-> w.fin0]

\* cfg_r_en_h
r_en == w.finsh /\ rcfg

NextRead ==
  IF r.state = "IDEL" /\ ~(r_en /\ ~r_spi.finsh) THEN "IDEL"
  ELSE IF r.state = "RDRDATAtoIDEL" /\ ~(held.rDRDY /\ ~r.flag) /\ frames.cnt >= SampleNumber
    THEN "IDEL"
  ELSE NextState(r, held.rDRDY)

\* Clocks from the enable to the byte: AdcChain's ByteTime.
SpiTime == 33

ReadEdge ==
  LET next == NextRead
  IN  /\ r' = ChainStep(r, next, Pulse(r_spi), finish, SpiTime)
      /\ r_spi' = [fin0 |-> IF r_en THEN held.rfin ELSE r_spi.fin0,
                   fin1 |-> IF r_en THEN r_spi.fin0 ELSE r_spi.fin1,
                   finsh |-> (r.state = "RDRDATAtoIDEL" /\ next = "IDEL") \/ (r_spi.finsh /\ r_en),
                   data |-> IF r_en THEN ByteOf(next, r.byteCnt) ELSE r_spi.data]

\* Frames are counted when their flag rises, and no more once the
\* configuration is withdrawn.
CountFrames ==
  frames' = [cnt |-> IF ~w.finsh THEN 0
                     ELSE IF r.flag /\ ~frames.flag0 THEN (frames.cnt + 1) % CntSize
                     ELSE frames.cnt,
             flag0 |-> r.flag]

-----------------------------------------------------------------------------
\* A bit is the next one of a byte, as a receiver that counts i bits takes it.
Take(byte, b, i) ==
  IF b[2] = i /\ (i = 0 \/ byte = <<b[1], i>>) THEN <<b[1], i + 1>> ELSE <<b[1], 0>>

\* The MAX11040 answers byte n of its transfer with the byte <<step, n>>.
MISO == <<<<step, Len(adc.heard)>>, adc.bits % 8>>

\* SCLK falls at the second clock of a bit and rises at the fourth.
SpiEdge(en, data) ==
  LET last == spi.bit = 7 /\ spi.bps = 2
      toggle == spi.bps \in {1, 3}
  IN  spi' = [finsh |-> ~en /\ (last \/ spi.finsh),
              tx |-> IF en THEN data ELSE spi.tx,
              bps |-> IF spi.finsh \/ spi.bps = 3 THEN 0 ELSE spi.bps + 1,
              bit |-> IF spi.finsh THEN 0
                      ELSE IF spi.bps = 2 THEN (spi.bit + 1) % 16 ELSE spi.bit,
              sclk |-> spi.finsh \/ (spi.sclk # toggle),
              mosi |-> IF spi.finsh THEN <<"00", 0>>
                       ELSE IF spi.bit <= 7 THEN <<spi.tx, spi.bit>> ELSE spi.mosi,
              rx |-> IF ~spi.finsh /\ spi.sclk /\ toggle THEN Take(spi.rx, MISO, spi.bit)
                     ELSE spi.rx,
              dataout |-> IF spi.finsh THEN spi.rx ELSE spi.dataout]

\* ~CS_l, the multiplexer's output.
Selects == IF whrl THEN w.sel ELSE r.sel

\* The MAX11040 takes a bit when SCLK falls; a rising CS_l ends the transfer.
AdcEdge ==
  LET in == Take(adc.in, spi'.mosi, adc.bits % 8)
  IN  adc' = IF ~Selects' THEN [adc EXCEPT !.bits = 0, !.heard = <<>>]
             ELSE IF ~(spi.sclk /\ ~spi'.sclk) THEN adc
             ELSE [bits |-> adc.bits + 1, in |-> in,
                   heard |-> IF adc.bits % 8 < 7 THEN adc.heard
                             ELSE Append(adc.heard, IF in[2] = 8 THEN in[1] ELSE "cut")]
Step == step' = IF start' /\ ~start THEN 1
                ELSE IF Selects /\ ~Selects' /\ step < 7 THEN step + 1 ELSE step

\* The latches follow while they are open; one that closes as its input
\* changes keeps the old value or the new.
Latches ==
  \E late \in IF whrl' # whrl THEN BOOLEAN ELSE {FALSE} :
    LET toW == whrl' \/ late
        toR == ~whrl' \/ late
    IN  held' = [wDRDY |-> IF toW THEN hp' ELSE held.wDRDY,
                 wfin |-> IF toW THEN spi'.finsh ELSE held.wfin,
                 rDRDY |-> IF toR THEN hp' ELSE held.rDRDY,
                 rfin |-> IF toR THEN spi'.finsh ELSE held.rfin]

-----------------------------------------------------------------------------
\* The run is over, and the counter still shows it.
Over == r.state = "IDEL" /\ frames.cnt > 0

\* The program starts a configuration when the run before is gone, ends it when
\* the run is over, and enables reading once a configuration (the counter is at
\* its end then, and a second reading would leave a frame without a tail).
Software ==
  /\ start' \in {start} \cup {s \in BOOLEAN : IF s THEN frames.cnt = 0 ELSE Over}
  /\ rcfg' \in {rcfg} \cup {s \in BOOLEAN : IF s THEN frames.cnt = 0 ELSE Over}

\* No DRDY while a tail is written (AdcStream), nor in the first clocks of the
\* first hand-over: the SPI's finish level, new to the reader, counts
\* as a byte there, and a transfer that begins with it is spoilt.
Quiet == Tailing(r) \/ (r.state = "IDELtoRRCR" /\ ~r_spi.fin1)

\* The frame reader raises its flag for a frame and lowers it when it is done.
Finish ==
  finish' \in IF finish \/ (r.flag /\ ~r.finish0) THEN BOOLEAN ELSE {FALSE}

Edge(drdy) ==
  /\ WriteEdge /\ ReadEdge /\ CountFrames
  /\ SpiEdge(IF whrl THEN w.en ELSE r.en, IF whrl THEN w.data ELSE r_spi.data)
  /\ whrl' = ~(w.finsh /\ ~w.busy)
  /\ AdcEdge
  /\ hp' = drdy /\ (drdy => ~Quiet')
  /\ Latches
  /\ Finish /\ Software /\ Step

SpiNext == \E drdy \in BOOLEAN : Edge(drdy)

SpiSpec == SpiInit /\ [][SpiNext]_spi_vars

\* The clock runs, the MAX11040 goes on converting, and the frame reader takes
\* what it is shown.
Awaited == r.state \in DOMAIN After \ Reading \/ w.state \in DOMAIN AfterW \ Writing
Taken == r.flag /\ SpiNext /\ finish' # finish
SpiFairSpec ==
  /\ SpiSpec
  /\ WF_spi_vars(SpiNext)
  /\ SF_spi_vars(Awaited /\ Edge(TRUE))
  /\ SF_spi_vars(Taken)

-----------------------------------------------------------------------------
SpiTypeOK ==
  /\ w.init \in 0 .. WriteTime /\ w.state \in {"IDEL", "WSICRtoIDEL"} \cup DOMAIN AfterW
  /\ r.state \in {"IDEL"} \cup DOMAIN After /\ r.byteDue \in 0 .. SpiTime
  /\ frames.cnt \in 0 .. CntSize - 1 /\ step \in 1 .. 7
  /\ spi.bps \in 0 .. 3 /\ spi.bit \in 0 .. 8 /\ adc.in[2] \in 0 .. 8

\* The order of a run's transfers, and what the MAX11040 is to hear in each:
\* the command byte and the register's bytes, or zeros while it answers.
Order == <<"WRCR", "WDRCR", "WSICR", "RRCR", "RDRCR", "RSICR", "RDRDATA">>
Transfer(t) ==
  <<Command[t]>> \o
  (IF t \in Reading THEN [i \in 1 .. RegByte[t] - 1 |-> "00"]
   ELSE IF t = "WDRCR" THEN <<"WDRCR", "WDRCR[15:8]">>
   ELSE [i \in 1 .. WRegByte[t] - 1 |-> t])

\* Whoever owns the SPI: when the chip select ends, the MAX11040 has heard the
\* transfer whose turn it is, whole, its command first, and no bit more.
TransfersWhole ==
  [][Selects /\ ~Selects' => /\ adc.heard = Transfer(Order[step])
                     /\ adc.bits = 8 * Len(adc.heard)]_spi_vars

\* The reader is shown each byte the MAX11040 sends exactly once, whole, and
\* always SpiTime clocks after it was asked for: what AdcChain says of the SPI.
BytesOnTime ==
  r.sel => /\ Pulse(r_spi) <=> r.byteDue = 1
           /\ Pulse(r_spi) => spi.dataout = <<<<step, Len(adc.heard) - 1>>, 8>>

\* The sequencer, with the SPI, the latches and the hand-over around it, goes as
\* AdcChain says with SpiTime for ByteTime: from its start to the end of the run
\* no edge is one that ChainEdge does not make.
FollowsChain ==
  [][r'.state # "IDEL" =>
       r' = ChainStep(r, NextState(r, hp), ByteIn(r), finish, SpiTime)]_spi_vars

\* A run that is asked for and enabled reads its frames and ends.
RunsEnd == (start /\ rcfg) ~> r_spi.finsh
=============================================================================
