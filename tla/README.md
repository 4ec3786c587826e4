# Verification of the Kintex-7 board design (wild_fire) and the E203 kit

The repository is an FPGA design: a Cortex-M0 on an AHB-Lite bus with a UART, a
timer and small slaves; an acquisition path that reads daisy-chained MAX11040
ADCs and hands their frames to another clock domain; an Ethernet path that
answers ARP and echoes UDP; a serial echo demo; and a Hummingbird E203 RISC-V SoC with a
software kit of three C programs. This directory holds TLA+
models of the parts with logic of their own, what TLC checks of them, and what
TLAPS proves. Paths below are relative to
`src/project/wild_fire/src/rtl/000.my_m0_0macro/` unless they start with
`src/` or, for the kit, with `sirv-e-sdk/` (in `src/project/e203_mod/`). `PROJECT.json` maps every definition to its lines.

## 1. Inventory

| part | state | operations | talks to | hard about it |
|---|---|---|---|---|
| `ADC_MODULE/adc_fifo_async.v` (`fifo_async`) | RAM, two pointers, two 2-stage Gray synchronisers | write edge, read edge of unrelated clocks | chain writes bytes, reader takes 32-bit words | stale and torn pointers, wrap-around, 1 byte in and 4 out |
| `ADC_MODULE/adc_chain*.v`, `spi_drive.v` | two sequencers, SPI engine, byte and frame counters | configure, read registers, read frames | DRDY pin, SPI pins, FIFO, reader's finish flag | hand-over of the SPI, frames padded to words |
| `ADC_MODULE/read_fifo_to_external_module.v` | one-hot chain select, counters, flag synchronisers | wait for all chains, drain one after the other, append time stamps | FIFOs, chains, external logic | everything crosses clocks; fixed strobes longer than the count |
| `M0_SYS/AHBUART.v`, `fifo.v` | data-phase registers, two FIFOs, divisor and its copy | bus read, write, set divisor; byte sent, byte received | AHB bus, UART engines, IRQ | wait states, FIFO limits, divisor under a running byte |
| `M0_SYS/uart_tx.v`, `uart_rx.v` | bit state machine, tick counter | one clock | pins, FIFOs | the two engines count ticks differently; `rx` is not synchronised |
| `M0_SYS/AHBDCD.v`, `AHBMUX.v` | data-phase select | decode, select | core, all slaves | address phase against data phase |
| `M0_SYS/AHBTIMER.v`, `prescaler.v` | control, load, value, two small FSMs | bus write, timer tick, HCLK tick | bus, NVIC | gated clocks, interrupt hand-shake |
| `M0_SYS/key_filter.v`, `AHB2LED.v`, `AHB7SEGDEC.v`, `AHB2MEM.v` | one register each | write, read | bus, pins | little |
| `ETH/ETH_UDP/udp_rx.v` | seven states, byte counters, length | one receive clock | PHY, FIFO core, `udp_tx` | truncated and damaged frames, lengths modulo 4 |
| `ETH/ETH_UDP/udp_tx.v` | six states, length latch, word and byte counters | one transmit clock | FIFO core, pins | a start while busy, padding, FIFO latency |
| `ETH/ETH_ARP/arp_rx.v`, `arp_tx.v` | small frame FSMs | one clock | PHY, `eth_ctrl` | shares the pins with UDP |
| `ETH/eth.ctrl.v`, `eth_udp_loop.v` | who owns the pins, pending request | one clock | all of the above | a request during an echo, an echo during a reply |
| `ETH/ETH_MDIO/*.v` | serial frame FSM, polling FSM | one clock of the divided clock | PHY, key, LEDs | missing acknowledge, key at the wrong moment |
| `src/project/uart_demo_prj/src/rtl/*.v` | receiver and transmitter without a buffer | one clock | two serial lines | the echo must keep ahead of the sender |
| `sirv-e-sdk/software/coremark` | list, matrix and text in one block, checksums | iterate: search, sort, remove, scan, multiply | its own modules, through cached results in the list items | relinking a list in place, data that must be restored |
| `sirv-e-sdk/software/dhrystone` | two records, globals | one loop of calls | | procedures that alias each other's operands |
| `sirv-e-sdk/software/demo_gpio`, `bsp/env/entry.S` | GPIO output register, handlers | main's atomic XOR, button and timer interrupts | PLIC, CLINT, GPIO | handlers and main share a register |
| `sirv-e-sdk/bsp/drivers/plic`, `e203/perips/sirv_plic_man.v` | gateways, pending, enable, priority, registered response | enable, claim, complete; one clock | GPIO lines, core | bytes against words, a registered bus response |
| Cortex-M0 netlist, E203 core, generated IP, test benches | | | | vendored, generated or stimulus: left out, see section 7 |

The parts interact by wires that are registered on one side: strobes of one clock
(`rx_done`, `rec_pkt_done`, `tx_done`), level flags that cross clocks through two
or three flip-flops (the FIFO pointers, the frame flags), and FIFOs. Nothing
persists over reset, so there is no crash recovery; faults come from the outside
as damaged or truncated frames and as timing.

What makes each part correct:

* FIFO between clocks: it is a bounded queue, whatever copies of the pointers each
  side sees, and it does not stay full.
* UART slave: bytes accepted from the bus go out once, in order, at one divisor;
  a stalled bus moves on; a read begun with care gets the oldest byte.
* Bus: every transfer ends with the answer of the slave it was addressed to, and a memory
  holds what the completed writes left, byte by byte.
* Timer: each expiry makes one interrupt, whichever clock the counter runs on.
* UART engines: bytes become frames and frames become bytes, for the divisors and
  clock tolerances the design is used with.
* MDIO: an operation is over when the PHY has done it, and the LEDs come to show the link.
* UDP receiver: intact packets arrive whole; the announced length always agrees
  with the number of words put in the buffer, also after bad frames.
* CoreMark: the published checksums come out, every iteration finds what the last one found,
  and no cell of the list is lost on the way. Dhrystone: the values `main` says it should have.
* GPIO demo: no update of the shared register is lost, every press reaches its handler, and no
  interrupt ends the program.
* UDP echo: what came in goes out once, whole, in order; ARP requests are answered
  and no reply is cut.

## 2. Modules

One TLA+ step is one clock edge wherever the code is clocked logic: an action per
state of the code's state machine, conjoined with the actions of the registers
that run beside it, so that all non-blocking assignments of an edge are one step.
Blocks of different clocks are different actions. Names are the code's.
Definitions ending in `Mut` are faulty variants used to show that a property can
fail; no specification uses them.

| module | models | remarks |
|---|---|---|
| `ByteQueue` | promise of the FIFO | abstract bounded queue: bytes in, words of four out |
| `AsyncFifo` | `adc_fifo_async.v` | `WrEdge`, `RdEdge`, `BothEdges` (both clocks within a setup window, where a synchroniser may catch any mixture of old and new bits); Gray words are held decoded |
| `GrayFifo` | the same, bit by bit | Gray words as bit functions; refines `AsyncFifo`, which justifies its `Torn` set and its `Full` |
| `SyncFifo` | `fifo.v` | the FIFO as a record and one clock edge as an operator |
| `AhbUart` | `AHBUART.v`, HREADY of `AHBMUX.v` | `Tick`: one HCLK edge with any transfer entering its data phase, `tx_done` and `rx_done` at any time |
| `AhbFabric` | `AHBDCD.v`, `AHBMUX.v`, `AHB2MEM.v`, the configuration memory of `AHB2ADC.v` | one HCLK edge with any transfer entering its address phase; the UART may stall at any time (`AhbUart` says when it does) |
| `AhbProofs` | | theorems about `AhbUart` with `SyncFifo`, and about `AhbFabric` |
| `AhbTimer` | `AHBTIMER.v`, `prescaler.v` | one HCLK edge a step; the counter's clock, selected by a register, rises a little later and may see registers from before or after that edge |
| `CrossingProofs` | | theorems about `AsyncFifo` and about `AhbTimer` |
| `UartFrame` | the serial line | start bit, data, stop bit, for any bit length; abstract specification and environment |
| `UartTx` | `uart_tx.v` | refines `UartFrame` |
| `UartRx` | `uart_rx.v` | driven by a `UartFrame` sender of another clock; each register that looks at the pin during an edge of it may see either value |
| `UartEcho` | `uart_demo_prj`: `uart_rx.v`, `uart_tx.v`, `uart_top.v` | sender and reader are a `UartFrame` and a tap on the output |
| `GmiiLine` | the PHY (external) | frames by what a receiver distinguishes: kind, header length, announced length, real size, damaged preamble byte |
| `UdpRx` | `udp_rx.v` | header bytes are kept only as "matches or not"; a receiver out of step with the frame may read anything |
| `UdpRxProofs` | | theorems about `UdpRx` |
| `UdpTx` | `udp_tx.v` | one action `Transmit(start, num, dout)`; contents of headers left out |
| `Arp` | `arp_rx.v`, `arp_tx.v` | `Receive`, `Transmit` |
| `UdpEcho` | `eth.ctrl.v`, `eth_udp_loop.v`, `udp.v` | composes `UdpRx`, `UdpTx`, `Arp` and the FIFO core |
| `UdpEchoProofs` | | theorems about `UdpEcho` with `UdpTx` and `Arp`, on `UdpRxProofs` |
| `AdcChain` | `adc_chain_regcfg_r_max11040.v` | a chain's read sequencer as a record, one `sys_clk` edge as the operator `ChainStep`; `ChainEdge` is the same with the SPI reduced to the time it takes |
| `AdcChainSpi` | `adc_chain.v`, `adc_chain_regcfg_w_max11040.v`, `spi_drive.v`, with `ChainStep` | one chain from the program's two enable bits to SCLK, MOSI, MISO and CS_l; the MAX11040 (external) takes and answers bits. A closing latch keeps the old value or the new |
| `AdcProofs` | | theorems about `AdcChainSpi` |
| `FrameReader` | `read_fifo_to_external_module.v` | the reader as a record, one `rd_clk` edge as `ReaderEdge` |
| `AdcStream` | `AHB2ADC.v` | composes the two with a FIFO per chain: `WrEdge`, `RdEdge` |
| `AdcStreamProofs` | | theorems about `AdcStream` with `AdcChain` and `FrameReader` |
| `Mdio` | `mdio_ctrl.v`, `mdio_dri.v` | one edge of `dri_clk`: `Driver`, `Control` and the PHY (external), which samples the line when `eth_mdc` rises and may leave a read unanswered; the link may change whenever a read samples it, the key at any edge |
| `Serial` | the serial engines together | `Mdio` and `INSTANCE`s of `UartTx`, `UartRx`, `UartEcho`, one powered at a time, and their properties |
| `SerialProofs` | | theorems about `UartTx`, `UartRx` and `UartEcho`, as composed in `Serial` |
| `CoreUtil` | `core_util.c` | the 16-bit CRC, on real integers of 16 bits |
| `CoreList` | `core_list_join.c` | the heap of list cells, and each list operation as an operator on it |
| `CoreMatrix`, `CoreState` | `core_matrix.c`, `core_state.c` | the matrix operations; the number scanner and its text |
| `CoreMark` | `core_main.c`, and `core_bench_list`, `calc_func`, `core_list_mergesort`, `core_bench_state`, `matrix_test` | a step is one search, one element merged, one token scanned or one matrix operation |
| `Dhrystone` | `dhry_1.c`, `dhry_2.c` | a step is one statement of main's loop, with all the calls it makes |
| `Plic` | `sirv_plic_man.v`, `sirv_LevelGateway.v`, `plic_driver.c` | the controller as a record, one clock edge as `PlicEdge`; the driver's calls by what reaches the registers |
| `GpioDemo` | `demo_gpio.c`, `entry.S` | the processor makes one access per clock or waits, beside the controller, the buttons and the timer |
| `SdkProofs` | | theorems about `Dhrystone`, and about `GpioDemo` with `Plic` |
| `Sdk` | the kit | `CoreMark`, `Dhrystone` and `GpioDemo`, one of them loaded |
| `MC*` | | instances for TLC; `MCCrossings`, `MCAhb` and `MCAdc` put modules that have a clock crossing, the bus or the acquisition in common side by side, one of them clocked |

`AhbUart` stands on two facts about the serial engines: the byte is latched from the
head of the FIFO when the engine starts, and every byte ends. Both are the
behaviour of `UartTx`, where `Finishes` is checked under nothing but a running
clock. `UdpEcho` extends `UdpRx` and so has the very receiver that is checked and proved about there. `AsyncFifo`
lets its reader strobe only while whole words are visible (`Aligned`); that the
reader of this design does so is `StrobesAligned` of `AdcStream` (theorem `StrobesWhole`), where the FIFO is
reduced to its bytes and the two delays of the write pointer. `AdcStream` in turn knows of the SPI only
that a byte comes a fixed time after it was asked for; that is `BytesOnTime` of `AdcChainSpi`, where the same
sequencer drives the SPI engine, and `FollowsChain` there says that no edge of it is one `AdcStream` leaves out.

## 3. Runs

Every passing run is exhaustive: TLC visits all reachable states of its instance.
Each of its properties has a faulty variant of the code (`mutants` in
`PROJECT.json`) that TLC refutes under the same configuration.
Type invariants (`TypeOK`) are stated in the modules and left out of the runs; where a module has
proofs they are part of what is proved.

| run | asks | answer |
|---|---|---|
| `crossings` | is the two-clock FIFO a bounded queue, whatever pointers the flags are computed from? and does the bit-level FIFO, each changing bit caught old or new, do only what the pointer-level one allows? does each expiry of the timer cross to HCLK as one interrupt? | `NoOverrun`, `ImplementsQueue` (refinement of `ByteQueue`), `FullClears`; `ImplementsPointers`; `OneInterruptEach`, `InterruptsRecur` |
| `ahb` | are bytes lost, repeated or reordered between bus and engines when the bus stalls, FIFOs fill and the divisor changes? is each transfer answered by its own slave, although the next one is on the bus already? | `TxIntact`, `FlagsAgree`, `TxOneBaud`, `RxServed`, `BusMovesOn`; `AnswersInTurn` |
| `serial` | is each byte of UART_TX one whole frame, and does it end? does UART_RX read every sender it can be used with, although the pin is not synchronised? does the unbuffered echo keep ahead of the sender? does every MDIO operation take effect as ordered, and do the LEDs find back to the link after anything that happened before? | `SendsFrames` (refinement of `UartFrame`), `Finishes`; `ReadsFrames`; `EchoesInOrder`, `EchoesAll`; `OpsTakeEffect`, `LedSettles` |
| `uart_rx_own_bits` | and the design's own transmitter? | violated, section 6 |
| `udp_rx` | does the announced length agree with the words stored, over intact, damaged and truncated frames? | `WordsMatchLength`, `GoodFramesArrive` |
| `udp_rx_damaged` | is a good preamble accepted after a bad one? | violated, section 6 |
| `udp_echo` | do packets and ARP requests that follow each other closely all get their answer, whole? | `EchoesPackets`, `AllComeBack`, `ArpWhole`, `ArpAnswered` |
| `udp_echo_full_words` | and packets of whole words? | violated, section 6 |
| `adc` | do two chains and the reader, on two clocks, deliver whole frames in order and never block each other? does the MAX11040 hear every transfer whole and in its turn, whichever sequencer owns the SPI, and does every run end? | `FramesInOrder`, `FrameReady`, `StrobesAligned`, `FramesTaken`; `TransfersWhole`, `BytesOnTime`, `FollowsChain`, `RunsEnd` |
| `sdk` | do the benchmarks compute what they are published to compute, over several iterations? does the demo lose an update or a press, or end? | `Validated`, `BackToOriginal`, `NoItemLost`, `ShouldBe`; `NoUpdateLost`, `NeverExits`, `PressesServed` |
| `gpio_enable` | are all the buttons' interrupts enabled when the loop runs? | violated, section 6 |
| `gpio_claims` | does a claim clear the pending bit it should when two buttons are in service? | violated, section 6 |

Bounds, and why they are enough:

* `crossings`, FIFO: `Depth` 4 (one word) for the pointers, `AddrWidth` 3 (8 bytes) for the Gray words. The
  smallest FIFO is full after one word, so every flag, both laps and every torn word
  occur; the theorems of section 5 hold for every depth that is a multiple of 4.
* `crossings`, timer: prescalers that toggle every 2 clocks in place of 16, counters up to 3, one reload
  value, 2: enough for an expiry on every selected clock, and for a write of any register and a change of
  the clock at any moment of the hand-over. `ExactlyOne` (section 5) has every value.
* `ahb`, bus: one word of each memory, two byte values; `AHB2MEM` is written by bytes and half words too, the
  configuration memory, whose decoder of lanes is the same text, by words. `InTurn` has every set of values.
* `ahb`, UART: two data values, two divisors, FIFOs of two bytes. Both FIFOs fill,
  empty and wrap; larger depths are covered by the theorems.
* `serial`, UART_TX: `TxT = 3` clocks per tick; nothing in the engine depends on it but the
  comparison with it.
* `serial`, UART_RX: `RxT = 31`. The tolerance is an eighteenth of a bit on one side only, so a
  small `T` would leave no bit length to test; the lengths used are just above the
  lower and just below the upper end.
* `serial`, echo: five clocks per bit, so that a stop bit can be shorter by less than the
  half bit of slack: 4 works, and with 3 a start edge meets the receiver while it is
  still in the last frame. `EchoKeepsUp` (section 5) has every bit length. Histories are capped (`MaxOwed` 4) above what the invariants
  allow, so a violation is reported before the cap is reached. The same holds of
  `MaxOwed` 3 in `UdpEcho`.
* `serial`, MDIO: whole frames bit by bit, with the code's own counts and all four states of the link, so nothing
  is bounded here: the run has every value of every constant of `Mdio`.
* `udp_rx`: payloads of every remainder modulo 4, IP headers of 20, 24 and 32 bytes, frames for others, an end
  in every part of the frame, a damaged preamble. `LenSize` 16 in place of 65536 makes
  the wrap of the length reachable (length 0 asks for 16 bytes, of several frames).
* `udp_echo`: packets of 2 and 6 bytes and requests, at the shortest legal pause (12
  bytes) or longer; two packet names suffice to tell two consecutive packets apart.
  All short packets make frames of one length; section 6 says what happens with mixed ones.
* `adc`, stream: `M` 2, a byte every 3 clocks, a configuration of 3 bytes and data of 10,
  which make frames of 12 and 20 bytes with tails of one and of four zeros. The code
  has 97 bytes per frame and about 35 clocks per byte (33 of them in the SPI). Only the number of words, the
  remainder modulo 4 and the race of section 4 depend on these, and the small
  instance is near the limit of that race: with a byte every 2 clocks
  `StrobesAligned` fails. The theorems of section 5 have every other size that meets `Unhurried`, which
  this instance does with equality. Frame numbers alternate between 1 and 2, which distinguishes
  neighbours.
* `adc`, SPI: the registers have one byte or two (the code 8, 2 and 32) and data nine, with the code's own
  bit timing; three samples (the read-back and two data frames, so data follows read-back and data);
  a wait of 3 clocks in place of 31 before the configuration; the counter of frames has 4 values. Runs follow one another without end.
* `sdk`, CoreMark: the code's own seeds (0, 0x3415 and 8) and sizes (666 and 400 bytes per
  algorithm): the run computes what the chip computes, on the real data. `Iterations` 2 of 800: the
  second starts from what the first left, and `BackToOriginal` says that is where the first started.
  Two seeds of the three check the published checksums of three parts each.
* `sdk`, Dhrystone: `Number_Of_Runs` 12 of 160000. From the second run on every run starts from
  the same globals and records.
* `sdk`, demo: buttons 1 and 2, one in service at a time (`Crowd` 1), because of the two findings of
  section 6: button 0 is never enabled, and with two in service one of them may never be served.
  Runs `gpio_enable` and `gpio_claims` have the other instances.

## 4. Environment and fairness

No property assumes more than the following; each assumption has its reason in the code.

* **Clocks run.** Weak fairness of a clock edge is the running clock. Nothing else can
  disable an edge.
* **`crossings`**, FIFO: the reader keeps strobing (`WF` of `RdEdge(TRUE)`); `FullClears` is
  about a reader that does, and without one a full FIFO stays full.
* **`crossings`**, timer: HCLK runs (`WF`). The program loads a value of 2 or more before it sets
  the enable bit; section 6 says what less does. A change of the selected clock may make a tick of its
  own (the multiplexer is combinational), or none.
* **`ahb`**: `Sends`, every byte begun is ended. That is `Finishes` of `UartTx`. The
  core may do any sequence of transfers the slave distinguishes. `RxServed` asks for a
  read "begun with care" (interrupt high, no other read in flight, transmit FIFO with
  room): without it the code pops on every stalled clock (`AHBUART.v:130`).
* **`serial`, UART_RX**: bits longer than 2(T+1) clocks by less than an eighteenth of that. It is
  the range in which all eight samples fall into their bits.
* **`serial`, MDIO**: `dri_clk` runs, and when `mdio_ctrl` has nothing to do its timer comes round (`MdioRests` in
  `Running`). It does not come while a poll is under way: its period is a million clocks, a poll and a reset
  take about 1200. `LedSettles` is about a link that stays, a PHY that answers and a key at rest.
* **`serial`, `udp_rx`, `udp_echo`**: a frame that has begun on the line goes on, and
  none need begin (`FairSpec` is weak fairness of the steps that start no frame). So
  "every request is answered" does not rest on a next frame that pushes it out.
* **`udp_rx`** has pauses of three clocks or more, **`udp_echo`** of twelve, the interframe
  gap of Ethernet.
* **`adc`, SPI**: `sys_clk` runs; a DRDY comes again and again while one is awaited, and the reader takes the frame
  it is shown (`SF`, as in the stream). The program ends a configuration when its run is over, begins the next
  when the frame counter is cleared, and enables reading once for each. No DRDY comes while a tail is written,
  nor in the first two clocks of the first hand-over: section 6 says what happens otherwise.
* **`adc`, stream**:
  - every chain goes on converting: strong fairness of a DRDY per chain, because a
    chain looks for DRDY only at times;
  - no DRDY comes while the tail of a frame is written (`Awaiting`), about 26 clocks
    after the last byte. The data rates in use leave thousands;
  - between two `sys_clk` edges there are one or two of `rd_clk`. The test bench
    (`M0_tb`) has 20 ns against 8 ns, two or three;
  - the reader strobes each chain's FIFO two clocks longer than the frame has words,
    so all M(W + 2) strobes must be over before a byte of the next frame can be seen.
    In the code W is 26 and a byte takes about 35 `sys_clk` periods: at the bench's
    ratio that holds for up to three chains (one is the default of `AHBLITE_SYS`), and does not
    hold in the worst case for four or more, if DRDY comes right when reading starts.
    `Unhurried` states it, and the proofs of section 5 have it as their hypothesis;
  - sampling is continuous (bit 15 of `ADC_SAMPLE_NUMBER`).
* **`sdk`**: the processor does not stop (weak fairness of its steps; a benchmark that is not done
  always has one). Buttons may be pressed at any time or never. Two seconds pass at any time, but
  not before main has come out of the last interrupt (`rested`): a handler takes microseconds. One
  step is one clock, and an access to the controller takes at least one.

Frames, bytes and strobes of the environment are drawn by `\E`; what a register out of
step may read is drawn too (`Junk` and the header matches of `UdpRx`).

## 5. Proofs

`CrossingProofs`, the FIFO (for every `Depth` that is a multiple of 4 and every set of bytes):

* `SyncOrder`, `TypeCorrect`: `TypeOK /\ SyncInv` is inductive. `NoOverrun` alone is not:
  the write side compares with a pointer two edges old that may be torn. `SyncInv`
  says that the old copies, the read pointer, the write pointer's copies and the write
  pointer lie in this order within one depth of the oldest copy, where a torn copy
  counts as the multiple of four below it; its last two conjuncts say when a torn copy
  can be there, and without them a torn copy could raise no `Full` where it must.
* `NeverOverruns`, `NeverUnderruns` follow from the order by arithmetic modulo
  `2 * Depth` (`DistPlus`, `DistRebase`, `NotFull`). No run lists `NoUnderrun`: a word taken early is no step of
  `ByteQueue`, so `ImplementsQueue` finds it.
* `Implements`: every edge is an append, a take of four, both, or a stutter of
  `ByteQueue`, under the mapping that reads the bytes between the two pointers from the
  RAM. The lemmas `BytesAppend` and `BytesRest` say what a write and a read do to that
  sequence; that the written slot is none of the unread ones is `NoOverrun`.

`AhbProofs`, the UART slave (for every FIFO depth, byte set and set of divisors):

* `PushPopGood`, `StepContents`: one edge of `FifoStep` appends, takes, or both, of
  `Contents`, and keeps flags and pointers consistent, provided a simultaneous push and
  pop does not meet the empty FIFO. That exception is real for the receive FIFO
  (`fifo.v:128`) and excluded for the transmit FIFO by `BusyHolds`: only a byte
  being sent is popped, and it is still in the FIFO.
* `NothingLost`, `FlagsRight`, `TypeCorrect`: `UInv`, the three invariants together, is
  inductive; none of them is alone.
* `OneBaud` is an action property from `UInv`: a copied divisor needs an empty transmit
  FIFO, and a byte being sent keeps it non-empty.
* `ReadsServed` is one too, from `UInv` and `ReadReady`: what `Careful` checked when the read was on the
  address phase still holds in its data phase, a clock later, because only the read itself takes a byte
  out of RX, and a write in its data phase adds at most one to TX (`StepFlags`).

`CrossingProofs`, the timer (for every prescaler length, counter width and set of reload values of at least 2):

* `ExactlyOne`: `owed` alone says nothing about the hand-over. The invariant (`HandOver`) says
  how far the counter is from its next expiry in each state of the interrupt's state machine: 2 or more
  while the flag of the last expiry is up, because one tick takes the flag away, and so 1 or more in
  `int_con`. That is where reload values of 0 and 1 fail.

`AhbProofs`, the fabric (for every set of byte values):

* `InTurn`: the multiplexer's select and every slave's copy of the address phase belong to the
  transfer the master has in its data phase, stalled or not (`InStep`); and the lanes a slave
  decodes are the bytes from the address on (`LanesAreBytes`), so its write is the reference's.

`SdkProofs`, the GPIO demo (for every set of buttons, any number of them in service):

* `UpdatesKept`: while a handler is between its load and its store, traps are masked, so the
  loaded copy equals the register; main's own update is one atomic access.
* `ClaimsHandled`: the controller presents a source to be claimed from a comparison a clock old.
  The invariant (`Settled`) says that such a source is still pending, enabled and of priority 1
  until its claim, that only sources with a handler ever get that priority (the driver's enable calls
  reach others), and that traps never nest (`OneTrap`).

`SdkProofs`, Dhrystone (for every positive number of runs, integers unbounded):

* `EndsRight`: what the globals, records and locals hold at each statement of the loop, given only
  what the last run left; `main`'s printed "should be" values are the case of the end.

`UdpRxProofs` (for every set of frames with any header length, data length, real size and damaged
preamble byte, every width of the length registers, pauses of two clocks or more):

* `CountersAgree`: what the receiver counts, whatever it takes the line's bytes for (`LenInv`: bytes are counted
  in the data state only and never past the last one, the words stored are a quarter of them, rounded up when the
  packet ends), beside the ranges of the line's own variables (`LineInv`).
* `LengthsTrue` follows from it: truncated frames run into the next ones without ever spoiling the count.
* `FramesArrive`, if the intact UDP frames are `Readable`: a byte of data or more, a header of at most 32 bytes.
  The invariant says where in the frame each state and `cnt` are (`GoodInv`), with the delays of `skip_en`
  and `error_en`, and which bytes of a word are in `rec_data`. `Readable` is no convenience: `cnt` has five
  bits, so a longer header never ends (section 6), and a length of 0 waits for 65536 bytes.

`UdpEchoProofs` (for every set of frames that is `Steady`: whole Ethernet frames with the legal pause of 12 bytes or more,
packets without IP options and with lengths that differ by no more than 5, requests and frames for others of any size; every
order of them; every width of the length registers above 18 bytes and every FIFO depth):

* `RepliesWhole`: all 72 bytes of an ARP reply reach the pins. Nothing in `eth_ctrl` protects a reply: `rec_pkt_done`
  gives the pins to the echo at once. What protects it is that the line is too slow to bring a packet in that
  time, so the invariant (`WholeInv`) is about time. `Free(kind, q)` says that no strobe for a packet, or
  for a request, comes within q clocks, read off the byte on the line (`LineSide` ties the receivers to it);
  a clock takes one from q at most (`FreeStep`).
* `EchoInv` sets this against the clocks the transmitters need: an echo is l clocks from `tx_done` (`Echo`, clock
  by clock through `udp_tx`: `TxAt`), and whoever asks during it asks so late that the next packet leaves
  time for the rest of the echo and for the reply. `ReplyInv` follows the reply from the rising `arp_tx_en`
  to its last byte (`ArpTxAt`), with `Free("udp", 72 - k)` left at byte k.
* The bound of 5 is where the line's pause and `udp_tx`'s start of four clocks meet: a packet 5 bytes
  shorter than the one before is announced with the last byte of that one's echo, and with 6 its start would
  be lost.
* `EchoesWhole`, if the frames are `Loopable` as well: lengths that differ by no more than 4, none a multiple of 4, and a
  buffer that holds any two packets. Each packet is echoed once, whole and in order. Neither module counts the other's words:
  the receiver stores the packet's length in words, the transmitter asks for a word every fourth byte,
  and both take them from one buffer. `LoopInv` says what is in it at clock k of an echo (`Sends`): the words `udp_tx` has
  still to take (`Taken`), and behind them those of the next packet that have come (`Held`), which is not announced before
  this echo's last clock (`Free` again, from `WholeInv`). `Phase` and `Pins` say what `udp_tx` does at clock k, byte by
  byte. At the end of the echo the buffer holds the next packet's words alone, and the argument starts over.
* Both extra conditions are needed. A length that is a multiple of 4 makes `udp_tx` ask for a word of the next packet
  (section 6). With a difference of 5 the next packet is announced one clock before `tx_done`, `udp_tx_busy` falls
  with the first echo's end, and an ARP reply takes the pins from the second echo: TLC finds this with packets of 18 and 23
  bytes, and no violation with 18 and 22. TLC evaluates `Steady` on the runs' instances and `Loopable` on that of
  `udp_echo` (`MCLoopable`).

`SerialProofs` (for every baud divisor, bit length and byte set):

* `FramesSent`: every edge of `UartTx` is a step of `UartFrame` under the mapping of module `UartTx`. `TxInv`
  says how far the tick and bit counters are in the frame, and that `data_reg`, shifted right
  once a bit, holds the rest of the byte.
* `FramesRead`, for `Tolerable` senders: the sender's clock and the receiver's drift apart, so `RxInv` relates
  them not by a fixed distance but by products: in the bit the receiver counts as the k-th, the sender is
  inside its own k-th, as long as eight and a half bits gain less than half a bit. `Tolerable` is tight.
* `EchoKeepsUp`, if the sender is `InTime`: bits of three clocks or more and stop bits of half a bit and two
  clocks, or longer. `EchoInv` is a chain of distances: the synchroniser is one or two clocks behind the line (`Sees`),
  `uart_rx` two or three behind the sender (`Hearing`), the byte's flag and its
  two delays are up at known places (`Handed`), `uart_tx` is half a bit
  *ahead* of `uart_rx` in the next frame (`Ahead`: this is why no buffer is needed), and the tap is one clock behind
  `uart_tx` (`Tapped`). What is owed is then the byte in each of the four places, in this order (`Due`), and
  each clock moves a byte from one place to the next or leaves it (`LineSide`, `TxSide`).

`AdcProofs` (for every number of bytes in each transfer, write time, width of the frame counter and number of
samples from 2; any number of runs; three bytes in `WDRCR`, which the code writes out):

* `SpiInductive`: `IInv` is inductive. A transfer of either sequencer is a path through five phases: `Begun`,
  `Asked`, `Moving` (bit m, clock q), `Come`, `Complete`; each says what the sequencer, the engine and the MAX11040
  hold then, and the lemmas `From...` and `Proceeds` take a clock of the engine from one phase to the next for
  any sequencer that stays in its state. Both sequencers are instances of them.
* Why the parts of `IInv` need each other: the writer lets go only when its last byte is complete (`WriterInv`),
  and the reader works only while the configuration stands and the latches are its own (`ReaderInv`), so a line
  nobody has chosen rests (`LineInv`). The configuration stands until the run is over. That it is not over while a
  frame can still start is about numbers: the tail announces one flag per frame (`TailInv`: `TailEnd` does not move
  while it is written), each flag is counted once (`FlagInv`), and at the last frame the flag is up, so that no DRDY starts
  another (`CountInv`). `RunInv` says whose turn it is.
* `TransfersHeard`: a chip select ends in phase `Complete` only (`SelectEnds`), where the MAX11040 has heard what
  `SaidWhole` shows to be the transfer.
* `BytesShown`: the pulse is phase `Come` and no other, 33 clocks after `Asked` (`Due` counts them).
* `ChainFollowed` uses both: what the sequencer sees of DRDY and of the SPI through the latches and the two stages
  is what `ChainEdge` is given, and what is stale in them after the hand-over comes when `ChainStep` looks at neither.

`AdcStreamProofs` (for every number of chains and of bytes in each register, every byte time, FIFO depth and
ratio of the clocks for which `Unhurried` holds; any number of frames):

* `Invariance`: `IInv` is inductive. `LocalInv` is about one chain alone, whatever DRDY and the finish flag do:
  what it has counted is what it has written, one clock later, and the tail makes it up to `4 * Words`
  (`Supplements`). `PhaseInv` follows the reader through a turn (`Awaits`, `Starts`, `Reads` chain h for the l-th clock,
  `Ended`, `Stamps`) and says in each of them where every chain's frame is: coming in (`Coming`), there and being
  noted through three flip-flops (`There`), or going out while the next one comes in (`Going`).
* Why the phases are needed: nothing but time keeps the chains from a reader that strobes. Its finish flag falls
  in the second clock of the first strobe and the chains start their next frames at once, into the same FIFOs, while the
  last of them still waits to be read. `Going` therefore carries a clock for each side: the edges of
  `rd_clk` since finish fell, and `Age`, the edges of `sys_clk` the chain is at least past the first that
  found it low, read off the chain's own registers (the flag's flip-flops, the select's, the byte's
  time, the tail). The first is at least `RdMin` times the second less one. Hence a byte of the next frame is seen only
  when the strobes are over, and the frame flag, which is down for a whole frame, has left the reader's
  flip-flops before it rises again (`Fallen`), so that no frame is noted twice.
* `FramesDelivered`, `FramesWhole` and `StrobesWhole` read their properties off the phases; `StrobesWhole` is what
  `AsyncFifo` assumes as `Aligned`. `TypeCorrect` adds the ranges, with the chain's own.
* `Unhurried` asks that a frame fit into the FIFO and the 8-bit counters, and that M(W + 2) be at most
  `RdMin` (`ByteTime` + 8) + 4, with W words in a frame. It is met in the design (W = 26, 33 clocks a byte): one chain has
  28 strobes against 45 at equal clocks, and at the bench's ratio three chains have 84 against 86. A board with more
  chains needs a faster `rd_clk` (section 4). TLC evaluates it on the run's instance (`MCUnhurried`: 14 against 14); with
  one clock less per byte that instance fails, so the bound is not slack there.

Assumptions of the proofs are the named `ASSUME`s of the modules, which TLC evaluates in
the runs; the hypotheses `Readable`, `Tolerable`, `InTime`, `Unhurried`, `Steady` and `Loopable` are stated with their theorems, and
the runs' instances meet them. Only model-checked: all liveness; `GrayFifo` (bit functions); MDIO, which is finite and
which the run covers whole; CoreMark,
which walks lists and sums recursively and needs bit operators, both out of the provers' reach.

## 6. What the code does that its text does not say

Each of these runs shows one disagreement between the code and a text of the repository:

* `uart_rx_own_bits`: the receiver's tick is a clock longer than the transmitter's and its
  first sample comes two bit times after the start edge, so at the transmitter's own bit
  length it reads bits 1 to 7 and the stop bit. `uart_rx.v:142` says "8 Data bits", and
  `AHBUART.v` gives both engines one divisor.
* `udp_rx_damaged`: after a damaged preamble `cnt` keeps its value and the next good frame
  is refused.
* `udp_echo_full_words`: for a length that is a multiple of 4 `udp_tx` asks for one word
  too many; if the next packet's first word has come it is thrown away, and every
  later packet is shifted.

* `gpio_enable`: `PLIC_enable_interrupt` stores one byte, at `source >> 3`; `sirv_plic_man.v:421`
  accepts a write only at a word's first address and takes all 32 lanes. Source 23 (button 0) is never
  enabled; 38 and 39 are, and with them 46 and 47. `demo_gpio.c:202` says the interrupt has to be
  enabled "both at the GPIO level, and at the PLIC level", and `:94` "Press Buttons 0, 1, 2 to Set the LEDs".
* `gpio_claims`: a claim clears the pending bit that equals the *previous* bus response
  (`sirv_plic_man.v:517` reads `icb_rsp_rdata`, which `PLIC_ICB_RSP_FLOP` registers). With one source
  that only means each press is served twice; with two, a pending bit is cleared that was never
  claimed, its gateway stays shut and the button is dead. `:222` says the bit is cleared "when the
  interrupt is claimed".

Met while modelling, without a run of their own:

* CoreMark's list does not return to its original order for some seeds whose indices collide
  (size 666, seeds 5, 10 and 14), although `core_list_join.c:130` says "the list is back to original
  state" and `core_main.c:81` allows "Any value"; and its text is not restored for seed 28, where the
  corruption turns a byte into a comma or back (`core_state.c:88`). The published seeds do neither.

* `AHBTIMER.v:81` calls the divided clocks HCLK/16 and HCLK/256; a prescaler toggles every 16 clocks, so
  they are HCLK/32 and HCLK/1024.
* A reload value of 0 gives one interrupt and then none (`timer_irq_next` never falls); with 1 on the
  undivided clock every second expiry is lost. A timer that is disabled and enabled again goes on from where it
  was, without a reload. The clear register is read by nothing.
* `AHB7SEGDEC.v:40` latches the address phase without looking at HREADY, which `AHBMUX.v:85` calls the
  condition for any control signal: behind a stalled transfer the display takes that one's data for a moment.
  Its read data (`HRADTA`) is assigned nowhere. The display is left out of the build.
* `AHB2MEM.v:135` indexes `memory` with `HADDR[MEMWIDTH:2]`, one bit more than it has words.
* `AHBUART.v:121` says "If Read and FIFO_RX is empty - wait."; `HREADYOUT` is `~tx_full`
  and a read never waits.
* `uart_tx.v:172` says "one stop bit"; it lasts four ticks, two bits.
* `udp_rx.v:57`: `cnt` has five bits and an IP header up to 60 bytes. With one of more than 32 it starts again
  inside the header, compares other bytes with the address and takes a new header length from the options.
* The echo demo needs stop bits of half a bit and two clocks (`uart_rx.v` disarms half way through the stop bit, and
  sees an edge two clocks late). With one clock less a start edge can come while the flag still goes down.
* `udp_echo` with lengths that differ: a short packet that arrives while a long one is sent
  back (30 bytes, then 1) loses its start and stays in the buffer. With pauses shorter
  than legal (8), or {18, 1, request} at 12, an echo takes the pins from an ARP reply;
  {19, 21, request} can leave a request without an answer; in {18, 23, request} a reply takes the pins from
  an echo.
* `mdio_ctrl.v:142`: when the read of the speed register is not acknowledged `read_next` stays 1, and the next
  poll's status register is taken for a speed. Until the poll after that the LEDs may show 100 Mbit/s for a
  link that is down or of another speed; `:53` says 00 when there is no link. `LedSettles` says it passes.
  A key press while a reset is being sent is forgotten with the flag (`:131`).
* One stray time stamp per chain leaves the reader after reset, before the first frame.
* The read-back of the configuration counts as a frame: of N samples asked for, N - 1
  data frames are flagged.
* A DRDY while the tail is written cuts it off.
* After reset the read sequencer's copies of the SPI's finish flag are 0, so the flag's level looks like a byte
  in the first two clocks of the first hand-over (`adc_chain_regcfg_r_max11040.v:55`). A DRDY in these clocks
  lets the enable go out before the chip select is counted (`:33` says it starts the count), and the first
  register's read-back is spoilt.
* The program cannot see that a run is over (`cfg_r_finsh_h` is left open). If it withdraws the configuration
  during one, the SPI changes hands in the middle of a transfer, and the read sequencer, cut off from the
  finish flag, waits there or counts bytes that never came; during the configuration the rest of the register is written with the
  byte that was there. Reading enabled a second time without a new configuration, or 0 or 1 samples, end in a
  frame without tail and flag.
* `whrl_reg_flag` is a flip-flop written by a blocking assignment (`adc_chain.v:138`): in a simulation the
  blocks of the same edge may see it early; the model has the flip-flop.
* `REG_BYTE` and `next_state` of the read sequencer depend on each other without a register
  (`adc_chain_regcfg_r_max11040.v:423`); the model takes the state a simulation keeps.
* The read sequencer always reads the bytes of its default number of devices, because
  `AHB2ADC` does not hand it the parameter.

## 7. Not modelled

* **Cortex-M0** (`cortexm0ds_logic.v`): an obfuscated netlist; the bus models let it do any
  legal traffic instead. **E203 core and SoC**: vendored; what the demo sees of it (one access at a
  time, the timer's interrupt before the external one, byte stores replicated to all lanes) is in
  `GpioDemo` and `Plic`. **E203 start-up code, C library stubs, `printf`**: straight-line set-up and
  formatting. **`fe300prci_driver.c`**: compiled for no E203 platform and called by no program.
* **Generated C** (`vcs/work/csrc`, 7 000 lines) and `encoding.h` (1 300 lines of constants): no behaviour
  of the system's own. They are half of the repository's C; most of what is modelled is Verilog.
* **Generated IP, clock generators, DDR pads**: vendor output. The Ethernet FIFO core is an
  external queue in `UdpEcho`; clocks are assumed to run.
* **CRC**: an XOR network whose value no receiver compares.
* **IP header checksum, header contents**: data without control; a reference check over
  small words is planned.
* **LEDs and display on the bus** (`AHB2LED.v`, `AHB7SEGDEC.v`): one register each, left out of the build
  (`bord_define_macro.v`).
* **The ARP test design, the key filter**: section 8.
* Reset in mid-operation: the models start after reset. All blocks of a domain share it, and
  nothing persists over it.
* Metastability is a choice of old or new value in the flip-flop that may catch the change,
  never a third value.

## 8. Plan

Modules, in the order of what is most worth having:

1. `Arp` with replies (`arp_rx_type` 1), truncated frames and the key of `eth_arp_test`.
2. `KeyFilter`; the IP checksum against a reference.

Proofs: the refinement of `AsyncFifo` by `GrayFifo`, once the Gray code is a recursive function in place of bit operators;
`OpsTakeEffect` of `Mdio`, for which the run is already exhaustive.
