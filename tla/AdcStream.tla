------------------------------- MODULE AdcStream -------------------------------
(***************************************************************************)
(* The acquisition path of AHB2ADC (ADC_MODULE/AHB2ADC.v): M chains that   *)
(* write frames into a FIFO each on sys_clk, and the reader that empties   *)
(* the FIFOs, one after the other, on the external module's rd_clk.  Two   *)
(* flags couple the clocks: a chain's frame flag and the reader's finish   *)
(* flag.  The FIFO's own pointers and flags are AsyncFifo's subject; its   *)
(* assumption Aligned is shown here of this reader.                        *)
(*                                                                         *)
(* A byte is known as <<chain, frame, index>>.  Frame 0 is the read-back   *)
(* configuration; the frames after it are called 1 and 2 in turn.          *)
(***************************************************************************)
EXTENDS AdcChain, FrameReader

CONSTANTS
  Depth,          \* data_depth of the FIFOs
  RdMin, RdMax    \* how many rd_clk edges fall between two of sys_clk

ASSUME DepthAssumption == Depth \in Nat \ {0}
ASSUME RatioAssumption == RdMin \in Nat /\ RdMax \in Nat /\ 1 <= RdMin /\ RdMin <= RdMax

VARIABLES
  chain,    \* per chain: adc_chain
  fifo,     \* per chain: the bytes, how many of them the two synchroniser
            \* stages of the read side show, and the registered output
  reader,   \* read_fifo_to_external_module
  back,     \* the finish flag's three flip-flops on sys_clk
  rdEdges,  \* rd_clk edges since the last edge of sys_clk
  frame, index,  \* history, per chain: what the next byte written will be
  turn, at       \* history: the frame that leaves, and the words of it that have left

vars == <<chain, fifo, reader, back, rdEdges, frame, index, turn, at>>

Init ==
  /\ chain = [c \in Chains |-> ChainInit]
  /\ fifo = [c \in Chains |-> [q |-> <<>>, v1 |-> 0, v2 |-> 0, valid |-> FALSE, dout |-> <<>>]]
  /\ reader = ReaderInit
  /\ back = <<FALSE, FALSE, FALSE>> /\ rdEdges = 0
  /\ frame = [c \in Chains |-> 0] /\ index = [c \in Chains |-> 0]
  /\ turn = 0 /\ at = -1     \* one time stamp leaves before the first frame

NextFrame(f) == IF f = 1 THEN 2 ELSE 1

\* wr_en: a full FIFO drops the byte.
Write(c) ==
  IF chain[c].wen /\ Len(fifo[c].q) < Depth
    THEN [fifo[c] EXCEPT !.q = Append(@, <<c, frame[c], index[c]>>)] ELSE fifo[c]

\* The chains that look for a DRDY.  None comes while a tail is written: a
\* DRDY there starts a frame that has no tail before it, and that is left to
\* the data rate chosen.
Awaiting == {c \in Chains : chain[c].state \notin Reading \cup {"IDEL"} /\ ~Tailing(chain[c])}

\* A sys_clk edge, at which DRDY has come for the chains in D.
WrEdge(D) ==
  /\ rdEdges >= RdMin /\ rdEdges' = 0
  /\ chain' = [c \in Chains |-> ChainEdge(chain[c], c \in D, back[3])]
  /\ fifo' = [c \in Chains |-> Write(c)]
  /\ back' = <<reader.finish, back[1], back[2]>>
  /\ index' = [c \in Chains |-> IF chain[c].flagHp THEN 0
                                ELSE IF chain[c].wen THEN index[c] + 1 ELSE index[c]]
  /\ frame' = [c \in Chains |-> IF chain[c].flagHp THEN NextFrame(frame[c]) ELSE frame[c]]
  /\ UNCHANGED <<reader, turn, at>>

\* rd_en: a word of four bytes, if the synchronised pointer shows any byte.
Less(n, k) == IF n > k THEN n - k ELSE 0
Read(c) ==
  LET f == fifo[c]
      pop == reader.hot = c /\ f.v2 > 0
      k == IF pop THEN 4 ELSE 0
  IN  [q |-> SubSeq(f.q, k + 1, Len(f.q)), v1 |-> Less(Len(f.q), k), v2 |-> Less(f.v1, k),
       valid |-> pop, dout |-> SubSeq(f.q, 1, k)]

\* The words of frame f of one chain: its bytes, time and count, made up to
\* more than a multiple of four.
Words(f) ==
  LET bytes == IF f = 0 THEN RegByte["RRCR"] + RegByte["RDRCR"] + RegByte["RSICR"]
               ELSE RegByte["RDRDATA"]
  IN  (bytes + 6) \div 4 + 1

RdEdge ==
  /\ rdEdges < RdMax /\ rdEdges' = rdEdges + 1
  /\ reader' =
       LET hot == reader.hot
       IN  ReaderEdge(reader, [c \in Chains |-> chain[c].flag],
                      [c \in Chains |-> Count(chain[c])],
                      hot # 0 /\ fifo[hot].valid, IF hot = 0 THEN reader.out ELSE fifo[hot].dout)
  /\ fifo' = [c \in Chains |-> Read(c)]
  /\ LET last == at = M * Words(turn) + M - 1
     IN  /\ at' = IF ~reader.valid THEN at ELSE IF last THEN 0 ELSE at + 1
         /\ turn' = IF reader.valid /\ last THEN NextFrame(turn) ELSE turn
  /\ UNCHANGED <<chain, back, frame, index>>

Next == (\E D \in SUBSET Awaiting : WrEdge(D)) \/ RdEdge

Spec == Init /\ [][Next]_vars

\* Both clocks run, and every chain goes on converting.
FairSpec ==
  /\ Spec
  /\ WF_vars(\E D \in SUBSET Awaiting : WrEdge(D)) /\ WF_vars(RdEdge)
  /\ \A c \in Chains : SF_vars(\E D \in SUBSET Awaiting : c \in D /\ WrEdge(D))

\* How the design must be used, which its sources nowhere say: a frame fits
\* into the FIFO and the 8-bit counters, and all chains' strobes are over
\* before the reader sees the first byte of a next frame.  The strobes last
\* Words + 2 edges of rd_clk a chain; the byte comes ByteTime + 8 edges of
\* sys_clk after finish falls, RdMin edges of rd_clk each.
Unhurried ==
  \A f \in {0, 1} :
    /\ M * (Words(f) + 2) <= RdMin * (ByteTime + 8) + 4
    /\ 4 * Words(f) <= Depth /\ 4 * Words(f) <= 255

-----------------------------------------------------------------------------
TypeOK ==
  /\ \A c \in Chains : /\ chain[c] \in Chain
                       /\ Len(fifo[c].q) \in 0 .. Depth
                       /\ fifo[c].v2 <= fifo[c].v1 /\ fifo[c].v1 <= Len(fifo[c].q)
  /\ reader.hot \in 0 .. M /\ reader.addT \in 0 .. (M + 1)
  /\ rdEdges \in 0 .. RdMax

\* What the reader gives out is, word for word, frame after frame: chain 1's
\* frame, chain 2's, ..., one time stamp per chain.  No byte is lost or read
\* twice, no word has bytes of two frames, and no chain runs ahead.
Leaving(k) ==
  LET w == Words(turn)
  IN  IF k < 0 THEN <<"time", M>>
      ELSE IF k < M * w
        THEN [i \in 1 .. 4 |-> <<(k \div w) + 1, turn, 4 * (k % w) + i - 1>>]
      ELSE <<"time", k - M * w + 1>>
FramesInOrder == reader.valid => reader.out = Leaving(at)

\* When the reader has noted that a chain is done, that chain's FIFO holds
\* one whole frame, all of it visible, and the count it took over without a
\* handshake is the frame's length, whatever the other chains do meanwhile.
FrameReady ==
  \A c \in Chains : reader.fin[c] =>
    /\ reader.cnt[c] = 4 * Words(turn)
    /\ fifo[c].v2 = 4 * Words(turn) /\ Len(fifo[c].q) = fifo[c].v2

\* The strobe never meets a part of a word, although it lasts two clocks
\* longer than the frame and the next frame may be coming in: AsyncFifo's
\* assumption Aligned.
StrobesAligned == \A c \in Chains : reader.hot = c => fifo[c].v2 % 4 = 0

\* As long as all chains convert, no chain waits for the reader for ever.
FramesTaken == \A c \in Chains : chain[c].flag ~> ~chain[c].flag
=============================================================================
