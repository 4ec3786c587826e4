--------------------------------- MODULE MCAdc ---------------------------------
(***************************************************************************)
(* The acquisition, one of two parts clocked: the chains, FIFOs and reader *)
(* (AdcStream), or one chain down to its SPI lines (AdcChainSpi).  The     *)
(* other rests as it was reset.                                            *)
(***************************************************************************)
EXTENDS AdcStream, AdcChainSpi

\* A configuration of 3 bytes and data of 10: frames of 12 and of 20 bytes.
\* With a byte every 3 clocks and 1 or 2 reads per clock the two chains' 14
\* strobes just end before the next frame's first byte can be seen; with
\* ByteTime = 1 they do not.
MCRegByte == [RRCR |-> 1, RDRCR |-> 1, RSICR |-> 1, RDRDATA |-> 10]

\* What the proofs about AdcStream suppose.
ASSUME MCUnhurried == Unhurried

MCWRegByte == [WRCR |-> 2, WDRCR |-> 3, WSICR |-> 2]

VARIABLE part

MCInit == /\ part \in {"stream", "spi"}
          /\ Init /\ SpiInit
          /\ part = "stream" => ~held.rfin

OnStream(A) == part = "stream" /\ A /\ UNCHANGED <<part, spi_vars>>
OnSpi(A) == part = "spi" /\ A /\ UNCHANGED <<part, vars>>

MCNext == OnStream(Next) \/ OnSpi(SpiNext)

\* AdcStream's FairSpec and AdcChainSpi's SpiFairSpec, for whichever is clocked.
Converts(c) == \E D \in SUBSET Awaiting : c \in D /\ WrEdge(D)
MCSpec ==
  /\ MCInit /\ [][MCNext]_<<part, vars, spi_vars>>
  /\ WF_<<vars, spi_vars>>(OnStream(\E D \in SUBSET Awaiting : WrEdge(D)) \/ OnSpi(SpiNext))
  /\ WF_vars(OnStream(RdEdge))
  /\ SF_<<vars, spi_vars>>(OnStream(Converts(1)) \/ OnSpi(Awaited /\ Edge(TRUE)))
  /\ SF_<<vars, spi_vars>>(OnStream(Converts(2)) \/ OnSpi(Taken))
=============================================================================
