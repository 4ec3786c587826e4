------------------------------ MODULE MCUdpEcho ------------------------------
EXTENDS UdpEcho

F(kind, n, size) == [kind |-> kind, ihl |-> 20, n |-> n, size |-> size, bad |-> 0]
Udp(n) == F("udp", n, 14 + 20 + 8 + (IF n >= 18 THEN n ELSE 18) + 4)
Request == F("arp", 0, 64)

\* Short packets, which all make frames of one length, and requests.
MCFrames == {Udp(2), Udp(6), Request}

\* Packets of full words that follow each other without a longer pause.
MCFullWords == {Udp(20)}

\* What the proofs about UdpEcho suppose.
ASSUME MCLoopable == Steady /\ (Frames = MCFrames => Loopable)
=============================================================================
