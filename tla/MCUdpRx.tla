------------------------------- MODULE MCUdpRx -------------------------------
EXTENDS UdpRx

F(kind, ihl, n, size, bad) ==
  [kind |-> kind, ihl |-> ihl, n |-> n, size |-> size, bad |-> bad]

\* A whole UDP frame: headers, payload or padding to 18 bytes, CRC.
Whole(ihl, n) == F("udp", ihl, n, 14 + ihl + 8 + 18 + 4, 0)

\* Every remainder modulo 4, IP options up to the longest header that cnt can
\* count, and frames meant for others; also frames that end early, in a header
\* or in the payload, damaged preambles, and a length that promises more than
\* the frame brings.
MCFrames == {Whole(20, 1), Whole(20, 6), Whole(20, 3), Whole(24, 8), Whole(32, 4)}
            \cup {F(k, 20, 5, 64, 0) : k \in {"mac", "type", "ip", "arp"}}
            \cup {F("udp", 20, 5, 16, 0), F("udp", 20, 5, 37, 0), F("udp", 20, 5, 45, 0),
                  F("udp", 20, 15, 48, 0), F("udp", 20, 5, 64, 3)}

MCDamaged == {Whole(20, 5), F("udp", 20, 5, 64, 3)}
=============================================================================
