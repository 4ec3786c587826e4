------------------------------- MODULE GmiiLine -------------------------------
(***************************************************************************)
(* What the PHY delivers on gmii_rx_dv and gmii_rxd: frames one byte per   *)
(* clock, with pauses between them.  A frame is known by what the          *)
(* receivers look at:                                                      *)
(*   kind  "udp" for this board, "arp" (a request for this board), or the  *)
(*         first field that does not fit: "mac", "type", "ip"              *)
(*   ihl   the IP header's length in bytes                                 *)
(*   n     the data length the UDP header gives                            *)
(*   size  the bytes that really follow the preamble                       *)
(*   bad   the preamble byte that is damaged, or 0                         *)
(* A frame carries an id, so that two frames in a row can be told apart.   *)
(***************************************************************************)
EXTENDS Naturals

CONSTANTS
  Frames,   \* the frames that may come
  MinGap,   \* the shortest pause between two frames, in clocks
  Ids       \* how many ids: frame and reply overlap by less than that

VARIABLES
  frame,    \* the frame that is coming in, or came in last
  id,
  pos,      \* the index of the byte on gmii_rxd: 0 .. 7 is the preamble
  gap       \* > 0 while gmii_rx_dv is low: clocks of pause, at most MinGap

line == <<frame, id, pos, gap>>

gmii_rx_dv == gap = 0

Init == frame \in Frames /\ id = 0 /\ pos = 0 /\ gap = MinGap

Pause == /\ gap > 0
         /\ gap' = IF gap < MinGap THEN gap + 1 ELSE gap
         /\ UNCHANGED <<frame, id, pos>>

Arrive(f) == /\ gap = MinGap
             /\ frame' = f /\ id' = (id + 1) % Ids /\ pos' = 0 /\ gap' = 0

Byte == /\ gap = 0
        /\ IF pos < 7 + frame.size
             THEN pos' = pos + 1 /\ UNCHANGED gap
             ELSE pos' = 0 /\ gap' = 1
        /\ UNCHANGED <<frame, id>>

Next == Pause \/ Byte \/ \E f \in Frames : Arrive(f)

\* What gmii_rxd may be, as far as a receiver compares it: 0x55, 0xd5, or
\* something else.  Beyond the preamble it may be anything.
gmii_rxd == IF pos > 7 THEN {"55", "d5", "other"}
            ELSE IF pos = frame.bad - 1 THEN {"other"}
            ELSE IF pos = 7 THEN {"d5"} ELSE {"55"}

\* The header or payload byte on gmii_rxd: in which part, and where there.
Field ==
  LET h == pos - 8
      u == h - 14 - frame.ihl
  IN  IF pos < 8 THEN <<"preamble", pos>>
      ELSE IF h < 14 THEN <<"eth", h>>
      ELSE IF frame.kind = "arp" THEN <<"arp", h - 14>>
      ELSE IF h < 14 + frame.ihl THEN <<"ip", h - 14>>
      ELSE IF u < 8 THEN <<"udp", u>>
      ELSE <<"data", u - 8>>
=============================================================================
