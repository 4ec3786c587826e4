--------------------------------- MODULE Mdio ---------------------------------
(***************************************************************************)
(* mdio_rw_test (ETH/ETH_MDIO): mdio_ctrl polls the PHY's status and speed *)
(* registers, resets the PHY when a key is pressed and shows the link on   *)
(* two LEDs; mdio_dri sends each read or write as a clause-22 frame.  Both *)
(* run on dri_clk, one edge a step, two of them a period of eth_mdc.  The  *)
(* PHY is a clause-22 device that samples eth_mdio when eth_mdc rises and  *)
(* answers a read after the next rises, or is silent.                      *)
(***************************************************************************)
EXTENDS Integers

CONSTANT Links   \* the states the link can be in, of -1 (down), 0, 1 and 2

ASSUME LinksAssumption == Links \subseteq -1 .. 2

VARIABLES
  d0, d1, rst_trig_flag, timer_done, start_next, read_next, link_error, flow_cnt,
  speed_status, op_exec, op_rh_wl, op_addr,                          \* mdio_ctrl
  cur_state, cnt, st_done, op_code, addr_t, rd_data_t, op_done, op_rd_data,
  op_rd_ack, mdio_dir, mdio_out, eth_mdc,                            \* mdio_dri
  link, silent,   \* the link, and whether the PHY let the last read go by
  ones, n, heard, \* the PHY: ones before a frame, bits of the frame, as a number
  answer,         \* what it drives, -1 if nothing
  took            \* history: the frame taken of this operation, <<op, register, data>>

Bit(w, i) == (w \div 2 ^ i) % 2

\* The PHY's registers that are read: 1 (status: bits 5 and 2) and 17 (speed:
\* bits 15 and 14), the other bits as such a PHY has them.
Register(l, reg) ==
  IF reg = 1 THEN (IF l >= 0 THEN 31085 ELSE 31049)
  ELSE IF l >= 0 THEN l * 2 ^ 14 + 11272 ELSE 8
SoftReset == 37184   \* 16'h9140
PHY_ADDR == 1

MdioReset ==
  /\ d0 = FALSE /\ d1 = FALSE /\ rst_trig_flag = FALSE /\ timer_done = FALSE
  /\ start_next = FALSE /\ read_next = FALSE /\ link_error = FALSE
  /\ flow_cnt = 0 /\ speed_status = 0
  /\ op_exec = FALSE /\ op_rh_wl = 0 /\ op_addr = 0
  /\ cur_state = "st_idle" /\ cnt = 0 /\ st_done = FALSE /\ op_code = 0 /\ addr_t = 0
  /\ rd_data_t = 0 /\ op_done = FALSE /\ op_rd_data = 0 /\ op_rd_ack = 1
  /\ mdio_dir = FALSE /\ mdio_out = 1 /\ eth_mdc = 1
  /\ silent = FALSE
  /\ ones = 0 /\ n = 0 /\ heard = 0 /\ answer = -1 /\ took = <<0, 0, 0>>

-----------------------------------------------------------------------------
\* mdio_dri: each state lasts until the count named here.
Last == [st_pre |-> 63, st_start |-> 7, st_addr |-> 19, st_wr_data |-> 40, st_rd_data |-> 40]

next_state ==
  IF cur_state = "st_idle" THEN (IF op_exec THEN "st_pre" ELSE "st_idle")
  ELSE IF ~st_done THEN cur_state
  ELSE CASE cur_state = "st_pre" -> "st_start"
         [] cur_state = "st_start" -> "st_addr"
         [] cur_state = "st_addr" -> IF op_code = 1 THEN "st_wr_data" ELSE "st_rd_data"
         [] OTHER -> "st_idle"

\* A definition whose name ends in Mut is a faulty variant of the next one;
\* no specification uses it.
CountMut ==       \* the preamble a bit short
  /\ st_done' = (cur_state # "st_idle" /\
                 cnt = (IF cur_state = "st_pre" THEN 60 ELSE Last[cur_state] - 1))
  /\ cnt' = IF cur_state = "st_idle" \/ st_done THEN 0 ELSE cnt + 1
Count ==
  /\ st_done' = (cur_state # "st_idle" /\ cnt = Last[cur_state] - 1)
  /\ cnt' = IF cur_state = "st_idle" \/ cnt = Last[cur_state] THEN 0 ELSE cnt + 1

\* The bits a state sends, as a number, with how many they are: ST and OP,
\* the two addresses, TA and data.
Sends == [st_start |-> <<4, 4 + op_code>>, st_addr |-> <<10, 32 * PHY_ADDR + addr_t>>,
          st_wr_data |-> <<18, 131072 + SoftReset>>]

\* A bit goes out at each odd count.
Out(k) ==
  IF cur_state \in DOMAIN Sends /\ cnt % 2 = 1 /\ k <= Sends[cur_state][1]
    THEN Bit(Sends[cur_state][2], Sends[cur_state][1] - k)
  ELSE IF mdio_dir' THEN (IF cur_state = "st_pre" THEN 1 ELSE mdio_out) ELSE 1

Drive ==
  /\ mdio_dir' = (/\ cur_state # "st_idle"
                  /\ mdio_dir \/ cur_state = "st_pre"
                  /\ ~(cur_state = "st_wr_data" /\ cnt = 37)
                  /\ ~(cur_state = "st_rd_data" /\ cnt = 1))
  /\ mdio_out' = Out((cnt + 1) \div 2)
  /\ eth_mdc' = IF cnt % 2 = 0 THEN 1 ELSE 0

\* What the PHY drives: TA's zero, then the data; what is on the line.
PhyOut == IF answer = -1 \/ n < 15 THEN 1 ELSE IF n = 15 THEN 0 ELSE Bit(answer, 31 - n)
mdio_in == IF mdio_dir THEN mdio_out ELSE PhyOut

Read ==
  LET rd == cur_state = "st_rd_data"
  IN  /\ rd_data_t' = IF ~rd THEN rd_data_t
                      ELSE IF cnt = 40 THEN 0
                      ELSE IF cnt \in 6 .. 36 /\ cnt % 2 = 0
                        THEN rd_data_t + mdio_in * 2 ^ ((36 - cnt) \div 2)
                      ELSE rd_data_t
      /\ op_rd_data' = IF rd /\ cnt = 40 THEN rd_data_t ELSE op_rd_data
      /\ op_rd_ack' = IF cur_state = "st_idle" /\ op_exec THEN 1
                      ELSE IF rd /\ cnt = 4 THEN mdio_in ELSE op_rd_ack

Driver ==
  /\ cur_state' = next_state
  /\ Count
  /\ IF cur_state = "st_idle" /\ op_exec
       THEN op_code' = 1 + op_rh_wl /\ addr_t' = op_addr
       ELSE UNCHANGED <<op_code, addr_t>>
  /\ op_done' = (cur_state \in {"st_wr_data", "st_rd_data"} /\ cnt = 40)
  /\ Read
  /\ Drive

-----------------------------------------------------------------------------
\* mdio_ctrl.
Exec(rh_wl, addr) == op_exec' = TRUE /\ op_rh_wl' = rh_wl /\ op_addr' = addr
NoExec == op_exec' = FALSE /\ UNCHANGED <<op_rh_wl, op_addr>>

\* flow_cnt 0: a reset first, then the timer's poll, then the speed.
Start ==
  \/ /\ rst_trig_flag
     /\ Exec(0, 0) /\ flow_cnt' = 1 /\ UNCHANGED <<start_next, read_next>>
  \/ /\ ~rst_trig_flag /\ timer_done
     /\ Exec(1, 1) /\ flow_cnt' = 2 /\ UNCHANGED <<start_next, read_next>>
  \/ /\ ~rst_trig_flag /\ ~timer_done /\ start_next
     /\ Exec(1, 17) /\ flow_cnt' = 2 /\ start_next' = FALSE /\ read_next' = TRUE
  \/ /\ ~rst_trig_flag /\ ~timer_done /\ ~start_next
     /\ NoExec /\ UNCHANGED <<flow_cnt, start_next, read_next>>

\* flow_cnt 1 and 2: wait for the driver.  A read nobody answered is given
\* up, and read_next is then as it was.
AwaitMut ==      \* read_next is never cleared
  /\ NoExec /\ UNCHANGED <<start_next, read_next>>
  /\ flow_cnt' = IF ~op_done THEN flow_cnt
                 ELSE IF flow_cnt = 1 \/ op_rd_ack = 1 THEN 0
                 ELSE IF read_next THEN 4 ELSE 3
Await ==
  /\ NoExec /\ UNCHANGED start_next
  /\ flow_cnt' = IF ~op_done THEN flow_cnt
                 ELSE IF flow_cnt = 1 \/ op_rd_ack = 1 THEN 0
                 ELSE IF read_next THEN 4 ELSE 3
  /\ read_next' = (read_next /\ flow_cnt' # 4)

\* flow_cnt 3: link up and negotiated, or not.
Status ==
  LET up == Bit(op_rd_data, 5) = 1 /\ Bit(op_rd_data, 2) = 1
  IN  /\ NoExec /\ flow_cnt' = 0 /\ UNCHANGED read_next
      /\ start_next' = (start_next \/ up)
      /\ link_error' = ~up

\* flow_cnt 4: the speed, as the LEDs show it.
Speed ==
  /\ NoExec /\ flow_cnt' = 0 /\ UNCHANGED <<start_next, read_next>>
  /\ speed_status' = (op_rd_data \div 2 ^ 14 + 1) % 4

\* What the LEDs show, and what they should, of a link.
led == IF link_error THEN 0 ELSE speed_status
Shown(l) == l + 1

\* The key may be pressed and let go at any edge.  The timer's period, 10^6
\* clocks, is longer than a poll, two operations and a reset, about 1200.
Control ==
  /\ rst_trig_flag' = ((rst_trig_flag \/ (d0 /\ ~d1)) /\ ~(flow_cnt = 1 /\ op_done))
  /\ \/ flow_cnt = 0 /\ Start /\ UNCHANGED <<link_error, speed_status>>
     \/ flow_cnt \in {1, 2} /\ Await /\ UNCHANGED <<link_error, speed_status>>
     \/ flow_cnt = 3 /\ Status /\ UNCHANGED speed_status
     \/ flow_cnt = 4 /\ Speed /\ UNCHANGED link_error
  /\ d1' = d0 /\ d0' \in BOOLEAN
  /\ timer_done' \in BOOLEAN /\ (timer_done' => flow_cnt \in {0, 1} /\ ~start_next)

-----------------------------------------------------------------------------
\* The PHY.  A frame follows 32 ones and starts with a zero; its fourteenth
\* bit ends the header: 01, the operation, the PHY, the register.
Header == heard' \div 2 ^ 10 = 6 /\ (heard' \div 2 ^ 5) % 2 ^ 5 = PHY_ADDR

Hear ==
  \/ /\ n = 0 /\ mdio_in = 1
     /\ ones' = IF ones = 32 THEN 32 ELSE ones + 1
     /\ UNCHANGED <<n, heard, answer, took, link, silent>>
  \/ /\ n = 0 /\ mdio_in = 0
     /\ ones' = 0 /\ n' = IF ones = 32 THEN 1 ELSE 0
     /\ UNCHANGED <<heard, answer, took, link, silent>>
  \/ /\ n \in 1 .. 30
     /\ n' = n + 1 /\ heard' = 2 * heard + mdio_in
     /\ IF n = 13 /\ Header
          THEN /\ link' \in Links /\ silent' \in BOOLEAN
               /\ answer' = IF silent' THEN -1 ELSE Register(link', heard' % 2 ^ 5)
          ELSE UNCHANGED <<link, silent, answer>>
     /\ UNCHANGED <<ones, took>>
  \/ /\ n = 31
     /\ n' = 0 /\ heard' = 0 /\ answer' = -1
     /\ took' = LET op == (heard \div 2 ^ 27) % 4
                    reg == (heard \div 2 ^ 17) % 2 ^ 5
                IN  <<op, reg, IF op = 1 THEN 2 * (heard % 2 ^ 15) + mdio_in ELSE answer>>
     /\ UNCHANGED <<ones, link, silent>>

Phy ==
  IF eth_mdc = 0 /\ eth_mdc' = 1 THEN Hear
  ELSE /\ took' = IF op_exec THEN <<0, 0, 0>> ELSE took
       /\ UNCHANGED <<link, silent, ones, n, heard, answer>>

\* One edge of dri_clk.
MdioNext == Driver /\ Phy /\ Control

MdioRests == flow_cnt = 0 /\ ~rst_trig_flag /\ ~timer_done /\ ~start_next

-----------------------------------------------------------------------------
(* When the driver ends an operation the PHY has taken just that one: the  *)
(* reset's write, or the read of the register asked for, and what the PHY  *)
(* sent is what is handed over, or that it sent nothing.  They never drive *)
(* the line at once (mdio_dri.v).                                          *)
OpsTakeEffect ==
  /\ ~(mdio_dir /\ answer # -1 /\ n >= 15)
  /\ op_done =>
       /\ took[1] = op_code /\ took[2] = addr_t
       /\ IF op_code = 1 THEN took[3] = SoftReset
          ELSE took[3] = (IF op_rd_ack = 0 THEN op_rd_data ELSE -1)
=============================================================================
