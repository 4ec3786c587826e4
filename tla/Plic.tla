-------------------------------- MODULE Plic --------------------------------
(***************************************************************************)
(* The interrupt controller of the E203 (sirv_plic_man.v with one          *)
(* sirv_LevelGateway.v per source), one clock edge at a time, and the      *)
(* driver's accesses to it (plic_driver.c).  The ports drop the byte mask  *)
(* and compare whole addresses, so a byte store to a register's first      *)
(* address writes the byte to all four lanes, and elsewhere nothing.       *)
(***************************************************************************)
EXTENDS Integers, FiniteSets

Sources == 1 .. 52                  \* PLIC_IRQ_NUM 53, source 0 tied low

\* irq: the inputs, registered; id, req and rdata: the registered top
\* source, interrupt request and last response on the bus.
PlicInit == [irq |-> {}, pend |-> {}, inFlight |-> {}, enab |-> {}, prio |-> {},
             id |-> 0, req |-> FALSE, rdata |-> 0]

\* Of the sources pending, enabled and of priority 1 (the others have 0,
\* and the threshold is 0) the comparator tree gives the lowest.
Candidates(p) == p.pend \cap p.enab \cap p.prio
Top(p) == IF Candidates(p) = {} THEN 0 ELSE CHOOSE s \in Candidates(p) : \A t \in Candidates(p) : s <= t

\* The accesses that matter to an edge; r is the response of any other one.
Access(op, s) == [op |-> op, s |-> s]
NoAccess == Access("none", 0)
Other == Access("other", 0)         \* its response is the number of no source
Claim == Access("claim", 0)
Complete(s) == Access("complete", s)

Response(p, a) == IF a.op = "none" THEN p.rdata ELSE IF a.op = "other" THEN 0 ELSE p.id

\* A claim clears the pending bit of the source that equals icb_rsp_rdata:
\* a register here, which still has the response of the access before.
Claimed(p, a) == IF a.op = "claim" THEN {p.rdata} ELSE {}
Completed(a) == IF a.op = "complete" THEN {a.s} ELSE {}

PlicEdge(p, lines, a) ==
  LET accepted == p.irq \ p.pend                    \* the gateways' ready
  IN  [p EXCEPT
         !.irq = lines,
         !.pend = (@ \ Claimed(p, a)) \cup (accepted \ p.inFlight),
         !.inFlight = (@ \cup accepted) \ Completed(a),
         !.id = Top(p), !.req = Top(p) # 0,
         !.rdata = Response(p, a)]

-----------------------------------------------------------------------------
\* The enable register of source s is byte s \div 8, its bit s % 8; byte k
\* can be reached only if it is the first of its word.  Bytes are sets of
\* bit numbers.
Reached(k) == k % 4 = 0
LoadByte(p, k) == IF Reached(k) THEN {j \in 0 .. 7 : 8 * k + j \in p.enab} ELSE {}
StoreByte(p, k, byte) ==
  IF ~Reached(k) THEN p.enab
  ELSE {s \in Sources : IF s \div 32 = k \div 4 THEN s % 8 \in byte ELSE s \in p.enab}

PLIC_init(p) == [p EXCEPT !.enab = {}, !.prio = {}]
PLIC_enable_interrupt(p, s) ==
  LET k == s \div 8 IN [p EXCEPT !.enab = StoreByte(p, k, LoadByte(p, k) \cup {s % 8})]
PLIC_set_priority(p, s) == [p EXCEPT !.prio = @ \cup {s}]
=============================================================================
