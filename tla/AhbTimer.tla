------------------------------- MODULE AhbTimer -------------------------------
(***************************************************************************)
(* AHBTIMER (M0_SYS/AHBTIMER.v) and its two prescalers, one HCLK edge a    *)
(* step.  The counter is clocked by timerclk, which a register selects     *)
(* among HCLK and two divided clocks; its expiry is handed back to HCLK,   *)
(* where a state machine makes timer_irq of it.                            *)
(*                                                                         *)
(* timerclk rises a little after HCLK, when control and load may have      *)
(* changed already or not yet: the counter sees either.  The same moment   *)
(* can make a glitch where the selection changes: a tick, or none.         *)
(***************************************************************************)
EXTENDS Integers

CONSTANTS
  Half,   \* clocks between two toggles of a prescaler, 16 in the code
  Top,    \* the largest value of a counter, 2^32 - 1 in the code
  Loads   \* what the program loads: with 0 or 1 expiries come too close

VARIABLES
  phase,           \* the write in its data phase (last_*, HWDATA)
  control,         \* its bits: enable, periodic, sel
  load,
  clk16, clk256,   \* the prescalers: cnt and outclk
  state, value, timer_irq_next,    \* on timerclk
  state1, timer_irq,               \* on HCLK
  owed             \* history: expiries without an interrupt yet

timer_vars == <<phase, control, load, clk16, clk256, state, value,
                timer_irq_next, state1, timer_irq, owed>>

\* sel 3 selects what sel 2 does.
Control == [enable : BOOLEAN, periodic : BOOLEAN, sel : 0 .. 2]

\* What the constants are; the program loads no less than 2.
Bounds == /\ Half \in Nat \ {0}
          /\ Top \in Nat /\ Top >= 2
          /\ Loads \subseteq 2 .. Top

\* "none": idle, a read, another slave, or the clear register, which nothing reads.
Phases == [to : {"none"}] \cup [to : {"control"}, data : Control]
                          \cup [to : {"load"}, data : Loads]

TimerInit ==
  /\ phase = [to |-> "none"]
  /\ control = [enable |-> FALSE, periodic |-> FALSE, sel |-> 0]
  /\ load = 0
  /\ clk16 = [cnt |-> 0, out |-> FALSE] /\ clk256 = [cnt |-> 0, out |-> FALSE]
  /\ state = "st_idle" /\ value = 0 /\ timer_irq_next = FALSE
  /\ state1 = "int_gen" /\ timer_irq = FALSE
  /\ owed = 0

-----------------------------------------------------------------------------
\* The write whose data phase ends.
Registers ==
  /\ control' = IF phase.to = "control" THEN phase.data ELSE control
  /\ load' = IF phase.to = "load" THEN phase.data ELSE load

\* The next one enters.  The program loads a value before it enables the timer.
Bus(p) ==
  /\ p.to = "control" => ~p.data.enable \/ load' \in Loads
  /\ phase' = p

\* A definition whose name ends in Mut is a faulty variant of the next one;
\* no specification uses it.
PrescaledMut(p) == IF p.cnt < Half - 1 THEN [p EXCEPT !.cnt = p.cnt + 1]
                   ELSE [cnt |-> 0, out |-> p.out]  \* does not toggle
\* An edge of a prescaler's own clock.
Prescaled(p) == IF p.cnt < Half - 1 THEN [p EXCEPT !.cnt = p.cnt + 1]
                ELSE [cnt |-> 0, out |-> ~p.out]

Rises(p, q) == ~p.out /\ q.out

Prescale ==
  /\ clk16' = Prescaled(clk16)
  /\ clk256' = IF Rises(clk16, clk16') THEN Prescaled(clk256) ELSE clk256

\* Whether timerclk can rise at this edge of HCLK, and whether it can stay.
MayTick == \/ control.sel = 0
           \/ control'.sel # control.sel
           \/ control.sel = 1 /\ Rises(clk16, clk16')
           \/ control.sel = 2 /\ Rises(clk256, clk256')
MayRest == control.sel # 0 /\ (control'.sel # control.sel \/ ~MayTick)

-----------------------------------------------------------------------------
\* A rising edge of timerclk that sees enable, periodic and load like this.
Start(enable, l) ==
  /\ state = "st_idle" /\ enable
  /\ value' = l /\ state' = "st_count"
  /\ UNCHANGED timer_irq_next

Expire(enable, periodic, l) ==
  /\ state = "st_count" /\ enable /\ value = 0
  /\ timer_irq_next' = TRUE
  /\ value' = IF periodic THEN l ELSE Top
  /\ UNCHANGED state

Down(enable) ==
  /\ state = "st_count" /\ enable /\ value # 0
  /\ value' = value - 1 /\ timer_irq_next' = FALSE
  /\ UNCHANGED state

Stopped == UNCHANGED <<state, value, timer_irq_next>>

\* The interrupt's state machine on HCLK.
int_gen ==
  /\ state1 = "int_gen"
  /\ IF timer_irq_next THEN timer_irq' = TRUE /\ state1' = "int_con"
                       ELSE UNCHANGED <<timer_irq, state1>>
int_con ==
  /\ state1 = "int_con" /\ state1' = "int_clr"
  /\ UNCHANGED timer_irq
int_clrMut ==  \* does not wait for the expiry to end
  /\ state1 = "int_clr" /\ timer_irq' = FALSE
  /\ state1' = "int_gen"
int_clr ==
  /\ state1 = "int_clr" /\ timer_irq' = FALSE
  /\ state1' = IF timer_irq_next THEN "int_clr" ELSE "int_gen"

Owed(expired) ==
  owed' = owed + (IF expired THEN 1 ELSE 0)
               - (IF timer_irq' /\ ~timer_irq THEN 1 ELSE 0)

\* What every edge of HCLK does beside the counter.
HclkEdge(expired) ==
  /\ Registers
  /\ Prescale
  /\ int_gen \/ int_con \/ int_clr
  /\ Owed(expired)

\* The counter is clocked, and sees each register as it was or as it will be.
Enable == {control.enable, control'.enable}
Periodic == {control.periodic, control'.periodic}
Load == {load, load'}

TickStart == /\ state = "st_idle" /\ HclkEdge(FALSE) /\ MayTick
             /\ \E e \in Enable, l \in Load : Start(e, l)
TickExpire == /\ state = "st_count" /\ value = 0 /\ HclkEdge(TRUE) /\ MayTick
              /\ \E e \in Enable, m \in Periodic, l \in Load : Expire(e, m, l)
TickDown == /\ state = "st_count" /\ value # 0 /\ HclkEdge(FALSE) /\ MayTick
            /\ \E e \in Enable : Down(e)
TickStopped == HclkEdge(FALSE) /\ MayTick /\ FALSE \in Enable /\ Stopped
NoTick == HclkEdge(FALSE) /\ MayRest /\ Stopped

TimerNext == /\ TickStart \/ TickExpire \/ TickDown \/ TickStopped \/ NoTick
        /\ \E p \in Phases : Bus(p)

TimerSpec == TimerInit /\ [][TimerNext]_timer_vars
TimerFairSpec == TimerSpec /\ WF_timer_vars(TimerNext)  \* HCLK runs

-----------------------------------------------------------------------------
TimerTypeOK ==
  /\ phase \in Phases /\ control \in Control /\ load \in Loads \cup {0}
  /\ clk16 \in [cnt : 0 .. Half - 1, out : BOOLEAN]
  /\ clk256 \in [cnt : 0 .. Half - 1, out : BOOLEAN]
  /\ state \in {"st_idle", "st_count"} /\ value \in 0 .. Top
  /\ timer_irq_next \in BOOLEAN
  /\ state1 \in {"int_gen", "int_con", "int_clr"} /\ timer_irq \in BOOLEAN
  /\ owed \in Int

\* Every expiry makes one interrupt before the next expiry, and nothing else
\* makes one, whatever is written to the timer on the way (AHBTIMER.v:191).
OneInterruptEach == owed \in {0, 1}

\* A timer that is enabled and left alone interrupts again and again.
InterruptsRecur ==
  <>[](control.enable /\ phase.to # "control") => []<>timer_irq
=============================================================================
