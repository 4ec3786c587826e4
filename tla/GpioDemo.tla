------------------------------ MODULE GpioDemo ------------------------------
(***************************************************************************)
(* demo_gpio.c on the E203: main sets up the buttons' interrupts and then  *)
(* inverts a pin for ever with an atomic instruction, while the handlers   *)
(* of the buttons and the timer set LEDs in the same register.  One step   *)
(* is one clock; the processor does one access in it, or none.             *)
(***************************************************************************)
EXTENDS Plic, Sequences

CONSTANTS
  Buttons,    \* the buttons that get pressed, of 0, 1 and 2
  Crowd       \* how many of them may be in service at once

\* A definition whose name ends in Mut is a faulty variant of the next one;
\* no specification uses it.

VARIABLES
  pc,         \* the next access of main or of the handler
  ii,         \* the button main is setting up
  reg,        \* GPIO_OUTPUT_VAL as a handler (or a faulty main) has loaded it
  int_num,    \* the source claimed
  stack,      \* what traps have interrupted: pc and registers
  out,        \* GPIO_OUTPUT_VAL: the pin and the LEDs
  rise_ip, rise_ie,   \* GPIO_RISE_IP, GPIO_RISE_IE, by button
  mie,        \* which interrupts mie enables; "all" is mstatus.MIE
  mtip,       \* mtime has reached mtimecmp
  rested,     \* main has run since mtimecmp was written
  plic,
  want        \* history: what the updates of GPIO_OUTPUT_VAL amount to

cpu == <<pc, ii, reg, int_num, stack, mie>>
demo_vars == <<cpu, out, rise_ip, rise_ie, mtip, rested, plic, want>>

Src == [b \in 0 .. 2 |-> CASE b = 0 -> 23 [] b = 1 -> 38 [] b = 2 -> 39]
Led == [b \in 0 .. 2 |-> CASE b = 0 -> "red" [] b = 1 -> "green" [] b = 2 -> "blue"]
Xor(s, bit) == IF bit \in s THEN s \ {bit} ELSE s \cup {bit}

DemoInit ==
  /\ pc = "init" /\ ii = 0 /\ reg = {} /\ int_num = 0 /\ stack = <<>>
  /\ out = {} /\ rise_ip = {} /\ rise_ie = {}
  /\ mie = {} /\ mtip \in BOOLEAN /\ rested = FALSE
  /\ plic = PlicInit
  /\ want = {}

-----------------------------------------------------------------------------
\* What a clock does besides the processor: buttons rise, the controller p
\* takes an edge with access a, and a write of one bits clears rise_ip.
Busy == {b \in Buttons : b \in rise_ip \/ Src[b] \in plic.irq \cup plic.pend \cup plic.inFlight}
Presses == {bs \in SUBSET Buttons : bs = {} \/ Cardinality(Busy \cup bs) <= Crowd}

Clock(p, a, cleared) ==
  /\ \E bs \in Presses : rise_ip' = (rise_ip \ cleared) \cup bs
  /\ plic' = PlicEdge(p, {Src[b] : b \in rise_ip \cap rise_ie}, a)

\* The two seconds pass at any time, but not before main has run again.
Timer == mtip' \in {mtip, mtip \/ rested}

Edge(a) == Clock(plic, a, {}) /\ Timer
Goes(from, to) == pc = from /\ pc' = to

Wait ==
  /\ Edge(NoAccess)
  /\ UNCHANGED <<cpu, out, rise_ie, rested, want>>

-----------------------------------------------------------------------------
\* main up to the loop: the driver's calls, each for button after button.
Quiet == UNCHANGED <<reg, int_num, stack, out, want>>
ForEach(at, then) ==
  /\ pc = at
  /\ IF ii = 2 THEN ii' = 0 /\ pc' = then ELSE ii' = ii + 1 /\ UNCHANGED pc

SetUpPlic ==
  /\ Goes("init", "enable")
  /\ Clock(PLIC_init(plic), Other, {}) /\ Timer
  /\ Quiet /\ UNCHANGED <<ii, rise_ie, mie, rested>>

EnableSource ==
  /\ ForEach("enable", "priority")
  /\ Clock(PLIC_enable_interrupt(plic, Src[ii]), Other, {}) /\ Timer
  /\ Quiet /\ UNCHANGED <<rise_ie, mie, rested>>

SetPriority ==
  /\ ForEach("priority", "rise")
  /\ Clock(PLIC_set_priority(plic, Src[ii]), Other, {}) /\ Timer
  /\ Quiet /\ UNCHANGED <<rise_ie, mie, rested>>

EnableRise ==
  /\ ForEach("rise", "timer")
  /\ rise_ie' = rise_ie \cup {ii}
  /\ Edge(NoAccess) /\ Quiet /\ UNCHANGED <<mie, rested>>

SetTimer ==
  /\ Goes("timer", "loop")
  /\ mtip' = FALSE /\ rested' = FALSE
  /\ mie' = {"ext", "timer", "all"}
  /\ Clock(plic, NoAccess, {}) /\ Quiet /\ UNCHANGED <<ii, rise_ie>>

-----------------------------------------------------------------------------
\* The processor takes an enabled interrupt before the next instruction,
\* the timer's first.
TimerDue == {"all", "timer"} \subseteq mie /\ mtip
ExtDue == {"all", "ext"} \subseteq mie /\ plic.req

BangMut ==                       \* without the A extension: load, then store
  /\ ~TimerDue /\ ~ExtDue
  /\ \/ Goes("loop", "bang") /\ reg' = out /\ UNCHANGED <<out, want>>
     \/ Goes("bang", "loop") /\ out' = Xor(reg, "pin") /\ want' = Xor(want, "pin") /\ UNCHANGED reg
  /\ rested' = TRUE
  /\ Edge(NoAccess) /\ UNCHANGED <<ii, stack, int_num, rise_ie, mie>>

Bang ==
  /\ Goes("loop", "loop") /\ ~TimerDue /\ ~ExtDue
  /\ out' = Xor(out, "pin") /\ want' = Xor(want, "pin")
  /\ rested' = TRUE
  /\ Edge(NoAccess) /\ UNCHANGED <<ii, stack, reg, int_num, rise_ie, mie>>

Trap ==
  /\ TimerDue \/ ExtDue
  /\ stack' = <<[pc |-> pc, reg |-> reg, int_num |-> int_num]>> \o stack
  /\ pc' = IF TimerDue THEN "mtimecmp" ELSE "claim"
  /\ mie' = mie \ {"all"}
  /\ Edge(NoAccess) /\ UNCHANGED <<ii, reg, int_num, out, want, rise_ie, rested>>

\* The end of trap_entry, mret included.
Return ==
  /\ pc = "mret"
  /\ pc' = Head(stack).pc /\ reg' = Head(stack).reg /\ int_num' = Head(stack).int_num
  /\ stack' = Tail(stack)
  /\ mie' = mie \cup {"all"}
  /\ Edge(NoAccess) /\ UNCHANGED <<ii, out, want, rise_ie, rested>>

-----------------------------------------------------------------------------
\* handle_m_ext_interrupt and the buttons' handlers.
Handled(s) == {b \in 0 .. 2 : Src[b] = s}

ClaimSourceMut ==                \* PLIC_NUM_INTERRUPTS without the last input
  /\ pc = "claim"
  /\ int_num' = plic.id
  /\ pc' = IF plic.id \notin 1 .. 38 THEN "exit" ELSE IF Handled(plic.id) = {} THEN "complete" ELSE "load"
  /\ Edge(Claim) /\ UNCHANGED <<ii, stack, reg, out, want, rise_ie, mie, rested>>

\* int_num < PLIC_NUM_INTERRUPTS, which is 52
ClaimSource ==
  /\ pc = "claim"
  /\ int_num' = plic.id
  /\ pc' = IF plic.id \notin 1 .. 51 THEN "exit" ELSE IF Handled(plic.id) = {} THEN "complete" ELSE "load"
  /\ Edge(Claim) /\ UNCHANGED <<ii, stack, reg, out, want, rise_ie, mie, rested>>

LoadLeds ==
  /\ Goes("load", "store") /\ reg' = out
  /\ Edge(NoAccess) /\ UNCHANGED <<ii, stack, int_num, out, want, rise_ie, mie, rested>>

SetLed ==
  /\ Goes("store", "clear")
  /\ \E b \in Handled(int_num) : out' = reg \cup {Led[b]} /\ want' = want \cup {Led[b]}
  /\ Edge(NoAccess) /\ UNCHANGED <<ii, stack, reg, int_num, rise_ie, mie, rested>>

\* The handler's return takes longer than the cleared bit needs to the
\* gateway.
ClearRise ==
  /\ Goes("clear", "back")
  /\ Clock(plic, NoAccess, Handled(int_num)) /\ Timer
  /\ Quiet /\ UNCHANGED <<ii, rise_ie, mie, rested>>

Back ==
  /\ Goes("back", "complete")
  /\ Edge(NoAccess) /\ Quiet /\ UNCHANGED <<ii, rise_ie, mie, rested>>

CompleteMut ==                   \* completes the source of the last button
  /\ Goes("complete", "mret")
  /\ Edge(Complete(Src[1])) /\ Quiet /\ UNCHANGED <<ii, rise_ie, mie, rested>>

CompleteSource ==
  /\ Goes("complete", "mret")
  /\ Edge(Complete(int_num)) /\ Quiet /\ UNCHANGED <<ii, rise_ie, mie, rested>>

-----------------------------------------------------------------------------
\* handle_m_time_interrupt.
Rearm ==
  /\ Goes("mtimecmp", "leds")
  /\ mie' = mie \ {"timer"}
  /\ mtip' = FALSE /\ rested' = FALSE
  /\ Clock(plic, NoAccess, {}) /\ Quiet /\ UNCHANGED <<ii, rise_ie>>

LoadForBlink ==
  /\ Goes("leds", "blink") /\ reg' = out
  /\ Edge(NoAccess) /\ UNCHANGED <<ii, stack, int_num, out, want, rise_ie, mie, rested>>

Blink ==
  /\ Goes("blink", "mret")
  /\ out' = Xor(reg, "blue") /\ want' = Xor(want, "blue")
  /\ mie' = mie \cup {"timer"}
  /\ Edge(NoAccess) /\ UNCHANGED <<ii, stack, reg, int_num, rise_ie, rested>>

Cpu ==
  \/ SetUpPlic \/ EnableSource \/ SetPriority \/ EnableRise \/ SetTimer
  \/ Bang \/ Trap \/ Return
  \/ ClaimSource \/ LoadLeds \/ SetLed \/ ClearRise \/ Back \/ CompleteSource
  \/ Rearm \/ LoadForBlink \/ Blink

DemoNext == Cpu \/ Wait

\* The processor is never stopped for ever.
DemoSpec == DemoInit /\ [][DemoNext]_demo_vars /\ WF_demo_vars(Cpu)

-----------------------------------------------------------------------------
\* No write to GPIO_OUTPUT_VAL undoes another's: neither main's inversion a
\* handler's LED, nor a handler's store an inversion it did not load.
NoUpdateLost == out = want

\* No interrupt ends the program: a claim always gives a source that has a
\* handler, although the request lags behind the pending bits.
NeverExits == pc # "exit"

\* Every press, one before the set-up too, is answered by its own handler,
\* although the controller clears pending bits one access late.
PressesServed == \A b \in Buttons : b \in rise_ip ~> pc = "clear" /\ int_num = Src[b]

\* "Have to enable the interrupt both at the GPIO level, and at the PLIC
\* level": once main runs its loop it has.
EnabledAtBothLevels ==
  "all" \in mie => \A b \in Buttons : b \in rise_ie /\ Src[b] \in plic.enab

\* "The IRQ pend is cleared when the interrupt is claimed": with main back
\* in its loop, a source whose gateway is shut is still to be claimed.
GatewaysReopen == pc = "loop" => plic.inFlight \subseteq plic.pend
=============================================================================
