----------------------------- MODULE MCCrossings -----------------------------
(***************************************************************************)
(* What crosses between clocks, one of three clocked: the dual-clock FIFO  *)
(* on pointers (AsyncFifo); the same on Gray words, where one data value   *)
(* will do and the RAM is larger (GrayFifo); the timer, whose counter and  *)
(* interrupt are on two clocks (AhbTimer).  The others rest as they were   *)
(* reset.                                                                  *)
(***************************************************************************)
EXTENDS AsyncFifo, AhbTimer

CONSTANT AddrWidth

VARIABLES part, g_ram, g_wptr, g_rptr, rg1, rg2, wg1, wg2, g_dout

Words == INSTANCE GrayFifo WITH
  Data <- {Zero}, ram <- g_ram, wptr <- g_wptr, rptr <- g_rptr, dout <- g_dout

gray == <<g_ram, g_wptr, g_rptr, rg1, rg2, wg1, wg2, g_dout>>

MCInit == /\ part \in {"pointers", "words", "timer"}
          /\ Init /\ Words!Init /\ TimerInit

OnPointers(A) == part = "pointers" /\ A /\ UNCHANGED <<part, gray, timer_vars>>
OnWords == part = "words" /\ Words!Next /\ UNCHANGED <<part, vars, timer_vars>>
OnTimer == part = "timer" /\ TimerNext /\ UNCHANGED <<part, vars, gray>>

MCNext == OnPointers(Next) \/ OnWords \/ OnTimer

MCSpec ==
  /\ MCInit /\ [][MCNext]_<<part, vars, gray, timer_vars>>
  \* AsyncFifo's Fairness
  /\ WF_vars(OnPointers(\E en \in BOOLEAN, d \in Data : WrEdge(en, d)))
  /\ WF_vars(OnPointers(RdEdge(TRUE)))
  /\ WF_vars(OnPointers(\E en \in BOOLEAN : RdEdge(en)))
  \* AhbTimer's: HCLK runs
  /\ WF_timer_vars(OnTimer)

\* On Gray words every step is a step on pointers (GrayFifo).
ImplementsPointers == Words!ImplementsPointers
=============================================================================
