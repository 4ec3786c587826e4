--------------------------------- MODULE Sdk ---------------------------------
(***************************************************************************)
(* A program of the E203 software kit on its own on the processor: one is  *)
(* built (software/<program>), linked with the same start-up code and      *)
(* loaded.  The others' state does not exist; pc and point stand for one   *)
(* program counter.                                                        *)
(***************************************************************************)
EXTENDS Dhrystone, GpioDemo

CONSTANTS Seeds, Iterations

VARIABLES
  program,                                              \* the one that is loaded
  par, heap, mat, block, loc, sort, work, res, orig     \* CoreMark

CM == INSTANCE CoreMark

coremark == <<par, heap, mat, block, loc, sort, work, res, orig>>
demo_gpio == <<ii, reg, int_num, stack, out, rise_ip, rise_ie, mie, mtip, rested, plic, want>>
vars == <<program, pc, coremark, dhry_vars, demo_gpio>>

NoCoreMark ==
  /\ par = 0 /\ heap = 0 /\ mat = 0 /\ block = 0 /\ loc = 0
  /\ sort = 0 /\ work = 0 /\ res = 0 /\ orig = 0
NoDhrystone == point = "off" /\ g = 0 /\ rec = 0 /\ l = 0
NoDemo ==
  /\ ii = 0 /\ reg = 0 /\ int_num = 0 /\ stack = 0 /\ out = 0 /\ rise_ip = {}
  /\ rise_ie = 0 /\ mie = 0 /\ mtip = 0 /\ rested = 0 /\ plic = 0 /\ want = 0

Init ==
  \/ program = "coremark" /\ CM!Init /\ NoDhrystone /\ NoDemo
  \/ program = "dhrystone" /\ DhryInit /\ pc = "off" /\ NoCoreMark /\ NoDemo
  \/ program = "demo_gpio" /\ DemoInit /\ NoCoreMark /\ NoDhrystone

RunCoreMark == program = "coremark" /\ CM!Next /\ UNCHANGED <<program, dhry_vars, demo_gpio>>
RunDhrystone == program = "dhrystone" /\ DhryNext /\ UNCHANGED <<program, pc, coremark, demo_gpio>>
RunDemo == program = "demo_gpio" /\ DemoNext /\ UNCHANGED <<program, coremark, dhry_vars>>

\* A main that returns ends in _exit, which loops for ever.
Done == pc = "done" \/ point = "end"
Halted == Done /\ UNCHANGED vars

Next == RunCoreMark \/ RunDhrystone \/ RunDemo \/ Halted

Running == program # "demo_gpio" /\ ~Done

\* The processor does not stop.  A benchmark can always go on while it runs,
\* so that is plainly that it takes steps; in the demo the buttons and the
\* timer move too, and the processor's own steps are what must come.
Spec ==
  /\ Init /\ [][Next]_vars
  /\ []<>~Running \/ []<><<TRUE>>_vars
  /\ WF_vars(program = "demo_gpio" /\ Cpu /\ UNCHANGED <<program, coremark, dhry_vars>>)

-----------------------------------------------------------------------------
\* CoreMark's properties, stated in its module; the other programs' are
\* those of Dhrystone and GpioDemo.

\* CoreMark's results are the known ones (core_main.c).
Validated == program = "coremark" => CM!Validated
\* Each iteration leaves list, matrices and text as it found them.
BackToOriginal == program = "coremark" => CM!BackToOriginal
\* No step of a search, a removal or a merge loses a cell of the list.
NoItemLost == program = "coremark" => CM!NoItemLost
\* The sort leaves the list in order.
InOrder == program = "coremark" => CM!InOrder
\* Both benchmarks come to their end: no sort, search or scan goes on for
\* ever, and Proc_2's loop ends.
Finishes == program # "demo_gpio" ~> Done
=============================================================================
