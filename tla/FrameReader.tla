------------------------------ MODULE FrameReader ------------------------------
(***************************************************************************)
(* The reader of all chains' FIFOs                                         *)
(* (ADC_MODULE/read_fifo_to_external_module.v) as a record, and what one   *)
(* rd_clk edge makes of it.  hot is the chain adc_chain_one_hot selects, 0 *)
(* for none: that chain's FIFO is strobed.  Of a chain's diff_time only    *)
(* whether it is 0 is kept.                                                *)
(***************************************************************************)
EXTENDS Integers, Sequences

CONSTANT M   \* ADC_Daisy_chain_M
ASSUME MAssumption == M \in 1 .. 8

\* A definition whose name ends in Mut is a faulty variant of the next one;
\* no specification uses it.

Chains == 1 .. M
Low == [c \in Chains |-> FALSE]

\* finish and addT reset so that one stamp leaves after reset.
ReaderInit == [s0 |-> Low, s1 |-> Low, s2 |-> Low, cnt |-> [c \in Chains |-> 0],
               fin |-> Low, timed |-> Low, start |-> FALSE, start0 |-> FALSE,
               finish |-> TRUE, finish0 |-> FALSE, hot |-> 0, or0 |-> FALSE,
               words |-> 0, dep |-> 0, addT |-> M, valid |-> FALSE, out |-> <<>>]

\* sync_adc_frame_flag_hp, adc_fifo_module_frame_finish_flag_hp
Flagged(r, c) == r.s1[c] /\ ~r.s2[c]
Finished(r) == r.finish /\ ~r.finish0

\* The selected chain's word count; a latch holds the last one (words).
WordCount(r) == IF r.hot = 0 THEN r.words ELSE r.cnt[r.hot] \div 4

Fin(r, c) == IF Flagged(r, c) /\ r.finish THEN TRUE ELSE r.fin[c] /\ ~r.start

Start(r) == IF \A c \in Chains : r.fin[c] THEN TRUE ELSE r.start /\ r.hot # 0

Hot(r) ==
  IF r.start /\ ~r.start0 THEN 1
  ELSE IF r.dep = WordCount(r) THEN (IF r.hot \in {0, M} THEN 0 ELSE r.hot + 1)
  ELSE IF Finished(r) THEN 0 ELSE r.hot

\* The output half: words while a chain is selected, then the time stamps.
\* valid and dout are the selected FIFO's; what a latch holds of them when
\* none is selected is not valid.
OutDepMut(r, valid, dout) == \* dep kept from one chain to the next
  IF r.or0
    THEN LET take == r.dep < WordCount(r) /\ valid
         IN  [r EXCEPT !.addT = 0, !.finish = FALSE,
                       !.dep = IF take THEN r.dep + 1 ELSE r.dep, !.valid = take, !.out = dout]
  ELSE IF r.addT <= M
    THEN [r EXCEPT !.addT = r.addT + 1, !.valid = r.addT > 0,
                   !.out = IF r.addT > 0 THEN <<"time", r.addT>> ELSE r.out]
  ELSE [r EXCEPT !.finish = TRUE, !.valid = FALSE]

OutMut(r, valid, dout) == \* no finish at the start
  IF r.or0
    THEN LET take == r.dep < WordCount(r) /\ valid
         IN  [r EXCEPT !.addT = 0,
                       !.dep = IF take THEN r.dep + 1 ELSE 0, !.valid = take, !.out = dout]
  ELSE IF r.addT <= M
    THEN [r EXCEPT !.addT = r.addT + 1, !.valid = r.addT > 0,
                   !.out = IF r.addT > 0 THEN <<"time", r.addT>> ELSE r.out]
  ELSE [r EXCEPT !.finish = TRUE, !.valid = FALSE]

Out(r, valid, dout) ==
  IF r.or0
    THEN LET take == r.dep < WordCount(r) /\ valid
         IN  [r EXCEPT !.addT = 0, !.finish = FALSE,
                       !.dep = IF take THEN r.dep + 1 ELSE 0, !.valid = take, !.out = dout]
  ELSE IF r.addT <= M
    THEN [r EXCEPT !.addT = r.addT + 1, !.valid = r.addT > 0,
                   !.out = IF r.addT > 0 THEN <<"time", r.addT>> ELSE r.out]
  ELSE [r EXCEPT !.finish = TRUE, !.valid = FALSE]

\* flag, count: the chains' outputs as this edge finds them.
ReaderEdge(r, flag, count, valid, dout) ==
  [Out(r, valid, dout) EXCEPT
     !.s0 = flag, !.s1 = r.s0, !.s2 = r.s1,
     !.cnt = [c \in Chains |-> IF Flagged(r, c) /\ ~r.timed[c] THEN count[c] ELSE r.cnt[c]],
     !.fin = [c \in Chains |-> Fin(r, c)],
     !.timed = [c \in Chains |-> IF r.fin[c] THEN TRUE ELSE r.timed[c] /\ ~Finished(r)],
     !.start = Start(r), !.start0 = r.start, !.finish0 = r.finish,
     !.hot = Hot(r), !.or0 = r.hot # 0, !.words = WordCount(r)]
=============================================================================
