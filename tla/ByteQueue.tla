------------------------------ MODULE ByteQueue ------------------------------
(***************************************************************************)
(* What the width-converting FIFO between an ADC chain and the external    *)
(* reader promises: a bounded queue of bytes.  Bytes enter one at a time,  *)
(* leave Lanes at a time, in order, none lost, none duplicated, none       *)
(* invented.  The two ports have clocks of their own, so one step may be   *)
(* a put, a get, or both at once.                                          *)
(***************************************************************************)
EXTENDS Integers, Sequences

CONSTANTS Data, Depth, Lanes

VARIABLES q,     \* the bytes written and not yet read, oldest first
          word   \* what the read port shows: a word, or the empty sequence

Init == q = <<>> /\ word = <<>>

\* The queue after taking one word from its head.
Rest(s) == SubSeq(s, Lanes + 1, Len(s))

Put(d) == /\ Len(q) < Depth
          /\ q' = Append(q, d)
          /\ UNCHANGED word

Get == /\ Len(q) >= Lanes
       /\ word' = SubSeq(q, 1, Lanes)
       /\ q' = Rest(q)

\* The read port goes quiet: the word was shown for one cycle only.
Quiet == word' = <<>> /\ UNCHANGED q

PutGet(d) == /\ Lanes <= Len(q) /\ Len(q) < Depth
             /\ word' = SubSeq(q, 1, Lanes)
             /\ q' = Append(Rest(q), d)

PutQuiet(d) == /\ Len(q) < Depth
               /\ q' = Append(q, d)
               /\ word' = <<>>

Next == \/ Get
        \/ Quiet
        \/ \E d \in Data : Put(d) \/ PutGet(d) \/ PutQuiet(d)

vars == <<q, word>>
Spec == Init /\ [][Next]_vars
=============================================================================
