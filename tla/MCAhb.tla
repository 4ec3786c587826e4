-------------------------------- MODULE MCAhb --------------------------------
(***************************************************************************)
(* The bus and its slave that stalls, one of the two clocked: the UART     *)
(* slave (AhbUart), or decoder, multiplexer and memories (AhbFabric).  The *)
(* other rests as it was reset.                                            *)
(***************************************************************************)
EXTENDS AhbUart, AhbFabric, Functions

VARIABLE on_fabric

\* A part that rests has its data fixed, so that the other's states are not multiplied.
Rest ==
  /\ on_fabric => \A d \in {hwdata, shift} \cup Range(tx.arr) \cup Range(rx.arr) :
                   d = CHOOSE e \in Data : TRUE
  /\ ~on_fabric => /\ HWDATA = words["mem"]
                   /\ HWDATA = CHOOSE w \in DataWords : TRUE

OnUart(A) == ~on_fabric /\ A /\ UNCHANGED <<on_fabric, fabric_vars>>
OnFabric == on_fabric /\ FabricNext /\ UNCHANGED <<on_fabric, vars>>

MCInit == on_fabric \in BOOLEAN /\ Init /\ FabricInit /\ Rest

MCNext == OnUart(Next) \/ OnFabric

MCSpec == /\ MCInit /\ [][MCNext]_<<on_fabric, vars, fabric_vars>>
          /\ WF_vars(OnUart(Next)) /\ WF_vars(OnUart(Sends))   \* of AhbUart
=============================================================================
