------------------------- MODULE MCTakeoverHistory -------------------------
(***************************************************************************)
(* Instance of TakeoverHistory for TLC: two route tables with a rule each. *)
(***************************************************************************)
EXTENDS TakeoverHistory

TwoTables == [i \in Rule |-> i]
NoPublicIp == {}
NobodyDry == {{}}
Ours == {"primary"}
NoEdits == {}
=============================================================================
