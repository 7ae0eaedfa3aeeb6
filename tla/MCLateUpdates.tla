--------------------------- MODULE MCLateUpdates ---------------------------
(***************************************************************************)
(* Instances of LateUpdates for TLC.                                       *)
(***************************************************************************)
EXTENDS LateUpdates

OneTable == [i \in Rule |-> 1]
OnePublicIp == {"wan"}
NobodyDry == {{}}
Ours == {"primary"}
NoEdits == {}
=============================================================================
