--------------------------- MODULE MCPublicIpMove ---------------------------
(***************************************************************************)
(* An instance of PublicIpMove for TLC.  Its one rule is not of the pair,  *)
(* so what moves is the public IP.                                         *)
(***************************************************************************)
EXTENDS PublicIpMove

OneTable == [i \in Rule |-> 1]
OnePublicIp == {"wan"}
PrimaryMayBeDry == {{}, {"primary"}}
Foreign == {"other"}
NoEdits == {}
AnyOther == {"none", "ephemeral", "reserved"}
=============================================================================
