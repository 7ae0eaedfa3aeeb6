----------------------------- MODULE MCOciClient -----------------------------
(***************************************************************************)
(* An instance of OciClient for TLC.                                       *)
(***************************************************************************)
EXTENDS OciClient

TwoValues == {"v1", "v2"}
TwoSessions == {"k1", "k2"}
=============================================================================
