----------------------------- MODULE MCTcpProbe -----------------------------
(***************************************************************************)
(* Instance of TcpProbe for TLC.                                           *)
(***************************************************************************)
EXTENDS TcpProbe

CONSTANTS a, b

TwoHosts == {a, b}
ListsOrNothing == {<<>>, <<a>>, <<a, b>>}
=============================================================================
