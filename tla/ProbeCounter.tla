---------------------------- MODULE ProbeCounter ----------------------------
(***************************************************************************)
(* What one call of tcp_probe does with ctx.probe_fail_count once it knows *)
(* whether any address accepted a connection.  Shared by TcpProbe, which   *)
(* models the loop over the addresses, and HAPair, where one probe is one  *)
(* step.                                                                   *)
(***************************************************************************)
EXTENDS Naturals

\* Mutant: the failure is reported one probe too early.
ProbeFails_OneEarly(count, maxFail, connected) == ~connected /\ count + 1 >= maxFail

\* tcp_probe returns False: nothing answered and the count was already full.
ProbeFails(count, maxFail, connected) == ~connected /\ count >= maxFail

\* Mutant: the count is not cleared when the failure is reported.
CountAfter_NoReset(count, maxFail, connected) == IF connected THEN 0 ELSE count + 1

\* ctx.probe_fail_count afterwards: a success and a reported failure both
\* start a new count, any other failure adds one to it.
CountAfter(count, maxFail, connected) ==
    IF connected \/ count >= maxFail THEN 0 ELSE count + 1
=============================================================================
