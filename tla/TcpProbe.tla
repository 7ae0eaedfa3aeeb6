------------------------------ MODULE TcpProbe ------------------------------
(***************************************************************************)
(* tcp_probe: one call tries the addresses one after the other, while      *)
(* hosts go up and down between two connections.                           *)
(***************************************************************************)
EXTENDS ProbeCounter, Sequences

CONSTANTS
    Hosts,          \* addresses that may be probed
    AddressLists,   \* lists the callers pass; get_instance_ip_addresses
                    \* returns <<>> when an OCI call fails
    ProbeMaxFail,   \* config.probe_max_fail
    MaxStreak       \* bound: probes in a row without an answer

ASSUME TcpProbeAssumption ==
    /\ AddressLists \subseteq Seq(Hosts)
    /\ ProbeMaxFail \in Nat
    /\ MaxStreak \in Nat

VARIABLES
    up,         \* hosts that accept a connection now
    steady,     \* hosts that always do
    bindsSource,\* the caller gives a source_ip
    list,       \* ip_addresses of the current call
    pos,        \* next address to try; 0 when no call is running
    count,      \* ctx.probe_fail_count
    alive,      \* result of the last call
    streak      \* history: calls in a row that nothing answered

network == <<up, steady, bindsSource>>
vars == <<network, list, pos, count, alive, streak>>

Init ==
    /\ steady \in SUBSET Hosts
    /\ up = Hosts
    /\ bindsSource \in BOOLEAN
    /\ list = <<>>
    /\ pos = 0
    /\ count = 0
    /\ alive = TRUE
    /\ streak = 0

Call(addresses) ==
    /\ pos = 0
    /\ streak < MaxStreak
    /\ list' = addresses
    /\ pos' = 1
    /\ UNCHANGED <<network, count, alive, streak>>

\* The call returns with the count and the result that follow from the outcome.
Finish(connected) ==
    /\ count' = CountAfter(count, ProbeMaxFail, connected)
    /\ alive' = ~ProbeFails(count, ProbeMaxFail, connected)
    /\ streak' = IF connected THEN 0 ELSE streak + 1
    /\ pos' = 0
    /\ UNCHANGED <<network, list>>

Trying == pos \in DOMAIN list

\* Binding the source address fails: the remaining addresses are not tried.
BindFails == Trying /\ bindsSource /\ Finish(FALSE)

Connects == Trying /\ list[pos] \in up /\ Finish(TRUE)

Refused ==
    /\ Trying
    /\ list[pos] \notin up
    /\ pos' = pos + 1
    /\ UNCHANGED <<network, list, count, alive, streak>>

Exhausted == pos = Len(list) + 1 /\ Finish(FALSE)

\* Mutant: a refused connection ends the loop.
Probe_FirstAddressOnly ==
    \/ \E addresses \in AddressLists : Call(addresses)
    \/ Connects
    \/ Trying /\ list[pos] \notin up /\ Finish(FALSE)
    \/ Exhausted

Probe ==
    \/ \E addresses \in AddressLists : Call(addresses)
    \/ BindFails \/ Connects \/ Refused \/ Exhausted

HostsChange ==
    /\ \E hosts \in SUBSET Hosts : steady \subseteq hosts /\ up' = hosts
    /\ UNCHANGED <<steady, bindsSource, list, pos, count, alive, streak>>

Next == Probe \/ HostsChange

Spec == Init /\ [][Next]_vars

-----------------------------------------------------------------------------
TypeOK ==
    /\ up \in SUBSET Hosts /\ steady \in SUBSET Hosts
    /\ bindsSource \in BOOLEAN
    /\ list \in Seq(Hosts)
    /\ pos \in 0..Len(list) + 1
    /\ count \in 0..ProbeMaxFail
    /\ alive \in BOOLEAN
    /\ streak \in Nat

\* A call whose list has a host that always answers is answered, wherever the
\* host stands in the list, unless the source address cannot be bound.
SteadyHostAnswers ==
    [][streak' > streak =>
         bindsSource \/ \A i \in DOMAIN list : list[i] \notin steady]_vars

\* tcp_probe keeps the promise: the count, which starts anew at every report,
\* makes the reports come at every (ProbeMaxFail + 1)-th unanswered probe.
Detector == INSTANCE FailureDetector
    WITH MaxFail <- ProbeMaxFail, due <- (streak - count) + ProbeMaxFail + 1

KeepsPromise == Detector!DetectorSpec

\* The comment in secondary_main_loop_handler ("fails 10 times in a row", 10
\* being the default of probe_max_fail) and the docstring of tcp_probe: the
\* probe fails once the number of max consecutive failures is reached.
FailsAtMaxFail == ProbeMaxFail > 0 /\ pos = 0 /\ streak = ProbeMaxFail => ~alive
=============================================================================
