--------------------------- MODULE TcpProbeProofs ---------------------------
(***************************************************************************)
(* tcp_probe implements the failure detector, for every probe_max_fail,    *)
(* every list of addresses and every history of the network.               *)
(***************************************************************************)
EXTENDS TcpProbe, TLAPS

\* The count never runs ahead of the streak, and no host that always answers
\* has been passed over in the current call.
ProbeInv ==
    /\ TypeOK
    /\ count <= streak
    /\ steady \subseteq up
    /\ \A i \in DOMAIN list : i < pos => list[i] \notin steady

LEMMA ProbeInvInit == Init => ProbeInv
  BY TcpProbeAssumption DEF Init, ProbeInv, TypeOK

LEMMA FinishKeeps ==
  ASSUME ProbeInv, NEW connected \in BOOLEAN, Finish(connected)
  PROVE  ProbeInv'
  <1>1. count \in Nat /\ streak \in Nat /\ count <= streak /\ count <= ProbeMaxFail
        /\ ProbeMaxFail \in Nat
    BY TcpProbeAssumption DEF ProbeInv, TypeOK
  <1>2. count' \in 0..ProbeMaxFail /\ streak' \in Nat /\ count' <= streak'
    BY <1>1 DEF Finish, CountAfter
  <1>3. alive' \in BOOLEAN
    BY DEF Finish
  <1>4. pos' = 0 /\ list' = list /\ UNCHANGED network
    BY DEF Finish
  <1>5. pos' \in 0..Len(list') + 1
    BY <1>4 DEF ProbeInv, TypeOK
  <1> QED
    BY <1>2, <1>3, <1>4, <1>5 DEF ProbeInv, TypeOK, network

LEMMA ProbeInvStep == ASSUME ProbeInv, [Next]_vars PROVE ProbeInv'
  <1>1. ASSUME NEW addresses \in AddressLists, Call(addresses) PROVE ProbeInv'
    <2>1. addresses \in Seq(Hosts)
      BY TcpProbeAssumption
    <2> QED
      BY <1>1, <2>1 DEF Call, ProbeInv, TypeOK, network
  <1>2. CASE BindFails \/ Connects \/ Exhausted
    BY <1>2, FinishKeeps DEF BindFails, Connects, Exhausted
  <1>3. CASE Refused
    BY <1>3 DEF Refused, Trying, ProbeInv, TypeOK, network
  <1>4. CASE HostsChange
    BY <1>4 DEF HostsChange, ProbeInv, TypeOK
  <1>5. CASE UNCHANGED vars
    BY <1>5 DEF vars, network, ProbeInv, TypeOK
  <1> QED
    BY <1>1, <1>2, <1>3, <1>4, <1>5 DEF Next, Probe

LEMMA ProbeInvariant == Spec => []ProbeInv
  BY ProbeInvInit, ProbeInvStep, PTL DEF Spec

\* Every variable keeps its type: probe_fail_count never exceeds probe_max_fail,
\* whatever the hosts do during a call.
THEOREM TypeCorrect == Spec => []TypeOK
  BY ProbeInvariant, PTL DEF ProbeInv

\* A list with a host that always answers never counts as a failure, wherever
\* the host stands in the list, unless the source address cannot be bound.
THEOREM SteadyHostAnswersHolds == Spec => SteadyHostAnswers
  <1>1. ASSUME ProbeInv, [Next]_vars
        PROVE  [streak' > streak =>
                  bindsSource \/ \A i \in DOMAIN list : list[i] \notin steady]_vars
    <2> SUFFICES ASSUME streak' > streak, ~bindsSource, NEW i \in DOMAIN list
                 PROVE  list[i] \notin steady
      OBVIOUS
    <2>1. streak \in Nat
      BY <1>1 DEF ProbeInv, TypeOK
    <2>2. ~Connects
      <3> SUFFICES ASSUME Connects PROVE FALSE
        OBVIOUS
      <3>1. streak' = 0
        BY DEF Connects, Finish
      <3> QED
        BY <2>1, <3>1
    <2>3. ~BindFails
      BY DEF BindFails
    <2>4. streak' # streak
      BY <2>1
    <2>5. Exhausted
      BY <1>1, <2>2, <2>3, <2>4 DEF Next, Probe, Call, Refused, HostsChange, vars
    <2> QED
      BY <1>1, <2>5 DEF Exhausted, ProbeInv, TypeOK
  <1> QED
    BY <1>1, ProbeInvariant, PTL DEF Spec, SteadyHostAnswers

\* tcp_probe reports the peer as down at every (probe_max_fail + 1)-th probe in
\* a row that nothing answers and at no other: each call implements one step of
\* the detector, when it returns.
THEOREM ProbeImplementsDetector == Spec => KeepsPromise
  <1>1. Init => Detector!DetectorInit
    BY TcpProbeAssumption DEF Init, Detector!DetectorInit
  <1>2. ASSUME ProbeInv, NEW connected \in BOOLEAN, Finish(connected)
        PROVE  Detector!Answered \/ Detector!Missed
    <2>1. /\ count \in Nat /\ streak \in Nat /\ ProbeMaxFail \in Nat
          /\ count <= streak /\ count <= ProbeMaxFail
      BY <1>2, TcpProbeAssumption DEF ProbeInv, TypeOK
    <2>2. CASE connected
      <3>1. streak' = 0 /\ count' = 0 /\ alive' = TRUE
        BY <1>2, <2>2 DEF Finish, CountAfter, ProbeFails
      <3>2. (streak' - count') + ProbeMaxFail + 1 = ProbeMaxFail + 1
        BY <2>1, <3>1
      <3> QED
        BY <3>1, <3>2 DEF Detector!Answered
    <2>3. CASE ~connected /\ count < ProbeMaxFail
      <3>0. connected = FALSE /\ (count >= ProbeMaxFail) = FALSE
        BY <2>1, <2>3
      <3>1. streak' = streak + 1 /\ count' = count + 1 /\ alive' = TRUE
        BY <1>2, <3>0 DEF Finish, CountAfter, ProbeFails
      <3>2. streak + 1 # (streak - count) + ProbeMaxFail + 1
        BY <2>1, <2>3
      <3>3. (streak' - count') + ProbeMaxFail + 1 = (streak - count) + ProbeMaxFail + 1
        BY <2>1, <3>1
      <3> QED
        BY <3>1, <3>2, <3>3 DEF Detector!Missed
    <2>4. CASE ~connected /\ count >= ProbeMaxFail
      <3>1. streak' = streak + 1 /\ count' = 0 /\ alive' = FALSE
        BY <1>2, <2>1, <2>4 DEF Finish, CountAfter, ProbeFails
      <3>2. streak + 1 = (streak - count) + ProbeMaxFail + 1
        BY <2>1, <2>4
      <3>3. (streak' - count') + ProbeMaxFail + 1
              = ((streak - count) + ProbeMaxFail + 1) + ProbeMaxFail + 1
        BY <2>1, <2>4, <3>1
      <3> QED
        BY <3>1, <3>2, <3>3 DEF Detector!Missed
    <2> QED
      BY <2>1, <2>2, <2>3, <2>4
  <1>3. ASSUME ProbeInv, [Next]_vars
        PROVE  [Detector!Answered \/ Detector!Missed]_(Detector!dvars)
    <2>1. CASE BindFails \/ Connects \/ Exhausted
      BY <1>2, <1>3, <2>1 DEF BindFails, Connects, Exhausted
    <2>2. CASE ~(BindFails \/ Connects \/ Exhausted)
      BY <1>3, <2>2 DEF Next, Probe, Call, Refused, HostsChange, vars, Detector!dvars
    <2> QED
      BY <2>1, <2>2
  <1> QED
    BY <1>1, <1>3, ProbeInvariant, PTL DEF Spec, KeepsPromise, Detector!DetectorSpec
=============================================================================
