------------------------- MODULE PublicIpMoveProofs -------------------------
(***************************************************************************)
(* A move in its calls is what HAPair takes it for, so what is proved of   *)
(* HAPair holds of PublicIpMove; and a move takes nobody else's public IP. *)
(***************************************************************************)
EXTENDS PublicIpMove, HealthyPairProofs

\* A call of move_public_ip is for a public IP that is still to be moved, by a
\* script past the rules and not in dry-run; what it deletes was ephemeral.
MoveOK(e) ==
    /\ move[e].step # "idle" => /\ ~Dry(e)
                                /\ PastRules(e)
                                /\ move[e].ip \in frame[e].toMove
    /\ move[e].step = "delete" => move[e].found = "ephemeral"

MoveInv == \A e \in Engine : MoveOK(e)

MoveType == [step: {"idle", "update", "conflict", "delete", "again"},
             ip: PublicIps \cup {"none"},
             found: Other]

OtherTypes ==
    /\ other \in [Engine -> Other]
    /\ move \in [Engine -> MoveType]
    /\ changes \in 0..MaxChanges

DetailInv == TypeInv /\ OtherTypes /\ MoveInv

LEMMA IdleType == Idle \in MoveType
  BY DEF Idle, MoveType, Other

LEMMA DetailInvInit == DetailInit => DetailInv
  <1> SUFFICES ASSUME DetailInit PROVE DetailInv
    OBVIOUS
  <1>1. TypeInv
    BY TypeInvInit DEF DetailInit
  <1>2. OtherTypes
    <2>1. InitOther \cup {"none"} \subseteq Other
      BY PublicIpMoveAssumption DEF Other
    <2>2. other \in [Engine -> Other]
      BY <2>1 DEF DetailInit
    <2>3. changes \in 0..MaxChanges
      BY PublicIpMoveAssumption DEF DetailInit
    <2> QED
      BY <2>2, <2>3, IdleType DEF DetailInit, OtherTypes
  <1>3. MoveInv
    BY DEF DetailInit, MoveInv, MoveOK, Idle
  <1> QED
    BY <1>1, <1>2, <1>3 DEF DetailInv

-----------------------------------------------------------------------------
(* Each call is a step of HAPair or none.                                  *)

LEMMA MovesOne ==
  ASSUME NEW e \in Engine, PastRules(e), NEW p \in frame[e].toMove,
         frame' = [frame EXCEPT ![e].toMove = @ \ {p}],
         UNCHANGED <<routes, tag, world, context, bounds, command, pc>>,
         \/ CallOk /\ Dry(e) /\ UNCHANGED assignee
         \/ CallOk /\ ~Dry(e) /\ assignee' = [assignee EXCEPT ![p] = e]
         \/ CallOk /\ UNCHANGED assignee
         \/ CallFails /\ UNCHANGED assignee
  PROVE  MovePublicIp(e)
  BY PublicIpMoveAssumption DEF MovePublicIp

LEMMA BeginMoveMaps ==
  ASSUME NEW e \in Engine, BeginMove(e)
  PROVE  MovePublicIp(e) \/ UNCHANGED vars
  <1>1. PastRules(e) /\ UNCHANGED <<cloud, world, context, bounds, command, pc>>
    BY DEF BeginMove, Moving
  <1>2. CASE CallOk /\ UNCHANGED frame
    BY <1>1, <1>2 DEF vars, CallOk
  <1>3. ASSUME NEW p \in frame[e].toMove, (CallOk /\ Dry(e)) \/ CallFails,
               frame' = [frame EXCEPT ![e].toMove = @ \ {p}]
        PROVE  MovePublicIp(e)
    BY <1>1, <1>3, MovesOne DEF cloud
  <1> QED
    BY <1>2, <1>3 DEF BeginMove

\* The steps of a call in progress.
LEMMA InProgress ==
  ASSUME NEW e \in Engine, MoveOK(e), NEW step, step # "idle", Moving(e, step)
  PROVE  PastRules(e) /\ ~Dry(e) /\ move[e].ip \in frame[e].toMove
  BY DEF MoveOK, Moving

LEMMA UpdateIpMaps ==
  ASSUME NEW e \in Engine, MoveOK(e), UpdateIp(e) \/ UpdateIpAgain(e)
  PROVE  MovePublicIp(e) \/ UNCHANGED vars
  <1>1. /\ PastRules(e) /\ ~Dry(e) /\ move[e].ip \in frame[e].toMove
        /\ UNCHANGED <<routes, tag, world, context, bounds, command, pc>>
    BY InProgress DEF UpdateIp, UpdateIpAgain
  <1>2. CASE Done(e) /\ UNCHANGED assignee /\ (CallOk \/ CallFails)
    BY <1>1, <1>2, MovesOne DEF Done
  <1>3. CASE Done(e) /\ Assign(e) /\ CallOk
    BY <1>1, <1>3, MovesOne DEF Done, Assign
  <1>4. CASE NextStep(e, "conflict") /\ CallOk /\ UNCHANGED assignee
    BY <1>1, <1>4 DEF NextStep, CallOk, vars, cloud
  <1> QED
    BY <1>2, <1>3, <1>4 DEF UpdateIp, UpdateIpAgain

LEMMA ReadConflictMaps ==
  ASSUME NEW e \in Engine, MoveOK(e), ReadConflict(e) \/ DeleteFound(e)
  PROVE  MovePublicIp(e) \/ UNCHANGED vars
  <1>1. /\ PastRules(e) /\ ~Dry(e) /\ move[e].ip \in frame[e].toMove
        /\ UNCHANGED <<cloud, world, context, bounds, command, pc>>
    BY InProgress DEF ReadConflict, DeleteFound
  <1>2. CASE Done(e) /\ (CallOk \/ CallFails)
    BY <1>1, <1>2, MovesOne DEF Done, cloud
  <1>3. CASE UNCHANGED frame /\ CallOk
    BY <1>1, <1>3 DEF CallOk, vars
  <1> QED
    BY <1>2, <1>3 DEF ReadConflict, DeleteFound, NextStep

LEMMA MoveStepMaps ==
  ASSUME NEW e \in Engine, MoveOK(e), MoveStep(e)
  PROVE  MovePublicIp(e) \/ UNCHANGED vars
  BY BeginMoveMaps, UpdateIpMaps, ReadConflictMaps DEF MoveStep

LEMMA StepMaps == DetailInv /\ [DetailNext]_detailVars => [Next]_vars
  <1> SUFFICES ASSUME DetailInv, [DetailNext]_detailVars PROVE [Next]_vars
    OBVIOUS
  <1>1. CASE RestOfEnvironment
    BY <1>1 DEF RestOfEnvironment, Next, Environment
  <1>2. CASE ChangeOther
    BY <1>2 DEF ChangeOther
  <1>3. ASSUME NEW e \in Engine, CrashInDetail(e) PROVE Next
    BY <1>3 DEF CrashInDetail, Next, Environment
  <1>4. ASSUME NEW e \in Engine, RestOfScript(e) PROVE Next
    BY <1>4 DEF RestOfScript, Next, Script, Shared
  <1>5. ASSUME NEW e \in Engine, MoveStep(e) PROVE [Next]_vars
    BY <1>5, MoveStepMaps DEF DetailInv, MoveInv, Next, Script, Shared
  <1>6. CASE UNCHANGED detailVars
    BY <1>6 DEF detailVars
  <1> QED
    BY <1>1, <1>2, <1>3, <1>4, <1>5, <1>6 DEF DetailNext, ScriptInDetail

-----------------------------------------------------------------------------
(* DetailInv is an invariant.                                              *)

\* While a call is in progress its script takes no other step.
LEMMA RestIsIdle ==
  ASSUME NEW e \in Engine, MoveOK(e), RestOfScript(e) \/ StartScript(e)
  PROVE  move[e].step = "idle"
  <1> SUFFICES ASSUME PastRules(e), frame[e].toMove # {} PROVE FALSE
    BY DEF MoveOK
  <1>1. pc[e] = "rules" /\ ~AtRule(e)
    BY HAPairAssumption DEF PastRules, AtRule
  <1> QED
    BY <1>1
    DEF RestOfScript, StartScript, PrimaryOnly, PrimaryBegin, PrimaryNotify, PrimaryProbe,
        PrimaryRule, SecondaryOnly, SecondaryBegin, SecondaryReadTag, SecondaryProbe,
        SecondaryResolved, SecondaryRule, ResolvePublicIp, RouteInfoFails, SkipRule, GetTable,
        PutTable, EndIteration

LEMMA MoveOKStays ==
  ASSUME NEW e \in Engine, MoveOK(e), UNCHANGED <<pc[e], frame[e], move[e], dryRun>>
  PROVE  MoveOK(e)'
  BY DEF MoveOK, Dry, PastRules

LEMMA MoveOKIdle ==
  ASSUME NEW e \in Engine, move'[e].step = "idle"
  PROVE  MoveOK(e)'
  BY DEF MoveOK

\* What a call in progress becomes.
LEMMA MoveStepOK ==
  ASSUME DetailInv, NEW e \in Engine, MoveStep(e)
  PROVE  MoveOK(e)' /\ move' \in [Engine -> MoveType]
  <1>1. /\ pc \in [Engine -> Label] /\ frame \in [Engine -> Frame] /\ frame[e] \in Frame
        /\ move \in [Engine -> MoveType] /\ move[e] \in MoveType /\ other[e] \in Other
        /\ MoveOK(e)
    BY DEF DetailInv, TypeInv, TypeOK, OtherTypes, MoveInv
  <1>2. UNCHANGED <<pc, dryRun>>
    BY DEF MoveStep, BeginMove, UpdateIp, ReadConflict, DeleteFound, UpdateIpAgain, world
  <1>3. CASE Done(e)
    BY <1>1, <1>3, IdleType, MoveOKIdle DEF Done, Idle
  <1>4. CASE BeginMove(e)
    <2>1. PastRules(e) /\ move[e].step = "idle"
      BY <1>4 DEF BeginMove, Moving
    <2>2. CASE UNCHANGED move
      BY <1>1, <2>1, <2>2, MoveOKIdle
    <2>3. ASSUME NEW p \in frame[e].toMove, ~Dry(e), UNCHANGED frame,
                 move' = [move EXCEPT ![e].step = "update", ![e].ip = p]
          PROVE  MoveOK(e)' /\ move' \in [Engine -> MoveType]
      <3>1. p \in PublicIps
        BY <1>1 DEF Frame
      <3>2. /\ move'[e].step = "update" /\ move'[e].ip = p
            /\ move' \in [Engine -> MoveType]
        BY <1>1, <2>3, <3>1 DEF MoveType
      <3> QED
        BY <1>2, <2>1, <2>3, <3>2 DEF MoveOK, Dry, PastRules
    <2> QED
      BY <1>4, <2>2, <2>3 DEF BeginMove
  <1>5. ASSUME NEW step \in {"conflict", "again"}, NextStep(e, step), move[e].step # "idle"
        PROVE  MoveOK(e)' /\ move' \in [Engine -> MoveType]
    <2>1. /\ move'[e].step = step /\ move'[e].ip = move[e].ip
          /\ move' \in [Engine -> MoveType] /\ UNCHANGED frame
      BY <1>1, <1>5 DEF NextStep, MoveType
    <2> QED
      BY <1>1, <1>2, <1>5, <2>1 DEF MoveOK, Dry, PastRules
  <1>6. ASSUME move' = [move EXCEPT ![e].step = "delete", ![e].found = "ephemeral"],
               UNCHANGED frame, move[e].step # "idle"
        PROVE  MoveOK(e)' /\ move' \in [Engine -> MoveType]
    <2>1. /\ move'[e].step = "delete" /\ move'[e].ip = move[e].ip
          /\ move'[e].found = "ephemeral"
          /\ move' \in [Engine -> MoveType]
      BY <1>1, <1>6 DEF MoveType, Other
    <2> QED
      BY <1>1, <1>2, <1>6, <2>1 DEF MoveOK, Dry, PastRules
  <1>7. CASE UpdateIp(e) \/ UpdateIpAgain(e)
    BY <1>3, <1>5, <1>7 DEF UpdateIp, UpdateIpAgain, Moving
  <1>8. CASE ReadConflict(e) \/ DeleteFound(e)
    BY <1>3, <1>5, <1>6, <1>8 DEF ReadConflict, DeleteFound, Moving
  <1> QED
    BY <1>4, <1>7, <1>8 DEF MoveStep

\* A call of one script leaves the other's alone.
LEMMA MoveStepOther ==
  ASSUME DetailInv, NEW e \in Engine, MoveStep(e), NEW d \in Engine \ {e}
  PROVE  UNCHANGED <<pc[d], frame[d], move[d], dryRun>>
  <1>1. frame \in [Engine -> Frame] /\ move \in [Engine -> MoveType]
    BY DEF DetailInv, TypeInv, TypeOK, OtherTypes
  <1>2. UNCHANGED <<pc, dryRun>>
    BY DEF MoveStep, BeginMove, UpdateIp, ReadConflict, DeleteFound, UpdateIpAgain, world
  <1>3. frame'[d] = frame[d] /\ move'[d] = move[d]
    BY <1>1
    DEF MoveStep, BeginMove, UpdateIp, ReadConflict, DeleteFound, UpdateIpAgain, Done, NextStep
  <1> QED
    BY <1>2, <1>3

LEMMA DetailInvStep == DetailInv /\ [DetailNext]_detailVars => DetailInv'
  <1> SUFFICES ASSUME DetailInv, [DetailNext]_detailVars PROVE DetailInv'
    OBVIOUS
  <1>1. TypeInv'
    BY StepMaps, TypeInvStep DEF DetailInv
  <1>2. /\ pc \in [Engine -> Label] /\ frame \in [Engine -> Frame]
        /\ TypeInv /\ OtherTypes /\ \A e \in Engine : MoveOK(e)
    BY DEF DetailInv, TypeInv, TypeOK, MoveInv
  <1>3. dryRun' = dryRun
    BY StepMaps, DryRunIsFixed DEF DetailInv
  <1>4. CASE RestOfEnvironment
    <2>1. UNCHANGED <<other, move, changes>>
      BY <1>4 DEF RestOfEnvironment
    <2>2. ASSUME NEW d \in Engine PROVE MoveOK(d)'
      <3>1. CASE UNCHANGED <<pc, frame>>
        BY <1>2, <1>3, <2>1, <3>1, MoveOKStays
      <3>2. ASSUME NEW e \in Engine, StartScript(e) PROVE MoveOK(d)'
        <4>1. CASE d = e
          BY <1>2, <2>1, <3>2, <4>1, RestIsIdle, MoveOKIdle
        <4>2. CASE d # e
          BY <1>2, <1>3, <2>1, <3>2, <4>2, MoveOKStays DEF StartScript, Goto
        <4> QED
          BY <4>1, <4>2
      <3> QED
        BY <1>4, <3>1, <3>2 DEF RestOfEnvironment, SetStatus, FlipReach, FlipRemote, EditRule
    <2> QED
      BY <1>1, <1>2, <2>1, <2>2 DEF DetailInv, OtherTypes, MoveInv
  <1>5. CASE ChangeOther
    <2>1. UNCHANGED <<pc, frame, move>>
      BY <1>5 DEF ChangeOther, vars
    <2>2. other' \in [Engine -> Other]
      BY <1>2, <1>5 DEF ChangeOther, OtherTypes
    <2>3. changes' \in 0..MaxChanges
      BY <1>2, <1>5, PublicIpMoveAssumption DEF ChangeOther, OtherTypes
    <2>4. MoveInv'
      BY <1>2, <1>3, <2>1, MoveOKStays DEF MoveInv
    <2> QED
      BY <1>1, <1>2, <2>1, <2>2, <2>3, <2>4 DEF DetailInv, OtherTypes
  <1>6. ASSUME NEW e \in Engine, CrashInDetail(e) PROVE DetailInv'
    <2>1. move' = [move EXCEPT ![e] = Idle] /\ UNCHANGED <<other, changes>>
      BY <1>6 DEF CrashInDetail
    <2>2. move' \in [Engine -> MoveType] /\ move'[e].step = "idle"
      BY <1>2, <2>1, IdleType DEF OtherTypes, Idle
    <2>3. ASSUME NEW d \in Engine \ {e} PROVE UNCHANGED <<pc[d], frame[d], move[d]>>
      BY <1>2, <1>6, <2>1, <2>3 DEF CrashInDetail, CrashScript, Goto, OtherTypes
    <2>4. MoveInv'
      BY <1>2, <1>3, <2>2, <2>3, MoveOKIdle, MoveOKStays DEF MoveInv
    <2> QED
      BY <1>1, <1>2, <2>1, <2>2, <2>4 DEF DetailInv, OtherTypes
  <1>7. ASSUME NEW e \in Engine, RestOfScript(e) PROVE DetailInv'
    <2>1. UNCHANGED <<other, move, changes>>
      BY <1>7 DEF RestOfScript
    <2>2. Script(e)
      BY <1>7 DEF RestOfScript, Script, Shared
    <2>3. ASSUME NEW d \in Engine PROVE MoveOK(d)'
      <3>1. CASE d = e
        BY <1>2, <1>7, <2>1, <3>1, RestIsIdle, MoveOKIdle
      <3>2. CASE d # e
        BY <1>2, <1>3, <2>1, <2>2, <3>2, OtherIdle, MoveOKStays
      <3> QED
        BY <3>1, <3>2
    <2> QED
      BY <1>1, <1>2, <2>1, <2>3 DEF DetailInv, OtherTypes, MoveInv
  <1>8. ASSUME NEW e \in Engine, MoveStep(e) PROVE DetailInv'
    <2>1. MoveOK(e)' /\ move' \in [Engine -> MoveType]
      BY <1>8, MoveStepOK
    <2>2. \A d \in Engine \ {e} : MoveOK(d)'
      BY <1>2, <1>8, MoveStepOther, MoveOKStays
    <2>3. other' \in [Engine -> Other]
      BY <1>2, <1>8
      DEF MoveStep, BeginMove, UpdateIp, ReadConflict, DeleteFound, UpdateIpAgain, OtherTypes, Other
    <2>4. changes' = changes
      BY <1>8 DEF MoveStep
    <2> QED
      BY <1>1, <1>2, <2>1, <2>2, <2>3, <2>4 DEF DetailInv, OtherTypes, MoveInv
  <1>9. CASE UNCHANGED detailVars
    <2>1. UNCHANGED <<pc, frame, other, move, changes>>
      BY <1>9 DEF detailVars, vars
    <2> QED
      BY <1>1, <1>2, <1>3, <2>1, MoveOKStays DEF DetailInv, OtherTypes, MoveInv
  <1> QED
    BY <1>4, <1>5, <1>6, <1>7, <1>8, <1>9 DEF DetailNext, ScriptInDetail

LEMMA DetailInvariant == DetailSpec => []DetailInv
  BY DetailInvInit, DetailInvStep, PTL DEF DetailSpec

-----------------------------------------------------------------------------
(* The refinement, and what follows from it.                               *)

\* move_public_ip in its calls, with what may happen between them, implements
\* the one step it is in HAPair.
THEOREM MoveImplementsPair == DetailSpec => ImplementsPair
  <1>1. DetailInit => Init
    BY DEF DetailInit
  <1> QED
    BY <1>1, DetailInvariant, StepMaps, PTL DEF DetailSpec, ImplementsPair, Spec

\* So the pair keeps its promises with the move in its calls: a healthy pair does
\* not fail over, dry-run changes nothing and a takeover has a reason; a primary
\* that gave up stays offline and foreign rules are kept, under the assumptions
\* these two need of HAPair.
THEOREM DetailKeepsPromises ==
  DetailSpec => /\ []HealthyPairNeverFailsOver
                /\ DryRunChangesNothing
                /\ TakeoverHasReason
                /\ MaxCmdFaults = 0 => NoPingPong
                /\ EditsKeepSides => ForeignRulesKept
  <1>1. DetailSpec => Spec
    BY MoveImplementsPair DEF ImplementsPair
  <1>2. Spec => []HealthyPairNeverFailsOver
    BY HealthyPairHolds
  <1>3. Spec => DryRunChangesNothing /\ TakeoverHasReason
    BY DryRunHolds, TakeoverHasReasonHolds
  <1>4. MaxCmdFaults = 0 => (Spec => NoPingPong)
    BY NoPingPongHolds
  <1>5. EditsKeepSides => (Spec => ForeignRulesKept)
    BY ForeignRulesKeptHolds
  <1> QED
    BY <1>1, <1>2, <1>3, <1>4, <1>5

\* The state of a call keeps its type, and a public IP in a call is one of the
\* pair's.
THEOREM DetailTypeCorrect == DetailSpec => []DetailTypeOK
  <1>1. DetailInv => DetailTypeOK
    BY DEF DetailInv, TypeInv, OtherTypes, MoveType, DetailTypeOK
  <1> QED
    BY <1>1, DetailInvariant, PTL

-----------------------------------------------------------------------------
(* What a move leaves alone.                                               *)

\* Only a script that deletes what it has found, and an operator, change the
\* other public IP of a target.
LEMMA WhoReleases ==
  ASSUME [DetailNext]_detailVars, other' # other
  PROVE  (\E e \in Engine : MoveStep(e) /\ DeleteFound(e)) \/ ChangeOther
  <1>1. ~RestOfEnvironment
    BY DEF RestOfEnvironment
  <1>2. ASSUME NEW e \in Engine, ScriptInDetail(e) PROVE MoveStep(e) /\ DeleteFound(e)
    BY <1>2
    DEF ScriptInDetail, RestOfScript, MoveStep, BeginMove, UpdateIp, ReadConflict, UpdateIpAgain
  <1>3. \A e \in Engine : ~CrashInDetail(e)
    BY DEF CrashInDetail
  <1> QED
    BY <1>1, <1>2, <1>3 DEF DetailNext, detailVars

\* A script that deletes an IP is in the middle of a move, and what it deletes is
\* its own target's ephemeral IP.
LEMMA DeletesEphemeral ==
  ASSUME DetailInv, NEW e \in Engine, DeleteFound(e), other' # other
  PROVE  /\ ~Dry(e) /\ frame[e].toMove # {}
         /\ other[e] = "ephemeral"
         /\ other' = [other EXCEPT ![e] = "none"]
  <1>1. MoveOK(e) /\ other \in [Engine -> Other] /\ Moving(e, "delete")
    BY DEF DetailInv, MoveInv, OtherTypes, DeleteFound
  <1>2. ~Dry(e) /\ frame[e].toMove # {} /\ move[e].found = "ephemeral"
    BY <1>1 DEF MoveOK, Moving
  <1> QED
    BY <1>2 DEF DeleteFound

LEMMA OperatorIsNoScript == ASSUME NEW e \in Engine, ChangeOther PROVE ~ActsInDetail(e)
  BY DEF ChangeOther, ActsInDetail, Acts, vars

\* No script takes a reserved public IP that is not of the pair from a target,
\* although the delete uses what an earlier call has read.
THEOREM OtherReservedIpKeptHolds == DetailSpec => OtherReservedIpKept
  <1>1. ASSUME DetailInv, [DetailNext]_detailVars
        PROVE  \A e, f \in Engine :
                 ActsInDetail(e) /\ other[f] = "reserved" => other'[f] = "reserved"
    <2> SUFFICES ASSUME NEW e \in Engine, NEW f \in Engine, ActsInDetail(e),
                        other[f] = "reserved", other'[f] # "reserved"
                 PROVE  FALSE
      OBVIOUS
    <2>1. PICK d \in Engine : DeleteFound(d)
      BY <1>1, WhoReleases, OperatorIsNoScript
    <2>2. other[d] = "ephemeral" /\ other' = [other EXCEPT ![d] = "none"]
      BY <1>1, <2>1, DeletesEphemeral
    <2>3. other \in [Engine -> Other]
      BY <1>1 DEF DetailInv, OtherTypes
    <2> QED
      BY <2>2, <2>3
  <1>2. DetailInv /\ [DetailNext]_detailVars
          => [\A e, f \in Engine :
                 ActsInDetail(e) /\ other[f] = "reserved" => other'[f] = "reserved"]_detailVars
    BY <1>1
  <1> QED
    BY <1>2, DetailInvariant, PTL DEF DetailSpec, OtherReservedIpKept

\* A script that acts in a step of a move is the one whose move it is.
LEMMA WhoActs ==
  ASSUME DetailInv, NEW e \in Engine, NEW d \in Engine, MoveStep(d), ActsInDetail(e)
  PROVE  d = e
  BY MoveStepOther DEF ActsInDetail, Acts

\* In dry-run mode a call ends with get_public_ip.
LEMMA DryMoveStep ==
  ASSUME DetailInv, NEW e \in Engine, Dry(e), MoveStep(e)
  PROVE  UNCHANGED <<cloud, status, other>>
  <1>1. move[e].step = "idle"
    BY DEF DetailInv, MoveInv, MoveOK
  <1>2. BeginMove(e)
    BY <1>1 DEF MoveStep, UpdateIp, ReadConflict, DeleteFound, UpdateIpAgain, Moving
  <1> QED
    BY <1>2 DEF BeginMove, command

\* A script that acts, though not in a move, does a step of HAPair.
LEMMA ActsOutsideMove ==
  ASSUME DetailInv, [DetailNext]_detailVars, NEW e \in Engine, ActsInDetail(e),
         \A d \in Engine : ~MoveStep(d)
  PROVE  Acts(e)
  <1> SUFFICES ASSUME move'[e] # move[e] PROVE Acts(e)
    BY DEF ActsInDetail
  <1>1. PICK d \in Engine : CrashInDetail(d)
    BY DEF DetailNext, RestOfEnvironment, ChangeOther, ScriptInDetail, RestOfScript, detailVars
  <1>2. pc \in [Engine -> Label] /\ move \in [Engine -> MoveType]
    BY DEF DetailInv, TypeInv, TypeOK, OtherTypes
  <1>3. d = e
    BY <1>1, <1>2 DEF CrashInDetail
  <1> QED
    BY <1>1, <1>2, <1>3 DEF CrashInDetail, CrashScript, Goto, Acts

\* In dry-run mode a script moves no public IP and deletes none.
THEOREM DryRunMovesNothingHolds == DetailSpec => DryRunMovesNothing
  <1>1. ASSUME DetailInv, DryInv, [DetailNext]_detailVars
        PROVE  \A e \in dryRun : ActsInDetail(e) => UNCHANGED <<cloud, status, other>>
    <2> SUFFICES ASSUME NEW e \in dryRun, ActsInDetail(e)
                 PROVE  UNCHANGED <<cloud, status, other>>
      OBVIOUS
    <2>1. e \in Engine /\ Dry(e)
      BY <1>1, DryEngines DEF DetailInv, Dry
    <2>2. ASSUME NEW d \in Engine, MoveStep(d) PROVE UNCHANGED <<cloud, status, other>>
      BY <1>1, <2>1, <2>2, WhoActs, DryMoveStep
    <2>3. ASSUME \A d \in Engine : ~MoveStep(d) PROVE UNCHANGED <<cloud, status, other>>
      <3>1. UNCHANGED other
        BY <1>1, <2>1, <2>3, WhoReleases, OperatorIsNoScript
      <3>2. Acts(e)
        BY <1>1, <2>1, <2>3, ActsOutsideMove
      <3>3. UNCHANGED <<cloud, status>>
        BY <1>1, <3>2, StepMaps, DryStep DEF DetailInv, Harmless
      <3> QED
        BY <3>1, <3>3
    <2> QED
      BY <2>2, <2>3
  <1>2. DetailInv /\ DryInv /\ [DetailNext]_detailVars
          => [\A e \in dryRun : ActsInDetail(e) => UNCHANGED <<cloud, status, other>>]_detailVars
    BY <1>1
  <1>3. DetailSpec => []DryInv
    BY MoveImplementsPair, DryInvariant, PTL DEF ImplementsPair
  <1> QED
    BY <1>2, <1>3, DetailInvariant, PTL DEF DetailSpec, DryRunMovesNothing

LEMMA WhoMovesInDetail ==
  ASSUME DetailInv, [DetailNext]_detailVars, assignee' # assignee
  PROVE  \E e \in Engine : MoveStep(e) /\ MovePublicIp(e)
  <1>1. ~RestOfEnvironment
    BY DEF RestOfEnvironment, StartScript, SetStatus, FlipReach, FlipRemote, EditRule, cloud
  <1>2. \A e \in Engine : ~RestOfScript(e)
    BY DEF RestOfScript, PrimaryOnly, PrimaryBegin, PrimaryNotify, PrimaryProbe, PrimaryRule,
           SecondaryOnly, SecondaryBegin, SecondaryReadTag, SecondaryProbe, SecondaryResolved,
           SecondaryRule, ResolvePublicIp, RouteInfoFails, SkipRule, GetTable, PutTable,
           EndIteration, cloud
  <1>3. ~ChangeOther /\ ~UNCHANGED detailVars
    BY DEF ChangeOther, detailVars, vars, cloud
  <1>4. \A e \in Engine : ~CrashInDetail(e)
    BY DEF CrashInDetail, CrashScript, cloud
  <1>5. PICK e \in Engine : MoveStep(e)
    BY <1>1, <1>2, <1>3, <1>4 DEF DetailNext, ScriptInDetail
  <1>6. MovePublicIp(e)
    BY <1>5, MoveStepMaps DEF DetailInv, MoveInv, vars, cloud
  <1> QED
    BY <1>5, <1>6

\* The secondary releases its own address, or takes a public IP, only in an
\* iteration that found the primary out of service, however many calls of the
\* move failed and whatever happened since.
THEOREM MoveHasReasonHolds == DetailSpec => MoveHasReason
  <1>1. ASSUME DetailInv, ReasonInv, [DetailNext]_detailVars, ActsInDetail("secondary"),
               assignee' # assignee \/ other' # other
        PROVE  SeesFailure(frame["secondary"])
    <2>1. "secondary" \in Engine
      BY DEF Engine
    <2>2. PICK d \in Engine : MoveStep(d) /\ frame[d].toMove # {}
      <3>1. CASE assignee' # assignee
        BY <1>1, <3>1, WhoMovesInDetail DEF MovePublicIp
      <3>2. CASE other' # other
        BY <1>1, <2>1, <3>2, WhoReleases, OperatorIsNoScript, DeletesEphemeral
      <3> QED
        BY <1>1, <3>1, <3>2
    <2>3. d = "secondary"
      BY <1>1, <2>1, <2>2, WhoActs
    <2> QED
      BY <1>1, <2>2, <2>3 DEF ReasonInv
  <1>2. DetailInv /\ ReasonInv /\ [DetailNext]_detailVars
          => [ActsInDetail("secondary") /\ (assignee' # assignee \/ other' # other)
                => SeesFailure(frame["secondary"])]_detailVars
    BY <1>1
  <1>3. DetailSpec => []ReasonInv
    BY MoveImplementsPair, ReasonInvariant, PTL DEF ImplementsPair
  <1> QED
    BY <1>2, <1>3, DetailInvariant, PTL DEF DetailSpec, MoveHasReason
=============================================================================
