---------------------------- MODULE HAPairProofs ----------------------------
(***************************************************************************)
(* Theorems about HAPair, for every number of rules and public IPs and     *)
(* every configuration and bound.                                          *)
(***************************************************************************)
EXTENDS HAPair, TLAPS

\* A script that updates a route table has a rule to update, and is online as
\* far as it knows.
UpdatesARule ==
    \A e \in Engine :
        pc[e] \in {"get", "put"} => frame[e].pos \in Rule /\ frame[e].local = "online"

TypeInv == TypeOK /\ UpdatesARule

\* Its two halves: where the scripts are, and everything else.
ControlOK ==
    /\ pc \in [Engine -> Label]
    /\ frame \in [Engine -> Frame]
    /\ UpdatesARule

DataOK ==
    /\ routes \in [Rule -> Target]
    /\ tag \in Status \cup {"absent"}
    /\ assignee \in [PublicIps -> Engine]
    /\ status \in [Engine -> Status]
    /\ reach \in BOOLEAN /\ remoteUp \in BOOLEAN
    /\ dryRun \in SUBSET Engine
    /\ fails \in [Engine -> 0..ProbeMaxFail]
    /\ prevLocal \in Status \cup {"none"}
    /\ prevActive \in {"none", "active", "inactive"}
    /\ apiFaults \in 0..MaxApiFaults /\ cmdFaults \in 0..MaxCmdFaults
    /\ crashes \in 0..MaxCrashes /\ events \in 0..MaxEvents
    /\ handedOver \in BOOLEAN

LEMMA Halves == /\ TypeInv <=> ControlOK /\ DataOK
                /\ TypeInv' <=> ControlOK' /\ DataOK'
  BY DEF TypeInv, TypeOK, ControlOK, DataOK

LEMMA NoFrameType == NoFrame \in Frame
  BY HAPairAssumption DEF NoFrame, Frame, NoTable, Status, Target, Unsteered, Elsewhere, Rule

LEMMA TypeInvInit == Init => TypeInv
  <1> SUFFICES ASSUME Init PROVE ControlOK /\ DataOK
    BY Halves
  <1>1. routes \in [Rule -> Target]
    BY HAPairAssumption DEF Init, Target, Engine, Unsteered, Elsewhere
  <1>2. ControlOK
    BY NoFrameType DEF Init, ControlOK, UpdatesARule, Label
  <1>3. fails \in [Engine -> 0..ProbeMaxFail]
    BY HAPairAssumption DEF Init
  <1>4. dryRun \in SUBSET Engine
    BY HAPairAssumption DEF Init
  <1>5. /\ apiFaults \in 0..MaxApiFaults /\ cmdFaults \in 0..MaxCmdFaults
        /\ crashes \in 0..MaxCrashes /\ events \in 0..MaxEvents
    BY HAPairAssumption DEF Init
  <1> QED
    BY <1>1, <1>2, <1>3, <1>4, <1>5 DEF Init, DataOK, Status, Engine

\* A script goes on at label with the frame f ...
LEMMA Moves ==
  ASSUME ControlOK, NEW e \in Engine, NEW label \in Label, NEW f \in Frame,
         Goto(e, label), frame' = [frame EXCEPT ![e] = f],
         label \in {"get", "put"} => f.pos \in Rule /\ f.local = "online"
  PROVE  ControlOK'
  BY DEF ControlOK, UpdatesARule, Goto

\* ... or with the frame it has ...
LEMMA MovesOn ==
  ASSUME ControlOK, NEW e \in Engine, NEW label \in Label \ {"get", "put"},
         Goto(e, label), UNCHANGED frame
  PROVE  ControlOK'
  BY DEF ControlOK, UpdatesARule, Goto

\* ... or stays there, with another frame.
LEMMA Stays ==
  ASSUME ControlOK, NEW e \in Engine, NEW f \in Frame, UNCHANGED pc,
         pc[e] \notin {"get", "put"}, frame' = [frame EXCEPT ![e] = f]
  PROVE  ControlOK'
  BY DEF ControlOK, UpdatesARule

LEMMA CallType ==
  ASSUME DataOK, CallOk \/ CallFails
  PROVE  apiFaults' \in 0..MaxApiFaults
  BY HAPairAssumption DEF CallOk, CallFails, DataOK

LEMMA GoOfflineType ==
  ASSUME DataOK, GoOffline
  PROVE  status' \in [Engine -> Status] /\ cmdFaults' \in 0..MaxCmdFaults /\ handedOver' \in BOOLEAN
  <1>1. status' \in [Engine -> Status]
    BY DEF GoOffline, DataOK, command, Status
  <1>2. cmdFaults' \in 0..MaxCmdFaults
    BY HAPairAssumption DEF GoOffline, DataOK, command
  <1>3. handedOver' \in BOOLEAN
    BY DEF GoOffline, DataOK, command
  <1> QED
    BY <1>1, <1>2, <1>3

LEMMA ViewType ==
  ASSUME DataOK, ControlOK, NEW e \in Engine
  PROVE  View(e) \in [Rule -> Target]
  <1>1. frame[e].snap \in [Rule -> Target] /\ routes \in [Rule -> Target]
    BY DEF DataOK, ControlOK, Frame
  <1> QED
    BY <1>1 DEF View

-----------------------------------------------------------------------------
(* The actions, one by one.                                                *)

LEMMA PrimaryBeginType == ASSUME ControlOK, DataOK, PrimaryBegin PROVE ControlOK' /\ DataOK'
  <1>1. DataOK'
    BY DEF PrimaryBegin, DataOK, Engine, cloud, world, bounds, command
  <1>2. ControlOK'
    <2> DEFINE f == [frame["primary"] EXCEPT !.local = status["primary"], !.todo = PublicIps]
    <2>1. frame["primary"] \in Frame /\ status["primary"] \in Status
      BY DEF ControlOK, DataOK, Engine
    <2>2. f \in Frame
      BY <2>1 DEF Frame
    <2>3. PICK label \in {"resolve", "tag"} : Goto("primary", label)
      BY DEF PrimaryBegin
    <2>4. frame' = [frame EXCEPT !["primary"] = f]
      BY DEF PrimaryBegin
    <2> QED
      BY <2>2, <2>3, <2>4, Moves DEF Label, Engine
  <1> QED
    BY <1>1, <1>2

LEMMA PrimaryNotifyType == ASSUME ControlOK, DataOK, PrimaryNotify PROVE ControlOK' /\ DataOK'
  <1>1. frame["primary"].local \in Status
    BY DEF ControlOK, Frame, Engine
  <1>2. CallOk \/ CallFails
    BY DEF PrimaryNotify
  <1>3. DataOK'
    BY <1>1, <1>2, CallType DEF PrimaryNotify, DataOK, world, bounds, command
  <1>4. ControlOK'
    BY MovesOn DEF PrimaryNotify, Label, Engine
  <1> QED
    BY <1>3, <1>4

LEMMA ResolvePublicIpType ==
  ASSUME ControlOK, DataOK, NEW e \in Engine, ResolvePublicIp(e)
  PROVE  ControlOK' /\ DataOK'
  <1>1. CallOk \/ CallFails
    BY DEF ResolvePublicIp
  <1>2. DataOK'
    BY <1>1, CallType DEF ResolvePublicIp, DataOK, cloud, world, context, bounds, command
  <1>3. PICK p \in frame[e].todo :
          \/ frame' = [frame EXCEPT ![e].todo = @ \ {p}]
          \/ frame' = [frame EXCEPT ![e].todo = @ \ {p},
                                    ![e].toMove = IF MustMove(e, p) THEN @ \cup {p} ELSE @]
    BY DEF ResolvePublicIp
  <1>4. PICK f \in Frame : frame' = [frame EXCEPT ![e] = f]
    <2> DEFINE g == [frame[e] EXCEPT !.todo = @ \ {p}]
               h == [frame[e] EXCEPT !.todo = @ \ {p},
                                     !.toMove = IF MustMove(e, p) THEN @ \cup {p} ELSE @]
    <2>1. frame[e] \in Frame
      BY DEF ControlOK
    <2>2. p \in PublicIps
      BY <2>1 DEF Frame
    <2>3. g \in Frame /\ h \in Frame
      BY <2>1, <2>2 DEF Frame
    <2>4. \/ frame' = [frame EXCEPT ![e] = g]
          \/ frame' = [frame EXCEPT ![e] = h]
      BY <1>3
    <2> QED
      BY <2>3, <2>4
  <1>5. ControlOK'
    BY <1>4, Stays DEF ResolvePublicIp
  <1> QED
    BY <1>2, <1>5

LEMMA CountAfterType ==
  ASSUME DataOK, NEW e \in Engine, NEW connected \in BOOLEAN
  PROVE  CountAfter(fails[e], ProbeMaxFail, connected) \in 0..ProbeMaxFail
  BY HAPairAssumption DEF DataOK, CountAfter

LEMMA ReturnType ==
  ASSUME ControlOK, NEW e \in Engine, Return(e)
  PROVE  ControlOK'
  BY NoFrameType, Moves DEF Return, Label

LEMMA PrimaryProbeType == ASSUME ControlOK, DataOK, PrimaryProbe PROVE ControlOK' /\ DataOK'
  <1>1. ControlOK'
    <2>1. CASE Return("primary")
      BY <2>1, ReturnType DEF Engine
    <2>2. CASE UNCHANGED frame /\ Goto("primary", "rules")
      BY <2>2, MovesOn DEF Label, Engine
    <2> QED
      BY <2>1, <2>2 DEF PrimaryProbe
  <1>2. fails' \in [Engine -> 0..ProbeMaxFail]
    <2>1. CountAfter(fails["primary"], ProbeMaxFail, remoteUp) \in 0..ProbeMaxFail
      BY CountAfterType DEF DataOK, Engine
    <2> QED
      BY <2>1 DEF PrimaryProbe, DataOK
  <1>3. /\ status' \in [Engine -> Status]
        /\ cmdFaults' \in 0..MaxCmdFaults
        /\ handedOver' \in BOOLEAN
    <2>1. GoOffline \/ UNCHANGED command
      BY DEF PrimaryProbe
    <2> QED
      BY <2>1, GoOfflineType DEF DataOK, command
  <1>4. UNCHANGED <<routes, tag, assignee, reach, remoteUp, dryRun, prevLocal, prevActive,
                    apiFaults, crashes, events>>
    BY DEF PrimaryProbe, cloud, world, bounds
  <1> QED
    BY <1>1, <1>2, <1>3, <1>4 DEF DataOK

LEMMA SecondaryBeginType == ASSUME ControlOK, DataOK, SecondaryBegin PROVE ControlOK' /\ DataOK'
  <1>1. DataOK'
    BY DEF SecondaryBegin, DataOK, cloud, world, context, bounds, command
  <1>2. ControlOK'
    <2> DEFINE f == [frame["secondary"] EXCEPT !.local = status["secondary"], !.todo = PublicIps]
    <2>1. frame["secondary"] \in Frame /\ status["secondary"] \in Status
      BY DEF ControlOK, DataOK, Engine
    <2>2. f \in Frame
      BY <2>1 DEF Frame
    <2>3. Goto("secondary", "tag") /\ frame' = [frame EXCEPT !["secondary"] = f]
      BY DEF SecondaryBegin
    <2> QED
      BY <2>2, <2>3, Moves DEF Label, Engine
  <1> QED
    BY <1>1, <1>2

LEMMA SecondaryReadTagType ==
  ASSUME ControlOK, DataOK, SecondaryReadTag PROVE ControlOK' /\ DataOK'
  <1>1. CallOk \/ CallFails
    BY DEF SecondaryReadTag
  <1>2. DataOK'
    BY <1>1, CallType DEF SecondaryReadTag, DataOK, cloud, world, context, bounds, command
  <1>3. ControlOK'
    <2> DEFINE f == [frame["secondary"] EXCEPT !.primaryStatus = PrimaryStatus]
    <2>1. frame["secondary"] \in Frame /\ PrimaryStatus \in Status \cup {"unknown"}
      BY DEF ControlOK, DataOK, Engine, PrimaryStatus
    <2>2. f \in Frame
      BY <2>1 DEF Frame
    <2>3. CASE frame' = [frame EXCEPT !["secondary"] = f]
      BY <2>2, <2>3, Moves DEF SecondaryReadTag, Label, Engine
    <2>4. CASE UNCHANGED frame
      BY <2>4, MovesOn DEF SecondaryReadTag, Label, Engine
    <2>5. frame' = [frame EXCEPT !["secondary"] = f] \/ UNCHANGED frame
      BY DEF SecondaryReadTag
    <2> QED
      BY <2>3, <2>4, <2>5
  <1> QED
    BY <1>2, <1>3

LEMMA SecondaryProbeType == ASSUME ControlOK, DataOK, SecondaryProbe PROVE ControlOK' /\ DataOK'
  <1>1. CallOk \/ CallFails
    BY DEF SecondaryProbe
  <1>2. PICK connected \in BOOLEAN : SecondaryProbed(connected)
    BY DEF SecondaryProbe, DataOK
  <1>3. fails' \in [Engine -> 0..ProbeMaxFail]
    BY <1>2, CountAfterType DEF SecondaryProbed, DataOK, Engine
  <1>4. DataOK'
    BY <1>1, <1>3, CallType DEF SecondaryProbe, DataOK, cloud, world, bounds, command
  <1>5. ControlOK'
    <2> DEFINE failed == ProbeFails(fails["secondary"], ProbeMaxFail, connected)
               f == [frame["secondary"] EXCEPT !.probeFailed = failed]
    <2>1. frame["secondary"] \in Frame /\ failed \in BOOLEAN
      BY DEF ControlOK, ProbeFails, Engine
    <2>2. f \in Frame
      BY <2>1 DEF Frame
    <2>3. CASE frame' = [frame EXCEPT !["secondary"] = f]
      BY <2>2, <2>3, Moves DEF SecondaryProbe, Label, Engine
    <2>4. CASE UNCHANGED frame
      BY <2>4, MovesOn DEF SecondaryProbe, Label, Engine
    <2>5. frame' = [frame EXCEPT !["secondary"] = f] \/ UNCHANGED frame
      BY <1>2 DEF SecondaryProbed
    <2> QED
      BY <2>3, <2>4, <2>5
  <1> QED
    BY <1>4, <1>5

LEMMA SecondaryResolvedType ==
  ASSUME ControlOK, DataOK, SecondaryResolved PROVE ControlOK' /\ DataOK'
  <1>1. ControlOK'
    BY MovesOn DEF SecondaryResolved, Label, Engine
  <1> QED
    BY <1>1 DEF SecondaryResolved, DataOK, cloud, world, context, bounds, command

LEMMA RouteInfoFailsType ==
  ASSUME ControlOK, DataOK, NEW e \in Engine, RouteInfoFails(e)
  PROVE  ControlOK' /\ DataOK'
  <1>1. ControlOK'
    BY ReturnType DEF RouteInfoFails
  <1>2. DataOK'
    BY CallType DEF RouteInfoFails, DataOK, cloud, world, context, bounds, command
  <1> QED
    BY <1>1, <1>2

LEMMA AtRuleType ==
  ASSUME ControlOK, NEW e \in Engine, AtRule(e)
  PROVE  /\ frame[e] \in Frame
         /\ frame[e].pos \in Rule
         /\ frame[e].pos + 1 \in 1..NRules + 1
  BY HAPairAssumption DEF ControlOK, AtRule, Frame, Rule

LEMMA SkipRuleType ==
  ASSUME ControlOK, DataOK, NEW e \in Engine, SkipRule(e)
  PROVE  ControlOK' /\ DataOK'
  <1> DEFINE f == [frame[e] EXCEPT !.snap = View(e), !.pos = @ + 1]
  <1>1. frame[e] \in Frame /\ frame[e].pos + 1 \in 1..NRules + 1
    BY AtRuleType DEF SkipRule
  <1>2. f \in Frame
    BY <1>1, ViewType DEF Frame
  <1>3. frame' = [frame EXCEPT ![e] = f]
    BY DEF SkipRule
  <1>4. ControlOK'
    BY <1>2, <1>3, Stays DEF SkipRule, AtRule
  <1>5. DataOK'
    BY DEF SkipRule, DataOK, cloud, world, context, bounds, command
  <1> QED
    BY <1>4, <1>5

LEMMA DecideType ==
  ASSUME ControlOK, DataOK, NEW e \in Engine, NEW local \in Status, NEW reroute \in BOOLEAN,
         AtRule(e), Decide(e, local, reroute), reroute => local = "online"
  PROVE  ControlOK'
  <1> DEFINE next == IF reroute /\ ~Dry(e) THEN frame[e].pos ELSE frame[e].pos + 1
             f == [frame[e] EXCEPT !.local = local, !.snap = View(e), !.pos = next]
  <1>1. frame[e] \in Frame /\ next \in 1..NRules + 1
    BY AtRuleType DEF Frame
  <1>2. f \in Frame
    BY <1>1, ViewType DEF Frame
  <1>3. frame' = [frame EXCEPT ![e] = f]
    BY DEF Decide
  <1>4. CASE reroute /\ ~Dry(e)
    <2>1. Goto(e, "get") /\ f.pos \in Rule /\ f.local = "online"
      BY <1>1, <1>4, AtRuleType DEF Decide, Frame
    <2> QED
      BY <1>2, <1>3, <2>1, Moves DEF Label
  <1>5. CASE ~(reroute /\ ~Dry(e))
    <2>1. Goto(e, "rules")
      BY <1>5 DEF Decide
    <2> QED
      BY <1>2, <1>3, <2>1, Moves DEF Label
  <1> QED
    BY <1>4, <1>5

LEMMA PrimaryRuleType == ASSUME ControlOK, DataOK, PrimaryRule PROVE ControlOK' /\ DataOK'
  <1> DEFINE local == frame["primary"].local
             active == View("primary")[frame["primary"].pos] = "primary"
             after == LocalAfter(local, active)
  <1>1. AtRule("primary") /\ Decide("primary", after, PrimaryReroutes(after, active))
    BY DEF PrimaryRule
  <1>2. after \in Status
    BY DEF LocalAfter, Status, ControlOK, Frame, Engine
  <1>3. PrimaryReroutes(after, active) \in BOOLEAN
    BY DEF PrimaryReroutes
  <1>4. ControlOK'
    BY <1>1, <1>2, <1>3, DecideType DEF PrimaryReroutes, Engine
  <1>5. GoOffline \/ UNCHANGED command
    BY DEF PrimaryRule
  <1>6. /\ status' \in [Engine -> Status]
        /\ cmdFaults' \in 0..MaxCmdFaults
        /\ handedOver' \in BOOLEAN
    BY <1>5, GoOfflineType DEF DataOK, command
  <1>7. prevActive' \in {"none", "active", "inactive"}
    BY DEF PrimaryRule, DataOK
  <1>8. UNCHANGED <<routes, tag, assignee, reach, remoteUp, dryRun, fails, prevLocal,
                    apiFaults, crashes, events>>
    BY DEF PrimaryRule, cloud, world, bounds
  <1> QED
    BY <1>4, <1>6, <1>7, <1>8 DEF DataOK

LEMMA SecondaryRuleType == ASSUME ControlOK, DataOK, SecondaryRule PROVE ControlOK' /\ DataOK'
  <1> DEFINE f == frame["secondary"]
             target == View("secondary")[f.pos]
  <1>1. AtRule("secondary") /\ Decide("secondary", f.local, SecondaryReroutes(f, target))
    BY DEF SecondaryRule
  <1>2. f.local \in Status /\ SecondaryReroutes(f, target) \in BOOLEAN
    BY DEF ControlOK, Frame, Engine, SecondaryReroutes
  <1>3. ControlOK'
    BY <1>1, <1>2, DecideType DEF SecondaryReroutes, Engine
  <1>4. DataOK'
    BY DEF SecondaryRule, DataOK, cloud, world, context, bounds, command
  <1> QED
    BY <1>3, <1>4

\* A script that updates a table goes on with the next rule.
LEMMA NextRuleType ==
  ASSUME ControlOK, NEW e \in Engine, pc[e] \in {"get", "put"}
  PROVE  /\ frame[e] \in Frame
         /\ frame[e].pos \in Rule
         /\ frame[e].local = "online"
         /\ frame[e].pos + 1 \in 1..NRules + 1
  BY HAPairAssumption DEF ControlOK, UpdatesARule, Rule

LEMMA GetTableType ==
  ASSUME ControlOK, DataOK, NEW e \in Engine, GetTable(e)
  PROVE  ControlOK' /\ DataOK'
  <1>1. CallOk \/ CallFails
    BY DEF GetTable
  <1>2. DataOK'
    BY <1>1, CallType DEF GetTable, DataOK, cloud, world, context, bounds, command
  <1> DEFINE g == [frame[e] EXCEPT !.copy = routes]
             h == [frame[e] EXCEPT !.pos = @ + 1]
  <1>3. /\ frame[e] \in Frame /\ frame[e].pos \in Rule /\ frame[e].local = "online"
        /\ frame[e].pos + 1 \in 1..NRules + 1
        /\ routes \in [Rule -> Target]
    BY NextRuleType DEF GetTable, DataOK
  <1>4. g \in Frame /\ h \in Frame /\ g.pos = frame[e].pos /\ g.local = frame[e].local
    BY <1>3 DEF Frame
  <1>5. CASE frame' = [frame EXCEPT ![e] = g] /\ Goto(e, "put")
    BY <1>2, <1>3, <1>4, <1>5, Moves DEF Label
  <1>6. CASE frame' = [frame EXCEPT ![e] = h] /\ Goto(e, "rules")
    BY <1>2, <1>4, <1>6, Moves DEF Label
  <1>7. \/ frame' = [frame EXCEPT ![e] = g] /\ Goto(e, "put")
        \/ frame' = [frame EXCEPT ![e] = h] /\ Goto(e, "rules")
    BY DEF GetTable
  <1> QED
    BY <1>5, <1>6, <1>7

LEMMA WrittenType ==
  ASSUME ControlOK, DataOK, NEW e \in Engine
  PROVE  Written(e) \in [Rule -> Target]
  <1>1. /\ frame[e].copy \in [Rule -> Target]
        /\ routes \in [Rule -> Target]
        /\ e \in Target
    BY DEF ControlOK, DataOK, Frame, Target
  <1> QED
    BY <1>1 DEF Written

LEMMA PutTableType ==
  ASSUME ControlOK, DataOK, NEW e \in Engine, PutTable(e)
  PROVE  ControlOK' /\ DataOK'
  <1>1. CallOk \/ CallFails
    BY DEF PutTable
  <1>2. routes' \in [Rule -> Target]
    BY WrittenType DEF PutTable, DataOK
  <1>3. DataOK'
    BY <1>1, <1>2, CallType DEF PutTable, DataOK, world, context, bounds, command
  <1>4. ControlOK'
    <2> DEFINE f == [frame[e] EXCEPT !.copy = NoTable, !.pos = @ + 1]
    <2>1. frame[e] \in Frame /\ frame[e].pos + 1 \in 1..NRules + 1
      BY NextRuleType DEF PutTable
    <2>2. NoTable \in [Rule -> Target]
      BY DEF NoTable, Target, Unsteered, Elsewhere
    <2>3. f \in Frame
      BY <2>1, <2>2 DEF Frame
    <2>4. frame' = [frame EXCEPT ![e] = f] /\ Goto(e, "rules")
      BY DEF PutTable
    <2> QED
      BY <2>3, <2>4, Moves DEF Label
  <1> QED
    BY <1>3, <1>4

LEMMA MovePublicIpType ==
  ASSUME ControlOK, DataOK, NEW e \in Engine, MovePublicIp(e)
  PROVE  ControlOK' /\ DataOK'
  <1>1. CallOk \/ CallFails
    BY DEF MovePublicIp
  <1>2. assignee' \in [PublicIps -> Engine]
    BY DEF MovePublicIp, DataOK
  <1>3. DataOK'
    BY <1>1, <1>2, CallType DEF MovePublicIp, DataOK, world, context, bounds, command
  <1>4. PICK p \in frame[e].toMove : frame' = [frame EXCEPT ![e].toMove = @ \ {p}]
    BY DEF MovePublicIp
  <1>5. ControlOK'
    <2> DEFINE f == [frame[e] EXCEPT !.toMove = @ \ {p}]
    <2>1. frame[e] \in Frame
      BY DEF ControlOK
    <2>2. f \in Frame
      BY <2>1 DEF Frame
    <2>3. frame' = [frame EXCEPT ![e] = f]
      BY <1>4
    <2> QED
      BY <2>2, <2>3, Stays DEF MovePublicIp, PastRules
  <1> QED
    BY <1>3, <1>5

LEMMA EndIterationType ==
  ASSUME ControlOK, DataOK, NEW e \in Engine, EndIteration(e)
  PROVE  ControlOK' /\ DataOK'
  <1>1. ControlOK'
    BY ReturnType DEF EndIteration
  <1> QED
    BY <1>1 DEF EndIteration, DataOK, cloud, world, context, bounds, command

LEMMA StartScriptType ==
  ASSUME ControlOK, DataOK, NEW e \in Engine, StartScript(e)
  PROVE  ControlOK' /\ DataOK'
  <1>1. ControlOK'
    BY MovesOn DEF StartScript, Label
  <1> QED
    BY <1>1 DEF StartScript, DataOK, cloud, world, context, bounds, command

LEMMA CrashScriptType ==
  ASSUME ControlOK, DataOK, NEW e \in Engine, CrashScript(e)
  PROVE  ControlOK' /\ DataOK'
  <1>1. ControlOK'
    BY NoFrameType, Moves DEF CrashScript, Label
  <1>2. crashes' \in 0..MaxCrashes
    BY HAPairAssumption DEF CrashScript, DataOK
  <1>3. /\ fails' \in [Engine -> 0..ProbeMaxFail]
        /\ prevLocal' \in Status \cup {"none"}
        /\ prevActive' \in {"none", "active", "inactive"}
    BY HAPairAssumption DEF CrashScript, DataOK
  <1> QED
    BY <1>1, <1>2, <1>3 DEF CrashScript, DataOK, cloud, world, command

LEMMA EventType == ASSUME DataOK, Event PROVE events' \in 0..MaxEvents
  BY HAPairAssumption DEF DataOK, Event

LEMMA SetStatusType ==
  ASSUME ControlOK, DataOK, NEW e \in Engine, SetStatus(e)
  PROVE  ControlOK' /\ DataOK'
  <1>1. status' \in [Engine -> Status]
    BY DEF SetStatus, DataOK
  <1>2. handedOver' = FALSE \/ handedOver' = handedOver
    BY DEF SetStatus
  <1>3. handedOver' \in BOOLEAN
    BY <1>2 DEF DataOK
  <1> QED
    BY <1>1, <1>3, EventType DEF SetStatus, DataOK, ControlOK, UpdatesARule, cloud, world, context

LEMMA FlipReachType == ASSUME ControlOK, DataOK, FlipReach PROVE ControlOK' /\ DataOK'
  BY EventType DEF FlipReach, DataOK, ControlOK, UpdatesARule, cloud, context, command

LEMMA FlipRemoteType == ASSUME ControlOK, DataOK, FlipRemote PROVE ControlOK' /\ DataOK'
  BY EventType DEF FlipRemote, DataOK, ControlOK, UpdatesARule, cloud, context, command

LEMMA EditRuleType == ASSUME ControlOK, DataOK, EditRule PROVE ControlOK' /\ DataOK'
  <1>1. routes' \in [Rule -> Target]
    BY HAPairAssumption DEF EditRule, DataOK
  <1> QED
    BY <1>1, EventType DEF EditRule, DataOK, ControlOK, UpdatesARule, world, context, command

LEMMA StutterType == ASSUME ControlOK, DataOK, UNCHANGED vars PROVE ControlOK' /\ DataOK'
  BY DEF vars, cloud, world, context, bounds, command, DataOK, ControlOK, UpdatesARule

LEMMA TypeInvStep == TypeInv /\ [Next]_vars => TypeInv'
  <1> SUFFICES ASSUME ControlOK, DataOK, [Next]_vars PROVE ControlOK' /\ DataOK'
    BY Halves
  <1>1. CASE PrimaryOnly
    BY <1>1, PrimaryBeginType, PrimaryNotifyType, PrimaryProbeType, PrimaryRuleType
    DEF PrimaryOnly
  <1>2. CASE SecondaryOnly
    BY <1>2, SecondaryBeginType, SecondaryReadTagType, SecondaryProbeType,
       SecondaryResolvedType, SecondaryRuleType
    DEF SecondaryOnly
  <1>3. ASSUME NEW e \in Engine, Shared(e) PROVE ControlOK' /\ DataOK'
    BY <1>3, ResolvePublicIpType, RouteInfoFailsType, SkipRuleType, GetTableType,
       PutTableType, MovePublicIpType, EndIterationType
    DEF Shared
  <1>4. CASE Environment
    BY <1>4, StartScriptType, CrashScriptType, SetStatusType, FlipReachType, FlipRemoteType,
       EditRuleType
    DEF Environment
  <1>5. CASE UNCHANGED vars
    BY <1>5, StutterType
  <1> QED
    BY <1>1, <1>2, <1>3, <1>4, <1>5 DEF Next, Script

LEMMA TypeInvariant == Spec => []TypeInv
  BY TypeInvInit, TypeInvStep, PTL DEF Spec

\* Every variable keeps its type, in every configuration: the scripts never
\* count beyond the rules they iterate over nor beyond probe_max_fail.
THEOREM TypeCorrect == Spec => []TypeOK
  BY TypeInvariant, PTL DEF TypeInv
=============================================================================
