-------------------------- MODULE HealthyPairProofs --------------------------
(***************************************************************************)
(* Failing OCI calls, failing sg-cluster commands and restarts never make  *)
(* the scripts of a healthy pair fail over.                                *)
(***************************************************************************)
EXTENDS HAPairActionProofs

\* The world and what the scripts may come to know of it while no operator, no
\* network and no cloud event has happened.
HealthyWorld ==
    /\ \A i \in Rule : routes[i] \in {"primary", "other"}
    /\ \A p \in PublicIps : assignee[p] = "primary"
    /\ status["primary"] = "online"
    /\ reach /\ remoteUp
    /\ tag # "offline"

HealthyContext ==
    /\ fails = [e \in Engine |-> 0]
    /\ prevLocal # "offline"
    /\ prevActive # "inactive"

HealthyView(e) ==
    /\ pc[e] \notin {"get", "put"}
    /\ \A i \in Rule : frame[e].snap[i] \in {"primary", "other"}
    /\ frame[e].toMove = {}
    /\ frame[e].probeFailed = FALSE
    /\ frame[e].primaryStatus # "offline"
    /\ e = "primary" => pc[e] \in {"down", "start"} \/ frame[e].local = "online"
    /\ e = "primary" => pc[e] # "tag"

Healthy == HealthyWorld /\ HealthyContext /\ \A e \in Engine : HealthyView(e)

HealthyInv == events = 0 /\ ProbeIpSet => Healthy

LEMMA HealthyInit == Init => HealthyInv
  <1> SUFFICES ASSUME Init PROVE Healthy
    BY DEF HealthyInv
  <1>1. HealthyWorld
    BY HAPairAssumption DEF Init, HealthyWorld, Engine
  <1>2. HealthyContext
    BY DEF Init, HealthyContext
  <1>3. \A e \in Engine : HealthyView(e)
    BY DEF Init, HealthyView, NoFrame, NoTable
  <1> QED
    BY <1>1, <1>2, <1>3 DEF Healthy

LEMMA ProbeAnswered ==
  ASSUME NEW n
  PROVE  CountAfter(n, ProbeMaxFail, TRUE) = 0 /\ ProbeFails(n, ProbeMaxFail, TRUE) = FALSE
  BY DEF CountAfter, ProbeFails

LEMMA HealthyTarget ==
  ASSUME Healthy, NEW e \in Engine, NEW i \in Rule
  PROVE  View(e)[i] \in {"primary", "other"}
  BY DEF Healthy, HealthyWorld, HealthyView, View

\* A handler that starts, returns or crashes has a fresh frame.
LEMMA FreshView ==
  ASSUME NEW e \in Engine, pc'[e] \in {"down", "start"}, frame'[e] = NoFrame
  PROVE  HealthyView(e)'
  BY DEF HealthyView, NoFrame, NoTable

LEMMA HealthyRule ==
  ASSUME Healthy, TypeInv, NEW e \in Engine, AtRule(e), NEW local, local = frame[e].local,
         Decide(e, local, FALSE)
  PROVE  HealthyView(e)'
  <1>1. pc \in [Engine -> Label] /\ frame \in [Engine -> Frame]
    BY DEF TypeInv, TypeOK
  <1>2. /\ pc'[e] = "rules" /\ pc[e] = "rules"
        /\ frame'[e].snap = View(e)
        /\ frame'[e].local = frame[e].local
        /\ frame'[e].toMove = frame[e].toMove
        /\ frame'[e].probeFailed = frame[e].probeFailed
        /\ frame'[e].primaryStatus = frame[e].primaryStatus
    BY <1>1 DEF Decide, Goto, AtRule, Frame
  <1> QED
    BY <1>2, HealthyTarget DEF Healthy, HealthyView

LEMMA PrimaryHealthy ==
  ASSUME Healthy, TypeInv, PrimaryOnly
  PROVE  HealthyWorld' /\ HealthyContext' /\ HealthyView("primary")'
  <1>1. /\ pc \in [Engine -> Label] /\ frame \in [Engine -> Frame]
        /\ "primary" \in Engine /\ frame["primary"] \in Frame
    BY DEF TypeInv, TypeOK, Engine
  <1>2. HealthyWorld /\ HealthyContext /\ HealthyView("primary")
    BY <1>1 DEF Healthy
  <1>3. CASE PrimaryBegin
    <2>1. prevLocal' = "online" /\ pc'["primary"] = "resolve"
      BY <1>1, <1>2, <1>3
      DEF PrimaryBegin, Goto, HealthyWorld, HealthyContext, TypeInv, TypeOK, Status
    <2>2. HealthyView("primary")'
      BY <1>1, <1>2, <1>3, <2>1 DEF PrimaryBegin, HealthyView, HealthyWorld, Frame
    <2> QED
      BY <1>2, <1>3, <2>1, <2>2
      DEF PrimaryBegin, HealthyWorld, HealthyContext, cloud, world, command
  <1>4. ~PrimaryNotify
    BY <1>2 DEF PrimaryNotify, HealthyView
  <1>5. CASE PrimaryProbe
    <2>1. UNCHANGED <<command, frame>> /\ pc'["primary"] = "rules" /\ pc["primary"] = "resolve"
      BY <1>1, <1>2, <1>5, ProbeAnswered DEF PrimaryProbe, Goto, HealthyWorld
    <2>2. fails' = fails
      BY <1>2, <1>5, ProbeAnswered DEF PrimaryProbe, HealthyWorld, HealthyContext
    <2> QED
      BY <1>2, <1>5, <2>1, <2>2
      DEF PrimaryProbe, HealthyWorld, HealthyContext, HealthyView, cloud, world, command
  <1>6. CASE PrimaryRule
    <2>1. View("primary")[frame["primary"].pos] = "primary"
      BY <1>1, <1>6, HealthyTarget, AtRuleType, Halves DEF PrimaryRule, Unsteered, Elsewhere
    <2>2. LocalAfter(frame["primary"].local, TRUE) = frame["primary"].local
      BY DEF LocalAfter
    <2>3. UNCHANGED command /\ prevActive' # "inactive"
      BY <1>2, <1>6, <2>1, <2>2 DEF PrimaryRule, HealthyContext
    <2>4. AtRule("primary") /\ Decide("primary", frame["primary"].local, FALSE)
      BY <1>6, <2>1, <2>2 DEF PrimaryRule, PrimaryReroutes
    <2>5. HealthyView("primary")'
      BY <1>1, <2>4, HealthyRule
    <2> QED
      BY <1>2, <1>6, <2>3, <2>5
      DEF PrimaryRule, HealthyWorld, HealthyContext, cloud, world, command
  <1> QED
    BY <1>3, <1>4, <1>5, <1>6 DEF PrimaryOnly

LEMMA SecondaryHealthy ==
  ASSUME Healthy, ProbeIpSet, TypeInv, SecondaryOnly
  PROVE  HealthyWorld' /\ HealthyContext' /\ HealthyView("secondary")'
  <1>1. /\ pc \in [Engine -> Label] /\ frame \in [Engine -> Frame]
        /\ "secondary" \in Engine /\ frame["secondary"] \in Frame
    BY DEF TypeInv, TypeOK, Engine
  <1>2. HealthyWorld /\ HealthyContext /\ HealthyView("secondary")
    BY <1>1 DEF Healthy
  <1>3. HealthyWorld'
    BY <1>2
    DEF SecondaryOnly, SecondaryBegin, SecondaryReadTag, SecondaryProbe, SecondaryResolved,
        SecondaryRule, HealthyWorld, cloud, world, command
  <1>4. CASE SecondaryBegin
    <2>1. HealthyView("secondary")'
      BY <1>1, <1>2, <1>4 DEF SecondaryBegin, HealthyView, Goto, Frame
    <2> QED
      BY <1>2, <1>3, <1>4, <2>1 DEF SecondaryBegin, HealthyContext, context
  <1>5. CASE SecondaryReadTag
    <2>1. /\ pc'["secondary"] = "probe"
          /\ frame'["secondary"].snap = frame["secondary"].snap
          /\ frame'["secondary"].toMove = frame["secondary"].toMove
          /\ frame'["secondary"].probeFailed = frame["secondary"].probeFailed
      BY <1>1, <1>5 DEF SecondaryReadTag, Goto, Frame
    <2>2. frame'["secondary"].primaryStatus # "offline"
      BY <1>1, <1>2, <1>5 DEF SecondaryReadTag, PrimaryStatus, HealthyWorld, HealthyView, Frame
    <2>3. HealthyView("secondary")'
      BY <1>2, <2>1, <2>2 DEF HealthyView
    <2> QED
      BY <1>2, <1>3, <1>5, <2>3 DEF SecondaryReadTag, HealthyContext, context
  <1>6. CASE SecondaryProbe
    <2>1. SecondaryProbed(TRUE) /\ Goto("secondary", "resolve")
      BY <1>2, <1>6 DEF SecondaryProbe, HealthyWorld
    <2>2. CASE UNCHANGED <<fails, frame>>
      <3>1. HealthyView("secondary")'
        BY <1>1, <1>2, <2>1, <2>2 DEF HealthyView, Goto
      <3> QED
        BY <1>2, <1>3, <1>6, <2>2, <3>1 DEF SecondaryProbe, HealthyContext
    <2>3. CASE /\ fails' = [fails EXCEPT !["secondary"] = 0]
               /\ frame' = [frame EXCEPT !["secondary"].probeFailed = FALSE]
      <3>1. HealthyView("secondary")'
        BY <1>1, <1>2, <2>1, <2>3 DEF HealthyView, Goto, Frame
      <3>2. HealthyContext'
        BY <1>2, <1>6, <2>3 DEF SecondaryProbe, HealthyContext
      <3> QED
        BY <1>3, <3>1, <3>2
    <2> QED
      BY <2>1, <2>2, <2>3, ProbeAnswered DEF SecondaryProbed
  <1>7. CASE SecondaryResolved
    <2>1. HealthyView("secondary")'
      BY <1>1, <1>2, <1>7 DEF SecondaryResolved, HealthyView, Goto
    <2> QED
      BY <1>2, <1>3, <1>7, <2>1 DEF SecondaryResolved, HealthyContext, context
  <1>8. CASE SecondaryRule
    <2> DEFINE f == frame["secondary"]
    <2>1. View("secondary")[f.pos] = "primary"
      BY <1>1, <1>8, HealthyTarget, AtRuleType, Halves DEF SecondaryRule, Unsteered, Elsewhere
    <2>2. SecondaryReroutes(f, "primary") = FALSE
      BY <1>2 DEF SecondaryReroutes, HealthyView
    <2>3. AtRule("secondary") /\ Decide("secondary", f.local, FALSE)
      BY <1>8, <2>1, <2>2 DEF SecondaryRule
    <2>4. HealthyView("secondary")'
      BY <1>1, <2>3, HealthyRule
    <2> QED
      BY <1>2, <1>3, <1>8, <2>4 DEF SecondaryRule, HealthyContext, context
  <1> QED
    BY <1>4, <1>5, <1>6, <1>7, <1>8 DEF SecondaryOnly

LEMMA SharedHealthy ==
  ASSUME Healthy, TypeInv, NEW e \in Engine, Shared(e)
  PROVE  HealthyWorld' /\ HealthyContext' /\ HealthyView(e)'
  <1>1. /\ pc \in [Engine -> Label] /\ frame \in [Engine -> Frame] /\ frame[e] \in Frame
    BY DEF TypeInv, TypeOK
  <1>2. HealthyWorld /\ HealthyContext /\ HealthyView(e)
    BY DEF Healthy
  <1>3. CASE ResolvePublicIp(e)
    <2>1. PICK p \in frame[e].todo :
            \/ frame' = [frame EXCEPT ![e].todo = @ \ {p}]
            \/ frame' = [frame EXCEPT ![e].todo = @ \ {p},
                                      ![e].toMove = IF MustMove(e, p) THEN @ \cup {p} ELSE @]
      BY <1>3 DEF ResolvePublicIp
    <2>2. ~MustMove(e, p)
      <3>1. p \in PublicIps
        BY <1>1 DEF Frame
      <3> QED
        BY <1>2, <3>1 DEF MustMove, HealthyWorld, HealthyView, Engine
    <2>3. /\ frame'[e].snap = frame[e].snap
          /\ frame'[e].local = frame[e].local
          /\ frame'[e].toMove = frame[e].toMove
          /\ frame'[e].probeFailed = frame[e].probeFailed
          /\ frame'[e].primaryStatus = frame[e].primaryStatus
      BY <1>1, <2>1, <2>2 DEF Frame
    <2>4. HealthyView(e)'
      BY <1>2, <1>3, <2>3 DEF ResolvePublicIp, HealthyView
    <2> QED
      BY <1>2, <1>3, <2>4
      DEF ResolvePublicIp, HealthyWorld, HealthyContext, cloud, world, context, command
  <1>4. CASE RouteInfoFails(e) \/ EndIteration(e)
    <2>1. pc'[e] = "start" /\ frame'[e] = NoFrame
      BY <1>1, <1>4 DEF RouteInfoFails, EndIteration, Return, Goto
    <2> QED
      BY <1>2, <1>4, <2>1, FreshView
      DEF RouteInfoFails, EndIteration, HealthyWorld, HealthyContext, cloud, world, context,
          command
  <1>5. CASE SkipRule(e)
    <2>1. /\ pc' = pc
          /\ frame'[e].snap = View(e)
          /\ frame'[e].local = frame[e].local
          /\ frame'[e].toMove = frame[e].toMove
          /\ frame'[e].probeFailed = frame[e].probeFailed
          /\ frame'[e].primaryStatus = frame[e].primaryStatus
      BY <1>1, <1>5 DEF SkipRule, Frame
    <2>2. HealthyView(e)'
      BY <1>2, <2>1, HealthyTarget DEF HealthyView
    <2> QED
      BY <1>2, <1>5, <2>2
      DEF SkipRule, HealthyWorld, HealthyContext, cloud, world, context, command
  <1>6. ~GetTable(e) /\ ~PutTable(e) /\ ~MovePublicIp(e)
    BY <1>2 DEF GetTable, PutTable, MovePublicIp, HealthyView
  <1> QED
    BY <1>3, <1>4, <1>5, <1>6 DEF Shared

LEMMA CrashHealthy ==
  ASSUME Healthy, TypeInv, NEW e \in Engine, StartScript(e) \/ CrashScript(e)
  PROVE  HealthyWorld' /\ HealthyContext' /\ HealthyView(e)'
  <1>1. pc \in [Engine -> Label] /\ frame \in [Engine -> Frame]
    BY DEF TypeInv, TypeOK
  <1>2. HealthyWorld /\ HealthyContext /\ HealthyView(e)
    BY DEF Healthy
  <1>3. CASE StartScript(e)
    <2>1. HealthyView(e)'
      BY <1>1, <1>2, <1>3 DEF StartScript, Goto, HealthyView
    <2> QED
      BY <1>2, <1>3, <2>1
      DEF StartScript, HealthyWorld, HealthyContext, cloud, world, context, command
  <1>4. CASE CrashScript(e)
    <2>1. HealthyView(e)'
      BY <1>1, <1>4, FreshView DEF CrashScript, Goto
    <2>2. HealthyContext'
      BY <1>2, <1>4 DEF CrashScript, HealthyContext
    <2> QED
      BY <1>2, <1>4, <2>1, <2>2 DEF CrashScript, HealthyWorld, cloud, world, command
  <1> QED
    BY <1>3, <1>4

\* The events are never taken back.
LEMMA EventsStay == ASSUME TypeInv, [Next]_vars, events' = 0 PROVE events = 0
  <1>1. events \in Nat
    BY HAPairAssumption DEF TypeInv, TypeOK
  <1>2. ~Event
    BY <1>1 DEF Event
  <1> QED
    BY <1>2
    DEF Next, Environment, Script, PrimaryOnly, SecondaryOnly, Shared, PrimaryBegin,
        PrimaryNotify, PrimaryProbe, PrimaryRule, SecondaryBegin, SecondaryReadTag,
        SecondaryProbe, SecondaryResolved, SecondaryRule, ResolvePublicIp, RouteInfoFails,
        SkipRule, GetTable, PutTable, MovePublicIp, EndIteration, StartScript, CrashScript,
        SetStatus, FlipReach, FlipRemote, EditRule, bounds, vars

LEMMA HealthyStep ==
  ASSUME TypeInv, HealthyInv, [Next]_vars
  PROVE  HealthyInv'
  <1> SUFFICES ASSUME events' = 0, ProbeIpSet PROVE Healthy'
    BY DEF HealthyInv
  <1>1. events = 0
    BY EventsStay
  <1>2. ~Event
    BY <1>1 DEF Event
  <1>3. Healthy
    BY <1>1 DEF HealthyInv
  <1>4. ASSUME NEW e \in Engine, HealthyWorld', HealthyContext', HealthyView(e)',
               Script(e) \/ StartScript(e) \/ CrashScript(e)
        PROVE  Healthy'
    <2>1. ASSUME NEW d \in Engine \ {e} PROVE HealthyView(d)'
      <3>1. UNCHANGED <<pc[d], frame[d]>>
        BY <1>4, OtherIdle DEF StartScript, CrashScript, Goto, TypeInv, TypeOK
      <3> QED
        BY <1>3, <3>1 DEF Healthy, HealthyView
    <2> QED
      BY <1>4, <2>1 DEF Healthy
  <1>5. ASSUME NEW e \in Engine, Script(e) PROVE Healthy'
    BY <1>3, <1>4, <1>5, PrimaryHealthy, SecondaryHealthy, SharedHealthy DEF Script
  <1>6. ASSUME NEW e \in Engine, StartScript(e) \/ CrashScript(e) PROVE Healthy'
    BY <1>3, <1>4, <1>6, CrashHealthy
  <1>7. CASE UNCHANGED vars
    BY <1>3, <1>7
    DEF vars, cloud, world, context, bounds, command, Healthy, HealthyWorld, HealthyContext,
        HealthyView
  <1>8. ~(\E e \in Engine : SetStatus(e)) /\ ~FlipReach /\ ~FlipRemote /\ ~EditRule
    BY <1>2 DEF SetStatus, FlipReach, FlipRemote, EditRule
  <1> QED
    BY <1>5, <1>6, <1>7, <1>8 DEF Next, Environment

\* With probe_ip given, the scripts of a pair whose engines are online and
\* reach each other leave every rule and public IP with the primary and its
\* engine online, however often calls and commands fail and scripts restart.
THEOREM HealthyPairHolds == Spec => []HealthyPairNeverFailsOver
  <1>1. Init => TypeInv /\ HealthyInv
    BY TypeInvInit, HealthyInit
  <1>2. TypeInv /\ HealthyInv /\ [Next]_vars => TypeInv' /\ HealthyInv'
    BY TypeInvStep, HealthyStep
  <1>3. HealthyInv => HealthyPairNeverFailsOver
    BY DEF HealthyInv, Healthy, HealthyWorld, HealthyPairNeverFailsOver, CarriedBy, Unsteered,
           Elsewhere
  <1> QED
    BY <1>1, <1>2, <1>3, PTL DEF Spec
=============================================================================
