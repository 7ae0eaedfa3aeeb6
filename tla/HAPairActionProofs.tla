------------------------- MODULE HAPairActionProofs -------------------------
(***************************************************************************)
(* What a step of the pair may never do: a primary that has put itself     *)
(* offline takes no rule back, a rule that leads to neither engine is kept,*)
(* a script with dry_run changes nothing, and the secondary takes nothing  *)
(* without a reason.  Each part has the invariant it needs.                *)
(***************************************************************************)
EXTENDS HAPairProofs

-----------------------------------------------------------------------------
(* No ping-pong, provided that sg-cluster works: set_local_status's result *)
(* is ignored, and the next iteration believes what get_local_status says. *)

\* From the moment the script decides to put the engine offline, the engine is
\* and the script knows.
HandoverInv ==
    handedOver => status["primary"] = "offline" /\ frame["primary"].local = "offline"

LEMMA HandoverInit == Init => HandoverInv
  BY DEF Init, HandoverInv

\* An action that leaves the command variables alone and the primary's view of
\* its status as it is, or forgets it.
LEMMA Keeps ==
  ASSUME HandoverInv, UNCHANGED command,
         frame'["primary"].local \in {frame["primary"].local, "offline"}
  PROVE  HandoverInv'
  BY DEF HandoverInv, command

LEMMA GoesOffline ==
  ASSUME MaxCmdFaults = 0, TypeInv, GoOffline
  PROVE  UNCHANGED command \/ status'["primary"] = "offline"
  BY DEF GoOffline, TypeInv, TypeOK, Engine

LEMMA PrimaryHandover ==
  ASSUME MaxCmdFaults = 0, TypeInv, HandoverInv, PrimaryOnly
  PROVE  HandoverInv'
  <1>1. "primary" \in Engine /\ frame["primary"] \in Frame /\ frame \in [Engine -> Frame]
    BY DEF TypeInv, TypeOK, Engine
  <1>2. CASE PrimaryBegin
    <2>1. frame'["primary"].local = status["primary"]
      BY <1>1, <1>2 DEF PrimaryBegin, Frame
    <2> QED
      BY <1>2, <2>1 DEF PrimaryBegin, HandoverInv, command
  <1>3. CASE PrimaryNotify
    BY <1>3, Keeps DEF PrimaryNotify
  <1>4. CASE PrimaryProbe
    <2>1. CASE GoOffline /\ Return("primary")
      <3>1. frame'["primary"].local = "offline"
        BY <1>1, <2>1 DEF Return, NoFrame
      <3> QED
        BY <2>1, <3>1, Keeps, GoesOffline DEF HandoverInv
    <2>2. CASE UNCHANGED <<command, frame>>
      BY <2>2, Keeps
    <2> QED
      BY <1>4, <2>1, <2>2 DEF PrimaryProbe
  <1>5. CASE PrimaryRule
    <2> DEFINE local == frame["primary"].local
               after == LocalAfter(local, View("primary")[frame["primary"].pos] = "primary")
    <2>1. frame'["primary"].local = after
      BY <1>1, <1>5 DEF PrimaryRule, Decide, Frame
    <2>2. CASE after # local
      <3>1. GoOffline /\ after = "offline"
        BY <1>5, <2>2 DEF PrimaryRule, LocalAfter
      <3> QED
        BY <2>1, <3>1, Keeps, GoesOffline DEF HandoverInv
    <2>3. CASE after = local
      <3>1. UNCHANGED command
        BY <1>5, <2>3 DEF PrimaryRule
      <3> QED
        BY <2>1, <2>3, <3>1, Keeps
    <2> QED
      BY <2>2, <2>3
  <1> QED
    BY <1>2, <1>3, <1>4, <1>5 DEF PrimaryOnly

LEMMA SecondaryHandover ==
  ASSUME TypeInv, HandoverInv, SecondaryOnly
  PROVE  HandoverInv'
  <1>1. frame \in [Engine -> Frame] /\ "primary" \in Engine
    BY DEF TypeInv, TypeOK, Engine
  <1>2. UNCHANGED command
    BY DEF SecondaryOnly, SecondaryBegin, SecondaryReadTag, SecondaryProbe, SecondaryResolved,
           SecondaryRule
  <1>3. frame'["primary"] = frame["primary"]
    BY <1>1
    DEF SecondaryOnly, SecondaryBegin, SecondaryReadTag, SecondaryProbe, SecondaryProbed,
        SecondaryResolved, SecondaryRule, Decide
  <1> QED
    BY <1>2, <1>3, Keeps

LEMMA SharedHandover ==
  ASSUME TypeInv, HandoverInv, NEW e \in Engine, Shared(e)
  PROVE  HandoverInv'
  <1>1. /\ frame \in [Engine -> Frame]
        /\ frame["primary"] \in Frame
        /\ "primary" \in Engine
    BY DEF TypeInv, TypeOK, Engine
  <1>2. UNCHANGED command
    BY DEF Shared, ResolvePublicIp, RouteInfoFails, SkipRule, GetTable, PutTable,
           MovePublicIp, EndIteration
  <1>3. frame'["primary"].local \in {frame["primary"].local, "offline"}
    <2>1. CASE ResolvePublicIp(e)
      BY <1>1, <2>1 DEF ResolvePublicIp, Frame
    <2>2. CASE RouteInfoFails(e) \/ EndIteration(e)
      BY <1>1, <2>2 DEF RouteInfoFails, EndIteration, Return, NoFrame
    <2>3. CASE SkipRule(e)
      BY <1>1, <2>3 DEF SkipRule, Frame
    <2>4. CASE GetTable(e)
      BY <1>1, <2>4 DEF GetTable, Frame
    <2>5. CASE PutTable(e)
      BY <1>1, <2>5 DEF PutTable, Frame
    <2>6. CASE MovePublicIp(e)
      BY <1>1, <2>6 DEF MovePublicIp, Frame
    <2> QED
      BY <2>1, <2>2, <2>3, <2>4, <2>5, <2>6 DEF Shared
  <1> QED
    BY <1>2, <1>3, Keeps

LEMMA EnvironmentHandover ==
  ASSUME TypeInv, HandoverInv, Environment
  PROVE  HandoverInv'
  <1>1. /\ frame \in [Engine -> Frame]
        /\ status \in [Engine -> Status]
        /\ "primary" \in Engine
    BY DEF TypeInv, TypeOK, Engine
  <1>2. ASSUME NEW e \in Engine, StartScript(e) \/ CrashScript(e) PROVE HandoverInv'
    <2>1. frame'["primary"].local \in {frame["primary"].local, "offline"}
      BY <1>1, <1>2 DEF StartScript, CrashScript, NoFrame
    <2> QED
      BY <1>2, <2>1, Keeps DEF StartScript, CrashScript
  <1>3. ASSUME NEW e \in Engine, SetStatus(e) PROVE HandoverInv'
    BY <1>1, <1>3 DEF SetStatus, HandoverInv
  <1>4. CASE FlipReach \/ FlipRemote \/ EditRule
    BY <1>4, Keeps DEF FlipReach, FlipRemote, EditRule
  <1> QED
    BY <1>2, <1>3, <1>4 DEF Environment

LEMMA HandoverStep ==
  ASSUME MaxCmdFaults = 0, TypeInv, HandoverInv, [Next]_vars
  PROVE  HandoverInv'
  <1>1. CASE UNCHANGED vars
    BY <1>1, Keeps DEF vars
  <1>2. CASE Next
    BY <1>2, PrimaryHandover, SecondaryHandover, SharedHandover, EnvironmentHandover
    DEF Next, Script
  <1> QED
    BY <1>1, <1>2

LEMMA HandoverInvariant ==
  ASSUME MaxCmdFaults = 0
  PROVE  Spec => [](TypeInv /\ HandoverInv)
  <1>1. Init => TypeInv /\ HandoverInv
    BY TypeInvInit, HandoverInit
  <1>2. TypeInv /\ HandoverInv /\ [Next]_vars => TypeInv' /\ HandoverInv'
    BY TypeInvStep, HandoverStep
  <1> QED
    BY <1>1, <1>2, PTL DEF Spec

\* Only a script that is writing a table and an operator change a rule.
LEMMA WhoWrites ==
  ASSUME TypeInv, [Next]_vars, routes' # routes
  PROVE  (\E e \in Engine : PutTable(e)) \/ EditRule
  <1>1. ~PrimaryOnly
    BY DEF PrimaryOnly, PrimaryBegin, PrimaryNotify, PrimaryProbe, PrimaryRule, cloud
  <1>2. ~SecondaryOnly
    BY DEF SecondaryOnly, SecondaryBegin, SecondaryReadTag, SecondaryProbe, SecondaryResolved,
           SecondaryRule, cloud
  <1>3. \A e \in Engine : Shared(e) => PutTable(e)
    BY DEF Shared, ResolvePublicIp, RouteInfoFails, SkipRule, GetTable, MovePublicIp,
           EndIteration, cloud
  <1>4. Environment => EditRule
    BY DEF Environment, StartScript, CrashScript, SetStatus, FlipReach, FlipRemote, cloud
  <1>5. ~UNCHANGED vars
    BY DEF vars, cloud
  <1> QED
    BY <1>1, <1>2, <1>3, <1>4, <1>5 DEF Next, Script

LEMMA NoPingPongStep ==
  ASSUME TypeInv, HandoverInv, [Next]_vars, handedOver, Acts("primary")
  PROVE  routes' = routes
  <1> SUFFICES ASSUME routes' # routes PROVE FALSE
    OBVIOUS
  <1>1. pc \in [Engine -> Label] /\ frame \in [Engine -> Frame] /\ "primary" \in Engine
    BY DEF TypeInv, TypeOK, Engine
  <1>2. ~EditRule
    BY DEF EditRule, Acts
  <1>3. ~PutTable("secondary")
    BY <1>1 DEF PutTable, Goto, Acts
  <1>4. ~PutTable("primary")
    BY <1>1 DEF PutTable, HandoverInv, TypeInv, UpdatesARule
  <1> QED
    BY <1>2, <1>3, <1>4, WhoWrites DEF Engine

\* After the primary has put itself offline it does not point a rule to itself
\* until somebody sets its status, if every sg-cluster command works.  Nothing
\* is assumed of the OCI calls, of crashes or of the other engine.
THEOREM NoPingPongHolds ==
  ASSUME MaxCmdFaults = 0
  PROVE  Spec => NoPingPong
  <1>1. TypeInv /\ HandoverInv /\ [Next]_vars
          => [handedOver /\ Acts("primary") => routes' = routes]_vars
    BY NoPingPongStep
  <1> QED
    BY <1>1, HandoverInvariant, PTL DEF Spec, NoPingPong

-----------------------------------------------------------------------------
(* The rules that lead elsewhere.  What a script has read of a table may be *)
(* old: an operator may have changed or removed such a rule since.  So the *)
(* invariant speaks of all that is known of a rule, in the table and in    *)
(* the scripts: it leads elsewhere nowhere, or to an engine nowhere.       *)

\* An operator makes no rule of the pair lead elsewhere, nor the other way
\* round, and does not add again what was removed: that could be either.
EditsKeepSides ==
    \A edit \in Edits :
        /\ edit[1] # "absent"
        /\ edit[1] \in Elsewhere => edit[2] \in Unsteered
        /\ edit[2] \in Elsewhere => edit[1] \in Elsewhere

\* e is not about to write that rule i leads elsewhere ...
Spares(e, i) == pc[e] = "put" => frame[e].copy[i] \notin Elsewhere

\* ... or to an engine, and has not seen that it did.
Leaves(e, i) ==
    /\ frame[e].snap[i] \in Unsteered
    /\ pc[e] \in {"get", "put"} => frame[e].pos # i
    /\ pc[e] = "put" => frame[e].copy[i] \in Unsteered

OfThePair(i) == routes[i] \notin Elsewhere /\ \A e \in Engine : Spares(e, i)
Foreign(i) == routes[i] \in Unsteered /\ \A e \in Engine : Leaves(e, i)

ForeignInv == \A i \in Rule : OfThePair(i) \/ Foreign(i)

LEMMA ForeignInit == Init => ForeignInv
  BY HAPairAssumption
  DEF Init, ForeignInv, OfThePair, Foreign, Spares, Leaves, NoFrame, NoTable, Unsteered, Elsewhere

LEMMA WrittenRule ==
  ASSUME TypeInv, NEW e \in Engine, PutTable(e), NEW i \in Rule
  PROVE  routes'[i] \in {e, routes[i], frame[e].copy[i]} /\ pc[e] = "put"
         /\ (frame[e].pos # i => routes'[i] \in {routes[i], frame[e].copy[i]})
  BY DEF PutTable, Written

\* A rule stays on its side ...
LEMMA SideKept ==
  ASSUME EditsKeepSides, TypeInv, [Next]_vars, NEW i \in Rule
  PROVE  /\ OfThePair(i) => routes'[i] \notin Elsewhere
         /\ Foreign(i) => routes'[i] \in Unsteered
  <1>1. CASE UNCHANGED routes
    BY <1>1 DEF OfThePair, Foreign
  <1>2. CASE EditRule
    <2>1. routes \in [Rule -> Target] /\ Edits \subseteq Target \X Target
      BY HAPairAssumption DEF TypeInv, TypeOK
    <2>2. PICK j \in Rule, edit \in Edits :
             routes[j] = edit[1] /\ routes' = [routes EXCEPT ![j] = edit[2]]
      BY <1>2 DEF EditRule
    <2>3. CASE i # j
      BY <2>1, <2>2, <2>3 DEF OfThePair, Foreign
    <2>4. CASE i = j
      BY <2>1, <2>2, <2>4 DEF OfThePair, Foreign, EditsKeepSides, Unsteered
    <2> QED
      BY <2>3, <2>4
  <1>3. ASSUME NEW e \in Engine, PutTable(e)
        PROVE  /\ OfThePair(i) => routes'[i] \notin Elsewhere
               /\ Foreign(i) => routes'[i] \in Unsteered
    <2>1. e \notin Elsewhere
      BY DEF Engine, Elsewhere
    <2> QED
      BY <1>3, <2>1, WrittenRule DEF OfThePair, Foreign, Spares, Leaves
  <1> QED
    BY <1>1, <1>2, <1>3, WhoWrites

\* ... and so it does in what a script that does not look again knows,
LEMMA SidesStill ==
  ASSUME NEW e \in Engine, NEW i \in Rule, UNCHANGED <<pc[e], frame[e]>>
  PROVE  (Spares(e, i) => Spares(e, i)') /\ (Leaves(e, i) => Leaves(e, i)')
  BY DEF Spares, Leaves

\* in steps that neither look at a table nor go on to write one,
LEMMA SidesIdle ==
  ASSUME NEW e \in Engine, NEW i \in Rule, pc'[e] \notin {"get", "put"},
         frame'[e].snap \in {frame[e].snap, NoTable}
  PROVE  Spares(e, i)' /\ (Leaves(e, i) => Leaves(e, i)')
  BY DEF Spares, Leaves, NoTable, Unsteered, Elsewhere

\* and where the script looks at a rule.
LEMMA ViewLeaves ==
  ASSUME NEW e \in Engine, NEW i \in Rule, Leaves(e, i), routes[i] \in Unsteered
  PROVE  View(e)[i] \in Unsteered
  BY DEF Leaves, View

LEMMA DecideSides ==
  ASSUME NEW e \in Engine, NEW i \in Rule, TypeInv,
         AtRule(e), View(e)[frame[e].pos] \notin Unsteered,
         NEW local, NEW reroute, Decide(e, local, reroute)
  PROVE  /\ Spares(e, i)'
         /\ Leaves(e, i) /\ routes[i] \in Unsteered => Leaves(e, i)'
  <1>1. /\ pc \in [Engine -> Label] /\ frame \in [Engine -> Frame]
        /\ frame[e].pos \in Rule
    BY AtRuleType, Halves DEF TypeInv, TypeOK
  <1>2. frame'[e].snap = View(e) /\ pc'[e] # "put"
    BY <1>1 DEF Decide, Goto, Frame
  <1>3. pc'[e] = "get" => frame'[e].pos = frame[e].pos
    BY <1>1 DEF Decide, Goto, Frame
  <1>4. ASSUME Leaves(e, i), routes[i] \in Unsteered PROVE Leaves(e, i)'
    <2>1. View(e)[i] \in Unsteered /\ frame[e].pos # i
      BY <1>4, ViewLeaves
    <2> QED
      BY <1>2, <1>3, <2>1 DEF Leaves
  <1> QED
    BY <1>2, <1>4 DEF Spares

LEMMA SidesOwnStep ==
  ASSUME NEW e \in Engine, NEW i \in Rule, TypeInv, Script(e)
  PROVE  /\ Spares(e, i) /\ routes[i] \notin Elsewhere => Spares(e, i)'
         /\ Leaves(e, i) /\ routes[i] \in Unsteered => Leaves(e, i)'
  <1>1. pc \in [Engine -> Label] /\ frame \in [Engine -> Frame] /\ frame[e] \in Frame
    BY DEF TypeInv, TypeOK
  <1>2. CASE e = "primary" /\ PrimaryOnly
    <2>1. CASE PrimaryBegin
      BY <1>1, <1>2, <2>1, SidesIdle DEF PrimaryBegin, Goto, Frame
    <2>2. CASE PrimaryNotify
      BY <1>1, <1>2, <2>2, SidesIdle DEF PrimaryNotify, Goto
    <2>3. CASE PrimaryProbe
      BY <1>1, <1>2, <2>3, SidesIdle DEF PrimaryProbe, Return, NoFrame, Goto
    <2>4. CASE PrimaryRule
      BY <1>2, <2>4, DecideSides DEF PrimaryRule
    <2> QED
      BY <1>2, <2>1, <2>2, <2>3, <2>4 DEF PrimaryOnly
  <1>3. CASE e = "secondary" /\ SecondaryOnly
    <2>1. CASE SecondaryBegin
      BY <1>1, <1>3, <2>1, SidesIdle DEF SecondaryBegin, Goto, Frame
    <2>2. CASE SecondaryReadTag
      BY <1>1, <1>3, <2>2, SidesIdle DEF SecondaryReadTag, Goto, Frame
    <2>3. CASE SecondaryProbe
      <3>1. frame'[e].snap = frame[e].snap
        <4>1. PICK connected : SecondaryProbed(connected)
          BY <2>3 DEF SecondaryProbe
        <4> QED
          BY <1>1, <1>3, <4>1 DEF SecondaryProbed, Frame
      <3>2. pc'[e] = "resolve"
        BY <1>1, <1>3, <2>3 DEF SecondaryProbe, Goto
      <3> QED
        BY <3>1, <3>2, SidesIdle
    <2>4. CASE SecondaryResolved
      BY <1>1, <1>3, <2>4, SidesIdle DEF SecondaryResolved, Goto
    <2>5. CASE SecondaryRule
      BY <1>3, <2>5, DecideSides DEF SecondaryRule
    <2> QED
      BY <1>3, <2>1, <2>2, <2>3, <2>4, <2>5 DEF SecondaryOnly
  <1>4. CASE Shared(e)
    <2>1. CASE ResolvePublicIp(e)
      BY <1>1, <2>1, SidesIdle DEF ResolvePublicIp, Frame
    <2>2. CASE RouteInfoFails(e) \/ EndIteration(e)
      BY <1>1, <2>2, SidesIdle DEF RouteInfoFails, EndIteration, Return, NoFrame, Goto
    <2>3. CASE SkipRule(e)
      <3>1. frame'[e].snap = View(e) /\ pc'[e] = "rules"
        BY <1>1, <2>3 DEF SkipRule, AtRule, Frame
      <3> QED
        BY <3>1, ViewLeaves DEF Spares, Leaves
    <2>4. CASE GetTable(e)
      <3>1. CASE Goto(e, "rules") /\ frame' = [frame EXCEPT ![e].pos = @ + 1]
        BY <1>1, <3>1, SidesIdle DEF Goto, Frame
      <3>2. CASE frame' = [frame EXCEPT ![e].copy = routes]
        <4>1. /\ frame'[e].copy = routes /\ frame'[e].snap = frame[e].snap
              /\ frame'[e].pos = frame[e].pos /\ pc[e] = "get"
          BY <1>1, <2>4, <3>2 DEF GetTable, Frame
        <4> QED
          BY <4>1 DEF Spares, Leaves
      <3> QED
        BY <2>4, <3>1, <3>2 DEF GetTable
    <2>5. CASE PutTable(e)
      BY <1>1, <2>5, SidesIdle DEF PutTable, Goto, Frame
    <2>6. CASE MovePublicIp(e)
      BY <1>1, <2>6, SidesIdle DEF MovePublicIp, PastRules, Frame
    <2> QED
      BY <1>4, <2>1, <2>2, <2>3, <2>4, <2>5, <2>6 DEF Shared
  <1> QED
    BY <1>2, <1>3, <1>4 DEF Script

\* A step is a step of at most one script.
LEMMA OtherIdle ==
  ASSUME TypeInv, NEW e \in Engine, NEW d \in Engine \ {e}, Script(d)
  PROVE  UNCHANGED <<pc[e], frame[e]>>
  <1>1. pc \in [Engine -> Label] /\ frame \in [Engine -> Frame]
    BY DEF TypeInv, TypeOK
  <1>2. CASE d = "primary" /\ PrimaryOnly
    BY <1>1, <1>2
    DEF PrimaryOnly, PrimaryBegin, PrimaryNotify, PrimaryProbe, PrimaryRule, Decide, Return, Goto
  <1>3. CASE d = "secondary" /\ SecondaryOnly
    BY <1>1, <1>3
    DEF SecondaryOnly, SecondaryBegin, SecondaryReadTag, SecondaryProbe, SecondaryProbed,
        SecondaryResolved, SecondaryRule, Decide, Goto
  <1>4. CASE Shared(d)
    BY <1>1, <1>4
    DEF Shared, ResolvePublicIp, RouteInfoFails, SkipRule, GetTable, PutTable, MovePublicIp,
        EndIteration, Return, Goto
  <1> QED
    BY <1>2, <1>3, <1>4 DEF Script

LEMMA SidesKnown ==
  ASSUME NEW e \in Engine, NEW i \in Rule, TypeInv, [Next]_vars
  PROVE  /\ Spares(e, i) /\ routes[i] \notin Elsewhere => Spares(e, i)'
         /\ Leaves(e, i) /\ routes[i] \in Unsteered => Leaves(e, i)'
  <1>1. pc \in [Engine -> Label] /\ frame \in [Engine -> Frame]
    BY DEF TypeInv, TypeOK
  <1>2. CASE Script(e)
    BY <1>2, SidesOwnStep
  <1>3. ASSUME StartScript(e) \/ CrashScript(e)
        PROVE  Spares(e, i)' /\ (Leaves(e, i) => Leaves(e, i)')
    BY <1>1, <1>3, SidesIdle DEF StartScript, CrashScript, Goto, NoFrame
  <1>4. ASSUME NEW d \in Engine \ {e}, Script(d) \/ StartScript(d) \/ CrashScript(d)
        PROVE  UNCHANGED <<pc[e], frame[e]>>
    BY <1>1, <1>4, OtherIdle DEF StartScript, CrashScript, Goto
  <1>5. CASE UNCHANGED <<pc, frame>>
    BY <1>5, SidesStill
  <1>6. Environment => \/ \E d \in Engine : StartScript(d) \/ CrashScript(d)
                       \/ UNCHANGED <<pc, frame>>
    BY DEF Environment, SetStatus, FlipReach, FlipRemote, EditRule
  <1> QED
    BY <1>2, <1>3, <1>4, <1>5, <1>6, SidesStill DEF Next, vars

LEMMA SideStep ==
  ASSUME EditsKeepSides, TypeInv, [Next]_vars, NEW i \in Rule
  PROVE  (OfThePair(i) => OfThePair(i)') /\ (Foreign(i) => Foreign(i)')
  BY SideKept, SidesKnown DEF OfThePair, Foreign

LEMMA ForeignStep ==
  ASSUME EditsKeepSides, TypeInv, ForeignInv, [Next]_vars
  PROVE  ForeignInv'
  BY SideStep DEF ForeignInv

\* A rule that leads elsewhere never comes to lead to an engine, whatever calls
\* fail, however the two scripts interleave and though operators change and
\* remove such rules, and the pair's, between the reading and the writing of a
\* table.
THEOREM ForeignRulesKeptHolds ==
  ASSUME EditsKeepSides
  PROVE  Spec => ForeignRulesKept
  <1>1. Init => TypeInv /\ ForeignInv
    BY TypeInvInit, ForeignInit
  <1>2. TypeInv /\ ForeignInv /\ [Next]_vars => TypeInv' /\ ForeignInv'
    BY TypeInvStep, ForeignStep
  <1>3. TypeInv /\ ForeignInv /\ [Next]_vars
          => [\A i \in Rule : routes[i] \in Elsewhere => routes'[i] \in Unsteered]_vars
    BY SideKept DEF ForeignInv, OfThePair
  <1> QED
    BY <1>1, <1>2, <1>3, PTL DEF Spec, ForeignRulesKept

-----------------------------------------------------------------------------
(* Dry-run is tested in four functions: the proof has to find a test on    *)
(* every way to a change.                                                  *)

\* Such a script is never about to update a route table.
DryInv == \A e \in dryRun : pc[e] \notin {"get", "put"}

Harmless == UNCHANGED <<cloud, status>>

LEMMA DryInit == Init => DryInv
  BY HAPairAssumption DEF Init, DryInv

LEMMA DryEngines == TypeInv => dryRun \subseteq Engine
  BY DEF TypeInv, TypeOK

LEMMA DryRunIsFixed == ASSUME [Next]_vars PROVE dryRun' = dryRun
  <1>1. CASE PrimaryOnly
    BY <1>1 DEF PrimaryOnly, PrimaryBegin, PrimaryNotify, PrimaryProbe, PrimaryRule, world
  <1>2. CASE SecondaryOnly
    BY <1>2 DEF SecondaryOnly, SecondaryBegin, SecondaryReadTag, SecondaryProbe,
                SecondaryResolved, SecondaryRule, world
  <1>3. ASSUME NEW e \in Engine, Shared(e) PROVE dryRun' = dryRun
    BY <1>3 DEF Shared, ResolvePublicIp, RouteInfoFails, SkipRule, GetTable, PutTable,
                MovePublicIp, EndIteration, world
  <1>4. CASE Environment
    BY <1>4 DEF Environment, StartScript, CrashScript, SetStatus, FlipReach, FlipRemote,
                EditRule, world
  <1>5. CASE UNCHANGED vars
    BY <1>5 DEF vars, world
  <1> QED
    BY <1>1, <1>2, <1>3, <1>4, <1>5 DEF Next, Script

\* GoOffline and the end of a loop body, in dry-run mode.
LEMMA DryGoOffline == ASSUME Dry("primary"), GoOffline PROVE UNCHANGED command
  BY DEF GoOffline

LEMMA DryDecide ==
  ASSUME TypeInv, NEW e \in Engine, Dry(e), NEW local, NEW reroute, Decide(e, local, reroute)
  PROVE  pc'[e] = "rules"
  BY DEF Decide, Goto, TypeInv, TypeOK

\* What the steps of the script itself do in dry-run mode.
LEMMA DryPrimary ==
  ASSUME TypeInv, DryInv, "primary" \in dryRun, PrimaryOnly
  PROVE  Harmless /\ pc'["primary"] \notin {"get", "put"}
  <1>1. Dry("primary") /\ pc \in [Engine -> Label] /\ "primary" \in Engine
    BY DEF Dry, TypeInv, TypeOK, Engine
  <1>2. CASE PrimaryBegin
    BY <1>1, <1>2 DEF PrimaryBegin, Goto, command, Harmless
  <1>3. CASE PrimaryNotify
    BY <1>1, <1>3 DEF PrimaryNotify, Goto, command, Harmless, cloud
  <1>4. CASE PrimaryProbe
    BY <1>1, <1>4, DryGoOffline DEF PrimaryProbe, Return, Goto, command, Harmless
  <1>5. CASE PrimaryRule
    <2>1. UNCHANGED command
      BY <1>1, <1>5, DryGoOffline DEF PrimaryRule
    <2>2. pc'["primary"] = "rules"
      BY <1>1, <1>5, DryDecide DEF PrimaryRule
    <2> QED
      BY <1>5, <2>1, <2>2 DEF PrimaryRule, command, Harmless
  <1> QED
    BY <1>2, <1>3, <1>4, <1>5 DEF PrimaryOnly

LEMMA DrySecondary ==
  ASSUME TypeInv, DryInv, "secondary" \in dryRun, SecondaryOnly
  PROVE  Harmless /\ pc'["secondary"] \notin {"get", "put"}
  <1>1. Dry("secondary") /\ pc \in [Engine -> Label] /\ "secondary" \in Engine
    BY DEF Dry, TypeInv, TypeOK, Engine
  <1>2. Harmless
    BY DEF SecondaryOnly, SecondaryBegin, SecondaryReadTag, SecondaryProbe, SecondaryResolved,
           SecondaryRule, command, Harmless
  <1>3. CASE SecondaryRule
    BY <1>1, <1>2, <1>3, DryDecide DEF SecondaryRule
  <1>4. CASE ~SecondaryRule
    BY <1>1, <1>2, <1>4
    DEF SecondaryOnly, SecondaryBegin, SecondaryReadTag, SecondaryProbe, SecondaryResolved, Goto
  <1> QED
    BY <1>3, <1>4

LEMMA DryShared ==
  ASSUME TypeInv, DryInv, NEW e \in dryRun, Shared(e)
  PROVE  Harmless /\ pc'[e] \notin {"get", "put"}
  <1>1. Dry(e) /\ pc \in [Engine -> Label] /\ e \in Engine
    BY DryEngines DEF Dry, TypeInv, TypeOK
  <1>2. pc[e] \notin {"get", "put"}
    BY DEF DryInv
  <1>3. ~GetTable(e) /\ ~PutTable(e)
    BY <1>2 DEF GetTable, PutTable
  <1>4. CASE MovePublicIp(e)
    BY <1>1, <1>2, <1>4 DEF MovePublicIp, command, cloud, Harmless
  <1>5. CASE ResolvePublicIp(e) \/ SkipRule(e)
    BY <1>2, <1>5 DEF ResolvePublicIp, SkipRule, command, Harmless
  <1>6. CASE RouteInfoFails(e) \/ EndIteration(e)
    BY <1>1, <1>6 DEF RouteInfoFails, EndIteration, Return, Goto, command, Harmless
  <1> QED
    BY <1>3, <1>4, <1>5, <1>6 DEF Shared

\* The environment changes the cloud or an engine only when no script acts.
LEMMA DryEnvironment ==
  ASSUME TypeInv, DryInv, NEW e \in dryRun, Environment
  PROVE  (Acts(e) => Harmless) /\ pc'[e] \notin {"get", "put"}
  <1>1. pc \in [Engine -> Label] /\ frame \in [Engine -> Frame] /\ e \in Engine
    BY DryEngines DEF TypeInv, TypeOK
  <1>2. pc[e] \notin {"get", "put"}
    BY DEF DryInv
  <1>3. ASSUME NEW f \in Engine, StartScript(f) \/ CrashScript(f)
        PROVE  Harmless /\ pc'[e] \notin {"get", "put"}
    BY <1>1, <1>2, <1>3 DEF StartScript, CrashScript, Goto, command, Harmless
  <1>4. ASSUME NEW f \in Engine, SetStatus(f)
        PROVE  ~Acts(e) /\ pc'[e] \notin {"get", "put"}
    BY <1>2, <1>4 DEF SetStatus, Acts
  <1>5. CASE FlipReach \/ FlipRemote \/ EditRule
    BY <1>2, <1>5 DEF FlipReach, FlipRemote, EditRule, Acts
  <1> QED
    BY <1>3, <1>4, <1>5 DEF Environment

LEMMA DryStep ==
  ASSUME TypeInv, DryInv, NEW e \in dryRun, [Next]_vars
  PROVE  (Acts(e) => Harmless) /\ pc'[e] \notin {"get", "put"}
  <1>1. e \in Engine /\ pc[e] \notin {"get", "put"}
    BY DryEngines DEF DryInv
  <1>2. CASE UNCHANGED vars
    BY <1>1, <1>2 DEF vars, Acts
  <1>3. CASE Environment
    BY <1>3, DryEnvironment
  <1>4. ASSUME NEW f \in Engine, Script(f)
        PROVE  (Acts(e) => Harmless) /\ pc'[e] \notin {"get", "put"}
    <2>1. CASE f = e
      BY <1>4, <2>1, DryPrimary, DrySecondary, DryShared DEF Script
    <2>2. CASE f # e
      BY <1>1, <1>4, <2>2, OtherIdle DEF Acts
    <2> QED
      BY <2>1, <2>2
  <1> QED
    BY <1>2, <1>3, <1>4 DEF Next

LEMMA DryInvariant == Spec => [](TypeInv /\ DryInv)
  <1>1. Init => TypeInv /\ DryInv
    BY TypeInvInit, DryInit
  <1>2. TypeInv /\ DryInv /\ [Next]_vars => TypeInv' /\ DryInv'
    <2> SUFFICES ASSUME TypeInv, DryInv, [Next]_vars PROVE TypeInv' /\ DryInv'
      OBVIOUS
    <2>1. dryRun' = dryRun
      BY DryRunIsFixed
    <2>2. \A e \in dryRun : pc'[e] \notin {"get", "put"}
      BY DryStep
    <2> QED
      BY <2>1, <2>2, TypeInvStep DEF DryInv
  <1> QED
    BY <1>1, <1>2, PTL DEF Spec

\* With dry_run a script leaves the route tables, the tag, the public IPs and
\* its engine alone, whatever it sees and whatever fails.
THEOREM DryRunHolds == Spec => DryRunChangesNothing
  <1>1. ASSUME TypeInv, DryInv, [Next]_vars
        PROVE  [\A e \in dryRun : Acts(e) => UNCHANGED <<cloud, status>>]_vars
    BY <1>1, DryStep DEF Harmless
  <1> QED
    BY <1>1, DryInvariant, PTL DEF Spec, DryRunChangesNothing

-----------------------------------------------------------------------------
(* The secondary's reason, found before it reads the first table, still    *)
(* stands when it writes one or moves a public IP.                         *)

\* What it is about to do has a reason; before it has looked for one it is not
\* about to do anything.
ReasonInv ==
    LET f == frame["secondary"] IN
    /\ pc["secondary"] \in {"down", "start", "tag", "probe"} => f.toMove = {}
    /\ f.toMove # {} => SeesFailure(f)
    /\ pc["secondary"] \in {"get", "put"} => MayWrite(f)

LEMMA ReasonInit == Init => ReasonInv
  BY DEF Init, ReasonInv, NoFrame, Engine

\* Nothing that ReasonInv speaks of changes ...
LEMMA ReasonStays ==
  ASSUME ReasonInv, UNCHANGED <<pc["secondary"], frame["secondary"]>>
  PROVE  ReasonInv'
  BY DEF ReasonInv, SeesFailure, MayWrite

\* ... or there is nothing to do any more ...
LEMMA ReasonGone ==
  ASSUME pc'["secondary"] \notin {"get", "put"}, frame'["secondary"].toMove = {}
  PROVE  ReasonInv'
  BY DEF ReasonInv

\* ... or what the secondary has found stays, and at most a public IP is dropped.
LEMMA ReasonKept ==
  ASSUME ReasonInv,
         pc["secondary"] \in {"resolve", "rules", "get", "put"},
         pc'["secondary"] \in {"resolve", "rules"},
         frame'["secondary"].local = frame["secondary"].local,
         frame'["secondary"].probeFailed = frame["secondary"].probeFailed,
         frame'["secondary"].primaryStatus = frame["secondary"].primaryStatus,
         frame'["secondary"].toMove \subseteq frame["secondary"].toMove
  PROVE  ReasonInv'
  BY DEF ReasonInv, SeesFailure

LEMMA SecondaryReason == ASSUME TypeInv, ReasonInv, SecondaryOnly PROVE ReasonInv'
  <1> DEFINE f == frame["secondary"]
  <1>1. /\ pc \in [Engine -> Label] /\ frame \in [Engine -> Frame]
        /\ "secondary" \in Engine /\ f \in Frame
    BY DEF TypeInv, TypeOK, Engine
  <1>2. CASE SecondaryBegin
    BY <1>1, <1>2, ReasonGone DEF SecondaryBegin, Goto, ReasonInv, Frame
  <1>3. CASE SecondaryReadTag
    BY <1>1, <1>3, ReasonGone DEF SecondaryReadTag, Goto, ReasonInv, Frame
  <1>4. CASE SecondaryProbe
    <2>1. f.toMove = {} /\ pc'["secondary"] = "resolve"
      BY <1>1, <1>4 DEF SecondaryProbe, Goto, ReasonInv
    <2>2. PICK connected : SecondaryProbed(connected)
      BY <1>4 DEF SecondaryProbe
    <2>3. frame'["secondary"].toMove = f.toMove
      BY <1>1, <2>2 DEF SecondaryProbed, Frame
    <2> QED
      BY <2>1, <2>3, ReasonGone
  <1>5. CASE SecondaryResolved
    BY <1>1, <1>5, ReasonKept DEF SecondaryResolved, Goto
  <1>6. CASE SecondaryRule
    <2> DEFINE target == View("secondary")[f.pos]
               reroute == SecondaryReroutes(f, target)
               g == frame'["secondary"]
    <2>1. AtRule("secondary") /\ Decide("secondary", f.local, reroute)
      BY <1>6 DEF SecondaryRule
    <2>2. /\ g.local = f.local /\ g.probeFailed = f.probeFailed
          /\ g.primaryStatus = f.primaryStatus /\ g.toMove = f.toMove
          /\ g.snap = View("secondary")
      BY <1>1, <2>1 DEF Decide, Frame
    <2>3. pc["secondary"] = "rules"
      BY <2>1 DEF AtRule
    <2>4. CASE reroute /\ ~Dry("secondary")
      <3>1. g.pos = f.pos
        BY <1>1, <2>1, <2>4 DEF Decide, Frame
      <3>2. MayWrite(g)
        BY <2>2, <2>4, <3>1 DEF SecondaryReroutes, MayWrite, SeesFailure
      <3>3. pc'["secondary"] = "get"
        BY <1>1, <2>1, <2>4 DEF Decide, Goto
      <3> QED
        BY <2>2, <3>2, <3>3 DEF ReasonInv, SeesFailure
    <2>5. CASE ~(reroute /\ ~Dry("secondary"))
      <3>1. pc'["secondary"] = "rules"
        BY <1>1, <2>1, <2>5 DEF Decide, Goto
      <3> QED
        BY <2>2, <2>3, <3>1, ReasonKept
    <2> QED
      BY <2>4, <2>5
  <1> QED
    BY <1>2, <1>3, <1>4, <1>5, <1>6 DEF SecondaryOnly

LEMMA SharedReason == ASSUME TypeInv, ReasonInv, Shared("secondary") PROVE ReasonInv'
  <1> DEFINE f == frame["secondary"]
             g == frame'["secondary"]
  <1>1. /\ pc \in [Engine -> Label] /\ frame \in [Engine -> Frame]
        /\ "secondary" \in Engine /\ f \in Frame
    BY DEF TypeInv, TypeOK, Engine
  <1>2. CASE ResolvePublicIp("secondary")
    <2>1. PICK p \in f.todo :
            \/ frame' = [frame EXCEPT !["secondary"].todo = @ \ {p}]
            \/ frame' = [frame EXCEPT !["secondary"].todo = @ \ {p},
                         !["secondary"].toMove = IF MustMove("secondary", p) THEN @ \cup {p} ELSE @]
      BY <1>2 DEF ResolvePublicIp
    <2>2. /\ g.local = f.local /\ g.probeFailed = f.probeFailed
          /\ g.primaryStatus = f.primaryStatus
          /\ g.toMove # f.toMove => MustMove("secondary", p)
      BY <1>1, <2>1 DEF Frame
    <2>3. MustMove("secondary", p) => SeesFailure(f)
      BY DEF MustMove, SeesFailure
    <2>4. pc["secondary"] = "resolve" /\ UNCHANGED pc
      BY <1>2 DEF ResolvePublicIp
    <2> QED
      BY <2>2, <2>3, <2>4 DEF ReasonInv, SeesFailure
  <1>3. CASE RouteInfoFails("secondary") \/ EndIteration("secondary")
    BY <1>1, <1>3, ReasonGone DEF RouteInfoFails, EndIteration, Return, Goto, NoFrame
  <1>4. CASE SkipRule("secondary")
    BY <1>1, <1>4, ReasonKept DEF SkipRule, AtRule, Frame
  <1>5. CASE GetTable("secondary")
    <2>1. pc["secondary"] = "get"
      BY <1>5 DEF GetTable
    <2>2. CASE Goto("secondary", "rules") /\ frame' = [frame EXCEPT !["secondary"].pos = @ + 1]
      BY <1>1, <2>1, <2>2, ReasonKept DEF Goto, Frame
    <2>3. CASE frame' = [frame EXCEPT !["secondary"].copy = routes]
      <3>1. /\ g.local = f.local /\ g.probeFailed = f.probeFailed
            /\ g.primaryStatus = f.primaryStatus /\ g.toMove = f.toMove
            /\ g.snap = f.snap /\ g.pos = f.pos
        BY <1>1, <2>3 DEF Frame
      <3>2. pc'["secondary"] = "put" \/ pc'["secondary"] = "rules"
        BY <1>1, <1>5 DEF GetTable, Goto
      <3> QED
        BY <2>1, <3>1, <3>2 DEF ReasonInv, SeesFailure, MayWrite
    <2> QED
      BY <1>5, <2>2, <2>3 DEF GetTable
  <1>6. CASE PutTable("secondary")
    BY <1>1, <1>6, ReasonKept DEF PutTable, Goto, Frame
  <1>7. CASE MovePublicIp("secondary")
    <2>1. PICK p : frame' = [frame EXCEPT !["secondary"].toMove = @ \ {p}]
      BY <1>7 DEF MovePublicIp
    <2>2. /\ g.local = f.local /\ g.probeFailed = f.probeFailed
          /\ g.primaryStatus = f.primaryStatus /\ g.toMove \subseteq f.toMove
      BY <1>1, <2>1 DEF Frame
    <2>3. pc["secondary"] = "rules" /\ UNCHANGED pc
      BY <1>7 DEF MovePublicIp, PastRules
    <2> QED
      BY <2>2, <2>3, ReasonKept
  <1> QED
    BY <1>2, <1>3, <1>4, <1>5, <1>6, <1>7 DEF Shared

LEMMA ReasonStep == ASSUME TypeInv, ReasonInv, [Next]_vars PROVE ReasonInv'
  <1>1. pc \in [Engine -> Label] /\ frame \in [Engine -> Frame] /\ Engine = {"primary", "secondary"}
    BY DEF TypeInv, TypeOK, Engine
  <1>2. CASE Script("secondary")
    BY <1>2, SecondaryReason, SharedReason DEF Script
  <1>3. CASE Script("primary")
    BY <1>1, <1>3, OtherIdle, ReasonStays
  <1>4. ASSUME NEW e \in Engine, StartScript(e) \/ CrashScript(e) PROVE ReasonInv'
    <2>1. CASE e = "primary"
      BY <1>1, <1>4, <2>1, ReasonStays DEF StartScript, CrashScript, Goto
    <2>2. CASE e = "secondary"
      BY <1>1, <1>4, <2>2, ReasonGone DEF StartScript, CrashScript, Goto, ReasonInv, NoFrame
    <2> QED
      BY <1>1, <2>1, <2>2
  <1>5. CASE UNCHANGED <<pc, frame>>
    BY <1>5, ReasonStays
  <1>6. Environment => \/ \E e \in Engine : StartScript(e) \/ CrashScript(e)
                       \/ UNCHANGED <<pc, frame>>
    BY DEF Environment, SetStatus, FlipReach, FlipRemote, EditRule
  <1> QED
    BY <1>1, <1>2, <1>3, <1>4, <1>5, <1>6 DEF Next, vars

\* Only a script that moves it changes where a public IP is.
LEMMA WhoMoves ==
  ASSUME [Next]_vars, assignee' # assignee
  PROVE  \E e \in Engine : MovePublicIp(e)
  <1>1. ~PrimaryOnly
    BY DEF PrimaryOnly, PrimaryBegin, PrimaryNotify, PrimaryProbe, PrimaryRule, cloud
  <1>2. ~SecondaryOnly
    BY DEF SecondaryOnly, SecondaryBegin, SecondaryReadTag, SecondaryProbe, SecondaryResolved,
           SecondaryRule, cloud
  <1>3. \A e \in Engine : Shared(e) => MovePublicIp(e)
    BY DEF Shared, ResolvePublicIp, RouteInfoFails, SkipRule, GetTable, PutTable, EndIteration,
           cloud
  <1>4. ~Environment
    BY DEF Environment, StartScript, CrashScript, SetStatus, FlipReach, FlipRemote, EditRule,
           cloud
  <1>5. ~UNCHANGED vars
    BY DEF vars, cloud
  <1> QED
    BY <1>1, <1>2, <1>3, <1>4, <1>5 DEF Next, Script

LEMMA HasReasonStep ==
  ASSUME TypeInv, ReasonInv, [Next]_vars, Acts("secondary")
  PROVE  /\ routes' # routes => MayWrite(frame["secondary"])
         /\ assignee' # assignee => SeesFailure(frame["secondary"])
  <1>1. /\ pc \in [Engine -> Label] /\ frame \in [Engine -> Frame]
        /\ Engine = {"primary", "secondary"}
    BY DEF TypeInv, TypeOK, Engine
  <1>2. ~Script("primary")
    BY <1>1, OtherIdle DEF Acts
  <1>3. ASSUME routes' # routes PROVE MayWrite(frame["secondary"])
    <2>1. ~EditRule /\ ~PutTable("primary")
      BY <1>2 DEF EditRule, Acts, Script, Shared
    <2>2. PutTable("secondary")
      BY <1>1, <1>3, <2>1, WhoWrites
    <2> QED
      BY <2>2 DEF PutTable, ReasonInv
  <1>4. ASSUME assignee' # assignee PROVE SeesFailure(frame["secondary"])
    <2>1. ~MovePublicIp("primary")
      BY <1>2 DEF Script, Shared
    <2>2. MovePublicIp("secondary")
      BY <1>1, <1>4, <2>1, WhoMoves
    <2> QED
      BY <2>2 DEF MovePublicIp, ReasonInv
  <1> QED
    BY <1>3, <1>4

LEMMA ReasonInvariant == Spec => [](TypeInv /\ ReasonInv)
  <1>1. Init => TypeInv /\ ReasonInv
    BY TypeInvInit, ReasonInit
  <1>2. TypeInv /\ ReasonInv /\ [Next]_vars => TypeInv' /\ ReasonInv'
    BY TypeInvStep, ReasonStep
  <1> QED
    BY <1>1, <1>2, PTL DEF Spec

\* The secondary writes a rule or takes a public IP only in an iteration that
\* found its own engine online and the primary out of service, or the rule
\* without a target, whatever fails and whatever the primary does meanwhile.
THEOREM TakeoverHasReasonHolds == Spec => TakeoverHasReason
  <1>1. TypeInv /\ ReasonInv /\ [Next]_vars
          => [LET f == frame["secondary"] IN
              Acts("secondary") => /\ routes' # routes => MayWrite(f)
                                   /\ assignee' # assignee => SeesFailure(f)]_vars
    BY HasReasonStep
  <1> QED
    BY <1>1, ReasonInvariant, PTL DEF Spec, TakeoverHasReason
=============================================================================
