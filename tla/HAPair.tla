------------------------------- MODULE HAPair -------------------------------
(***************************************************************************)
(* The pair of HA scripts (ha_script.mainloop), one on the primary and one *)
(* on the secondary engine, against the OCI state they share: the route    *)
(* rules, the FP_HA_status tag of the primary instance and the reserved    *)
(* public IPs.                                                             *)
(*                                                                         *)
(* A handler is cut at its calls: a step reads or writes the cloud, the    *)
(* local engine or the network once, so the other script, an operator or   *)
(* a crash can come between any two of them.  The code between two calls   *)
(* only touches locals and belongs to the step before it.                  *)
(***************************************************************************)
EXTENDS ProbeCounter, FiniteSets

CONSTANTS
    NRules,             \* rules in the route tables of config.route_table_id
    TableOf,            \* the table of each rule; the rules of a table adjoin
    PublicIps,          \* the reserved_public_ip_* entries
    TargetMayBeTaken,   \* a public IP's target may have one that is not of the pair
    ProbeIpSet,         \* config.probe_ip is given
    ProbeEnabled,       \* config.probe_enabled
    RemoteProbeEnabled, \* config.remote_probe_enabled
    ProbeMaxFail,       \* config.probe_max_fail
    DryRunChoices,      \* the sets of engines that may run with config.dry_run
    InitTargets,        \* targets the rules may have at deployment
    Edits,              \* changes <<from, to>> an operator or the cloud makes to rules
    MaxEvents,          \* bound: operator, network and cloud events
    MaxCrashes,         \* bound: script crashes
    MaxApiFaults,       \* bound: OCI calls that fail
    MaxCmdFaults        \* bound: sg-cluster commands that fail

Engine == {"primary", "secondary"}
Status == {"online", "offline"}
Elsewhere == {"other", "another"} \* targets that are neither engine's
Unsteered == Elsewhere \cup {"absent"} \* ... or the rule is not in its table
Target == Engine \cup Unsteered \cup {"blackhole"}
Rule == 1..NRules

ASSUME HAPairAssumption ==
    /\ NRules \in Nat \ {0}
    /\ TableOf \in [Rule -> Nat]
    /\ TargetMayBeTaken \in BOOLEAN
    /\ ProbeIpSet \in BOOLEAN
    /\ ProbeEnabled \in BOOLEAN
    /\ RemoteProbeEnabled \in BOOLEAN
    /\ ProbeMaxFail \in Nat
    /\ DryRunChoices \subseteq SUBSET Engine
    /\ InitTargets \subseteq {"primary", "other"}
    /\ Edits \subseteq Target \X Target
    /\ {MaxEvents, MaxCrashes, MaxApiFaults, MaxCmdFaults} \subseteq Nat

VARIABLES
    \* the cloud
    routes,     \* target of each rule
    tag,        \* FP_HA_status of the primary instance
    assignee,   \* engine whose private IP holds each public IP
    \* the engines and the network
    status,     \* what sg-cluster status says
    reach,      \* the secondary can connect to the primary's probe port
    remoteUp,   \* the primary can connect to a remote host
    \* the scripts
    dryRun,     \* engines whose script runs with dry_run
    pc,         \* where each script is; "down" when it does not run
    frame,      \* locals of the handler's current call
    fails,      \* ctx.probe_fail_count
    prevLocal,  \* ctx.prev_local_status of the primary
    prevActive, \* ctx.prev_local_active of the primary
    \* bookkeeping: bounds, and the history the properties speak of
    apiFaults, cmdFaults, crashes, events,
    handedOver  \* the primary's script decided to put its engine offline and
                \* nobody has set its status since

cloud   == <<routes, tag, assignee>>
world   == <<reach, remoteUp, dryRun>>
context == <<fails, prevLocal, prevActive>>
bounds  == <<crashes, events>>
command == <<status, cmdFaults, handedOver>>
vars == <<cloud, world, context, bounds, command, apiFaults, pc, frame>>

Label == {"down", "start", "tag", "probe", "resolve", "rules", "get", "put"}

NoTable == [i \in Rule |-> "other"]

\* The locals of a handler that is not running.
NoFrame == [local |-> "offline", primaryStatus |-> "unknown", probeFailed |-> FALSE,
            todo |-> {}, toMove |-> {}, pos |-> 1, snap |-> NoTable, copy |-> NoTable]

Frame == [local: Status, primaryStatus: Status \cup {"unknown"}, probeFailed: BOOLEAN,
          todo: SUBSET PublicIps, toMove: SUBSET PublicIps, pos: 1..NRules + 1,
          snap: [Rule -> Target], copy: [Rule -> Target]]

Dry(e) == e \in dryRun

-----------------------------------------------------------------------------
(* Helpers of the steps.                                                   *)

Goto(e, label) == pc' = [pc EXCEPT ![e] = label]

\* The handler returns, or an exception leaves it for mainloop's except.
Return(e) == Goto(e, "start") /\ frame' = [frame EXCEPT ![e] = NoFrame]

\* An OCI call that succeeds, and one that fails.
CallOk == UNCHANGED apiFaults
CallFails == apiFaults < MaxApiFaults /\ apiFaults' = apiFaults + 1

\* Mutant: the command is run in dry-run mode as well.
GoOffline_IgnoresDryRun ==
    /\ status' = [status EXCEPT !["primary"] = "offline"]
    /\ handedOver' = TRUE
    /\ UNCHANGED cmdFaults

\* set_local_status(config, "offline") on the primary, result ignored.
GoOffline ==
    \/ Dry("primary") /\ UNCHANGED command
    \/ /\ ~Dry("primary")
       /\ status' = [status EXCEPT !["primary"] = "offline"]
       /\ handedOver' = TRUE
       /\ UNCHANGED cmdFaults
    \/ /\ ~Dry("primary")
       /\ cmdFaults < MaxCmdFaults
       /\ cmdFaults' = cmdFaults + 1
       /\ handedOver' = TRUE
       /\ UNCHANGED status

-----------------------------------------------------------------------------
(* primary_main_loop_handler, up to the routes.                            *)

\* get_local_status.  When it fails the handler returns at once: a stuttering step.
PrimaryBegin ==
    /\ pc["primary"] = "start"
    /\ prevLocal' = IF prevLocal = "none" THEN status["primary"] ELSE prevLocal
    /\ frame' = [frame EXCEPT !["primary"].local = status["primary"],
                              !["primary"].todo = PublicIps]
    /\ Goto("primary", IF prevLocal' = status["primary"] THEN "resolve" ELSE "tag")
    /\ UNCHANGED <<cloud, world, fails, prevActive, bounds, command, apiFaults>>

\* Mutant: the status counts as published when set_config_tag has failed.
PrimaryNotify_ForgetsFailure ==
    LET s == frame["primary"].local IN
    /\ pc["primary"] = "tag"
    /\ prevLocal' = s
    /\ \/ CallOk /\ tag' = IF Dry("primary") THEN tag ELSE s
       \/ ~Dry("primary") /\ CallFails /\ tag' \in {tag, s}
    /\ Goto("primary", "resolve")
    /\ UNCHANGED <<routes, assignee, world, fails, prevActive, bounds, command, frame>>

\* set_config_tag; when it fails the tag may have been written all the same.
PrimaryNotify ==
    LET s == frame["primary"].local IN
    /\ pc["primary"] = "tag"
    /\ \/ Dry("primary") /\ CallOk /\ prevLocal' = s /\ UNCHANGED tag
       \/ ~Dry("primary") /\ CallOk /\ prevLocal' = s /\ tag' = s
       \/ ~Dry("primary") /\ CallFails /\ UNCHANGED prevLocal /\ tag' \in {tag, s}
    /\ Goto("primary", "resolve")
    /\ UNCHANGED <<routes, assignee, world, fails, prevActive, bounds, command, frame>>

\* Mutant: the check is left to the instances without public IPs.
PrimaryProbe_OnlyWithoutIps ==
    LET f == frame["primary"]
        n == fails["primary"]
        probing == PublicIps = {} /\ f.local = "online" /\ RemoteProbeEnabled
    IN
    /\ pc["primary"] = "resolve"
    /\ f.todo = {}
    /\ fails' = IF probing
                THEN [fails EXCEPT !["primary"] = CountAfter(n, ProbeMaxFail, remoteUp)]
                ELSE fails
    /\ IF probing /\ ProbeFails(n, ProbeMaxFail, remoteUp)
       THEN GoOffline /\ Return("primary")
       ELSE UNCHANGED <<command, frame>> /\ Goto("primary", "rules")
    /\ UNCHANGED <<cloud, world, prevLocal, prevActive, bounds, apiFaults>>

\* primary_check_remote_hosts, skipped while a public IP waits to be moved.
PrimaryProbe ==
    LET f == frame["primary"]
        n == fails["primary"]
        probing == f.toMove = {} /\ f.local = "online" /\ RemoteProbeEnabled
    IN
    /\ pc["primary"] = "resolve"
    /\ f.todo = {}
    /\ fails' = IF probing
                THEN [fails EXCEPT !["primary"] = CountAfter(n, ProbeMaxFail, remoteUp)]
                ELSE fails
    /\ IF probing /\ ProbeFails(n, ProbeMaxFail, remoteUp)
       THEN GoOffline /\ Return("primary")
       ELSE UNCHANGED <<command, frame>> /\ Goto("primary", "rules")
    /\ UNCHANGED <<cloud, world, prevLocal, prevActive, bounds, apiFaults>>

-----------------------------------------------------------------------------
(* secondary_main_loop_handler, up to the routes.                          *)

SecondaryBegin ==
    /\ pc["secondary"] = "start"
    /\ frame' = [frame EXCEPT !["secondary"].local = status["secondary"],
                              !["secondary"].todo = PublicIps]
    /\ Goto("secondary", "tag")
    /\ UNCHANGED <<cloud, world, context, bounds, command, apiFaults>>

\* get_primary_status
PrimaryStatus == IF tag = "absent" THEN "unknown" ELSE tag

\* get_config_tag_value: a call that fails leaves the status "unknown".
SecondaryReadTag ==
    /\ pc["secondary"] = "tag"
    /\ \/ CallOk /\ frame' = [frame EXCEPT !["secondary"].primaryStatus = PrimaryStatus]
       \/ CallFails /\ UNCHANGED frame
    /\ Goto("secondary", "probe")
    /\ UNCHANGED <<cloud, world, context, bounds, command>>

\* tcp_probe with the outcome of its connections.
SecondaryProbed(connected) ==
    LET n == fails["secondary"] IN
    IF ProbeEnabled
    THEN /\ fails' = [fails EXCEPT !["secondary"] = CountAfter(n, ProbeMaxFail, connected)]
         /\ frame' = [frame EXCEPT !["secondary"].probeFailed =
                          ProbeFails(n, ProbeMaxFail, connected)]
    ELSE UNCHANGED <<fails, frame>>

\* get_primary_probe_ip_addresses, then tcp_probe: without addresses there is
\* nothing to connect to.
SecondaryProbe ==
    /\ pc["secondary"] = "probe"
    /\ \/ CallOk /\ SecondaryProbed(reach)
       \/ ~ProbeIpSet /\ CallFails /\ SecondaryProbed(FALSE)
    /\ Goto("secondary", "resolve")
    /\ UNCHANGED <<cloud, world, prevLocal, prevActive, bounds, command>>

-----------------------------------------------------------------------------
(* The public IPs this engine has to move, in both handlers.               *)

\* Mutant: the secondary takes a public IP whatever it found of the primary.
MustMove_NoFailure(e, p) ==
    /\ frame[e].local = "online"
    /\ assignee[p] # e

\* move_public_ip will be called for p.
MustMove(e, p) ==
    /\ frame[e].local = "online"
    /\ assignee[p] # e
    /\ e = "secondary" => frame[e].probeFailed \/ frame[e].primaryStatus = "offline"

\* resolve_public_ip; a failure skips this IP.
ResolvePublicIp(e) ==
    /\ pc[e] = "resolve"
    /\ \E p \in frame[e].todo :
        \/ /\ CallOk
           /\ frame' = [frame EXCEPT ![e].todo = @ \ {p},
                                     ![e].toMove = IF MustMove(e, p) THEN @ \cup {p} ELSE @]
        \/ CallFails /\ frame' = [frame EXCEPT ![e].todo = @ \ {p}]
    /\ UNCHANGED <<cloud, world, context, bounds, command, pc>>

\* The secondary goes on with the rules; the primary's next step is PrimaryProbe.
SecondaryResolved ==
    /\ pc["secondary"] = "resolve"
    /\ frame["secondary"].todo = {}
    /\ Goto("secondary", "rules")
    /\ UNCHANGED <<cloud, world, context, bounds, command, apiFaults, frame>>

-----------------------------------------------------------------------------
(* The loop over get_route_table_info.                                     *)

\* The generator reads a table when it comes to its first rule and yields the
\* rest of that table from what it read then.
EntersTable(e) ==
    \A i \in Rule : i + 1 = frame[e].pos => TableOf[i] # TableOf[i + 1]

View(e) ==
    LET i == frame[e].pos IN
    IF EntersTable(e)
    THEN [j \in Rule |-> IF TableOf[j] = TableOf[i] THEN routes[j] ELSE frame[e].snap[j]]
    ELSE frame[e].snap

AtRule(e) == pc[e] = "rules" /\ frame[e].pos <= NRules

\* A call of the generator raises: the exception ends this iteration.  A rule
\* without a target, or one that is not there, needs no call.
RouteInfoFails(e) ==
    /\ AtRule(e)
    /\ EntersTable(e) \/ View(e)[frame[e].pos] \notin {"blackhole", "absent"}
    /\ CallFails
    /\ Return(e)
    /\ UNCHANGED <<cloud, world, context, bounds, command>>

\* A rule that leads to neither engine is not yielded.
SkipRule(e) ==
    /\ AtRule(e)
    /\ View(e)[frame[e].pos] \in Unsteered
    /\ frame' = [frame EXCEPT ![e].snap = View(e), ![e].pos = @ + 1]
    /\ UNCHANGED <<cloud, world, context, bounds, command, apiFaults, pc>>

\* Mutant: the primary goes offline and its handler goes on as if it had not.
Decide_KeepsLocal(e, local, reroute) ==
    LET calls == frame[e].local = "online" /\ View(e)[frame[e].pos] # e /\ ~Dry(e) IN
    /\ frame' = [frame EXCEPT ![e].snap = View(e), ![e].pos = IF calls THEN @ ELSE @ + 1]
    /\ Goto(e, IF calls THEN "get" ELSE "rules")

\* The end of the loop body: update_route_table is called, or the loop goes on.
Decide(e, local, reroute) ==
    LET calls == reroute /\ ~Dry(e) IN
    /\ frame' = [frame EXCEPT ![e].local = local, ![e].snap = View(e),
                              ![e].pos = IF calls THEN @ ELSE @ + 1]
    /\ Goto(e, IF calls THEN "get" ELSE "rules")

\* local_status once the primary has looked at a rule: it gives up when it
\* thought it was active, or has not looked at any rule yet, and is not.
LocalAfter(local, active) ==
    IF local = "online" /\ ~active /\ prevActive # "inactive" THEN "offline" ELSE local

\* Mutant: the primary takes a rule back only when it has just lost it.
PrimaryReroutes_OnChange(local, active) ==
    local = "online" /\ ~active /\ prevActive = "active"

\* need_reroute of the primary.
PrimaryReroutes(local, active) == local = "online" /\ ~active

PrimaryRule ==
    LET local == frame["primary"].local
        target == View("primary")[frame["primary"].pos]
        active == target = "primary"
        after == LocalAfter(local, active)
    IN
    /\ AtRule("primary")
    /\ target \notin Unsteered
    /\ prevActive' = IF Dry("primary") THEN prevActive
                     ELSE IF active THEN "active" ELSE "inactive"
    /\ IF after # local THEN GoOffline ELSE UNCHANGED command
    /\ Decide("primary", after, PrimaryReroutes(after, active))
    /\ UNCHANGED <<cloud, world, fails, prevLocal, bounds, apiFaults>>

\* Mutant: a status that could not be read is taken for "offline".
SecondaryReroutes_UnknownIsDown(f, target) ==
    /\ f.local = "online"
    /\ target # "secondary"
    /\ f.probeFailed \/ target = "blackhole" \/ f.primaryStatus # "online"

\* Mutant: the secondary only looks at its own probe.
SecondaryReroutes_ProbeOnly(f, target) ==
    /\ f.local = "online"
    /\ target # "secondary"
    /\ f.probeFailed

\* Mutant: the secondary takes the traffic while its own engine is offline.
SecondaryReroutes_EvenOffline(f, target) ==
    /\ target # "secondary"
    /\ f.probeFailed \/ target = "blackhole" \/ f.primaryStatus = "offline"

\* need_reroute of the secondary.
SecondaryReroutes(f, target) ==
    /\ f.local = "online"
    /\ target # "secondary"
    /\ f.probeFailed \/ target = "blackhole" \/ f.primaryStatus = "offline"

SecondaryRule ==
    LET f == frame["secondary"]
        target == View("secondary")[f.pos]
    IN
    /\ AtRule("secondary")
    /\ target \notin Unsteered
    /\ Decide("secondary", f.local, SecondaryReroutes(f, target))
    /\ UNCHANGED <<cloud, world, context, bounds, command, apiFaults>>

\* update_route_table reads the table again; without the rule in it there is
\* nothing to write ...
GetTable(e) ==
    LET found == routes[frame[e].pos] # "absent" IN
    /\ pc[e] = "get"
    /\ \/ /\ found /\ CallOk
          /\ frame' = [frame EXCEPT ![e].copy = routes]
          /\ Goto(e, "put")
       \/ /\ CallFails \/ (~found /\ CallOk)
          /\ frame' = [frame EXCEPT ![e].pos = @ + 1]
          /\ Goto(e, "rules")
    /\ UNCHANGED <<cloud, world, context, bounds, command>>

\* Mutant: every rule of the table is pointed to this engine.
Written_WholeTable(e) ==
    [j \in Rule |-> IF TableOf[j] = TableOf[frame[e].pos] THEN e ELSE routes[j]]

\* ... and writes all of it back, with this rule pointing to this engine.
Written(e) ==
    [j \in Rule |-> IF j = frame[e].pos THEN e
                    ELSE IF TableOf[j] = TableOf[frame[e].pos] THEN frame[e].copy[j]
                    ELSE routes[j]]

\* The result only decides whether the SMC is notified, so a write that was
\* done and answered with an error is the first case.
PutTable(e) ==
    /\ pc[e] = "put"
    /\ \/ CallOk /\ routes' = Written(e)
       \/ CallFails /\ UNCHANGED routes
    /\ frame' = [frame EXCEPT ![e].copy = NoTable, ![e].pos = @ + 1]
    /\ Goto(e, "rules")
    /\ UNCHANGED <<tag, assignee, world, context, bounds, command>>

-----------------------------------------------------------------------------
(* The loop over public_ips_to_move, and the end of the handler.           *)

PastRules(e) == pc[e] = "rules" /\ frame[e].pos = NRules + 1

\* move_public_ip, whose calls are the steps of PublicIpMove.  Its result only
\* decides whether the SMC is notified.
MovePublicIp(e) ==
    /\ PastRules(e)
    /\ \E p \in frame[e].toMove :
        /\ frame' = [frame EXCEPT ![e].toMove = @ \ {p}]
        /\ \/ CallOk /\ assignee' = IF Dry(e) THEN assignee ELSE [assignee EXCEPT ![p] = e]
           \/ TargetMayBeTaken /\ CallOk /\ UNCHANGED assignee
           \/ CallFails /\ UNCHANGED assignee
    /\ UNCHANGED <<routes, tag, world, context, bounds, command, pc>>

EndIteration(e) ==
    /\ PastRules(e)
    /\ frame[e].toMove = {}
    /\ Return(e)
    /\ UNCHANGED <<cloud, world, context, bounds, command, apiFaults>>

-----------------------------------------------------------------------------
(* The scripts start, with a new context, and crash anywhere.              *)

StartScript(e) ==
    /\ pc[e] = "down"
    /\ Goto(e, "start")
    /\ UNCHANGED <<cloud, world, context, bounds, command, apiFaults, frame>>

CrashScript(e) ==
    /\ pc[e] # "down"
    /\ crashes < MaxCrashes
    /\ crashes' = crashes + 1
    /\ Goto(e, "down")
    /\ frame' = [frame EXCEPT ![e] = NoFrame]
    /\ fails' = [fails EXCEPT ![e] = 0]
    /\ IF e = "primary" THEN prevLocal' = "none" /\ prevActive' = "none"
       ELSE UNCHANGED <<prevLocal, prevActive>>
    /\ UNCHANGED <<cloud, world, events, command, apiFaults>>

-----------------------------------------------------------------------------
(* The operators, the network and the cloud.                               *)

Event == events < MaxEvents /\ events' = events + 1

\* Somebody puts an engine online or offline.
SetStatus(e) ==
    /\ Event
    /\ \E s \in Status \ {status[e]} :
        /\ status' = [status EXCEPT ![e] = s]
        /\ handedOver' = IF e = "primary" THEN FALSE ELSE handedOver
    /\ UNCHANGED <<cloud, world, context, crashes, cmdFaults, apiFaults, pc, frame>>

FlipReach ==
    /\ Event
    /\ reach' = ~reach
    /\ UNCHANGED <<cloud, remoteUp, dryRun, context, crashes, command, apiFaults, pc, frame>>

FlipRemote ==
    /\ Event
    /\ RemoteProbeEnabled
    /\ remoteUp' = ~remoteUp
    /\ UNCHANGED <<cloud, reach, dryRun, context, crashes, command, apiFaults, pc, frame>>

\* An operator changes, adds or removes a rule, or OCI drops its target.
EditRule ==
    /\ Event
    /\ \E i \in Rule, edit \in Edits :
        /\ routes[i] = edit[1]
        /\ routes' = [routes EXCEPT ![i] = edit[2]]
    /\ UNCHANGED <<tag, assignee, world, context, crashes, command, apiFaults, pc, frame>>

-----------------------------------------------------------------------------
Init ==
    /\ routes \in [Rule -> InitTargets]
    /\ tag \in {"absent", "online"}
    /\ assignee = [p \in PublicIps |-> "primary"]
    /\ status = [e \in Engine |-> "online"]
    /\ reach = TRUE
    /\ remoteUp = TRUE
    /\ dryRun \in DryRunChoices
    /\ pc = [e \in Engine |-> "down"]
    /\ frame = [e \in Engine |-> NoFrame]
    /\ fails = [e \in Engine |-> 0]
    /\ prevLocal = "none"
    /\ prevActive = "none"
    /\ apiFaults = 0 /\ cmdFaults = 0 /\ crashes = 0 /\ events = 0
    /\ handedOver = FALSE

PrimaryOnly == PrimaryBegin \/ PrimaryNotify \/ PrimaryProbe \/ PrimaryRule

SecondaryOnly ==
    \/ SecondaryBegin \/ SecondaryReadTag \/ SecondaryProbe
    \/ SecondaryResolved \/ SecondaryRule

Shared(e) ==
    \/ ResolvePublicIp(e)
    \/ RouteInfoFails(e) \/ SkipRule(e) \/ GetTable(e) \/ PutTable(e)
    \/ MovePublicIp(e) \/ EndIteration(e)

Script(e) ==
    \/ e = "primary" /\ PrimaryOnly
    \/ e = "secondary" /\ SecondaryOnly
    \/ Shared(e)

Environment ==
    \/ \E e \in Engine : StartScript(e) \/ CrashScript(e) \/ SetStatus(e)
    \/ FlipReach \/ FlipRemote \/ EditRule

Next == Environment \/ \E e \in Engine : Script(e)

Spec == Init /\ [][Next]_vars

\* mainloop calls its handler again and again while the script runs.
FairSpec == Spec /\ \A e \in Engine : WF_vars(Script(e))

TypeOK ==
    /\ routes \in [Rule -> Target]
    /\ tag \in Status \cup {"absent"}
    /\ assignee \in [PublicIps -> Engine]
    /\ status \in [Engine -> Status]
    /\ reach \in BOOLEAN /\ remoteUp \in BOOLEAN
    /\ dryRun \in SUBSET Engine
    /\ pc \in [Engine -> Label]
    /\ frame \in [Engine -> Frame]
    /\ fails \in [Engine -> 0..ProbeMaxFail]
    /\ prevLocal \in Status \cup {"none"}
    /\ prevActive \in {"none", "active", "inactive"}
    /\ apiFaults \in 0..MaxApiFaults /\ cmdFaults \in 0..MaxCmdFaults
    /\ crashes \in 0..MaxCrashes /\ events \in 0..MaxEvents
    /\ handedOver \in BOOLEAN

-----------------------------------------------------------------------------
(* Safety.                                                                 *)

\* All traffic that the scripts steer goes through e.
CarriedBy(e) ==
    /\ \A i \in Rule : routes[i] \in {e} \cup Unsteered
    /\ \A p \in PublicIps : assignee[p] = e

\* While both engines are online and reach each other, the scripts leave the
\* traffic with the primary and its engine online, whatever OCI calls or
\* sg-cluster commands fail and whenever the scripts restart.  Needs probe_ip:
\* without it a failed OCI call counts as a failed probe.
HealthyPairNeverFailsOver ==
    events = 0 /\ ProbeIpSet => CarriedBy("primary") /\ status["primary"] = "online"

\* e's script takes a step (or crashes, which touches neither cloud nor engine).
Acts(e) == pc'[e] # pc[e] \/ frame'[e] # frame[e]

\* Once the primary's script has put its engine offline it does not point a
\* rule to itself until somebody puts the engine online: the "ping-pong effect"
\* the comment in the loop over the routes is about.  Holds as long as
\* sg-cluster works, as its result is ignored.
NoPingPong ==
    [][handedOver /\ Acts("primary") => routes' = routes]_vars

\* A rule that leads elsewhere never comes to lead to an engine, although the
\* scripts write whole tables, from a copy the other script or an operator may
\* have outdated, and OCI may apply a table later still (LateUpdates).  What an
\* operator makes of such a rule meanwhile may be undone (OnlyTheRuleChanges),
\* and the property is lost when one makes it out of a rule of the pair.
ForeignRulesKept == [][\A i \in Rule : routes[i] \in Elsewhere => routes'[i] \in Unsteered]_vars

\* A script with dry_run changes neither the cloud nor its engine.
DryRunChangesNothing ==
    [][\A e \in dryRun : Acts(e) => UNCHANGED <<cloud, status>>]_vars

\* What entitles the secondary to traffic in this iteration: it found its own
\* engine online, and the primary out of service ...
SeesFailure(f) ==
    /\ f.local = "online"
    /\ f.probeFailed \/ f.primaryStatus = "offline"

\* ... or, for a rule, one that had lost its target.
MayWrite(f) ==
    \/ SeesFailure(f)
    \/ f.local = "online" /\ f.snap[f.pos] = "blackhole"

\* The secondary never writes a rule, nor takes a public IP, without a reason it
\* has found in the same iteration, however many calls failed since and whatever
\* the primary wrote in between.
TakeoverHasReason ==
    [][LET f == frame["secondary"] IN
       Acts("secondary") => /\ routes' # routes => MayWrite(f)
                            /\ assignee' # assignee => SeesFailure(f)]_vars

-----------------------------------------------------------------------------
(* Liveness, under FairSpec.                                               *)

Up(e) == pc[e] # "down"

\* e's script is there to take the traffic.
Ready(e) == Up(e) /\ status[e] = "online" /\ ~Dry(e)

\* What the secondary can learn of the primary's failure.
FailureVisible == tag = "offline" \/ (ProbeEnabled /\ ~reach)

\* When the primary stays out of service and the secondary can see it, all
\* rules and public IPs end up with the secondary, whatever calls failed on
\* the way and wherever the primary's script was interrupted.
TakeoverCompletes ==
    <>[](/\ Ready("secondary")
         /\ FailureVisible
         /\ Up("primary") => status["primary"] = "offline" \/ Dry("primary"))
        => <>[]CarriedBy("secondary")

\* When the primary stays online and the secondary sees nothing wrong, the
\* primary ends up with all the traffic: "put the Primary Engine online to have
\* the script update OCI route tables".
PrimaryTakesBack ==
    <>[](Ready("primary") /\ reach /\ tag # "offline") => <>[]CarriedBy("primary")

\* A change of the primary's status that its script has noticed reaches the
\* tag, however often set_config_tag fails, unless the status changes again or
\* the script stops.
StatusIsPublished ==
    \A s \in Status :
        (status["primary"] = s /\ Up("primary") /\ prevLocal \notin {"none", s})
            ~> (tag = s \/ status["primary"] # s \/ ~Up("primary") \/ Dry("primary"))

-----------------------------------------------------------------------------
(* What the documentation promises and the code does not keep.             *)

\* doc/user_guide.md: when the route fails over because the primary went
\* offline, the public IPs are moved to the secondary.  A primary that has just
\* put itself offline does not pull one back.
PublicIpsNotPulledBack ==
    [][handedOver /\ Acts("primary") => assignee' = assignee]_vars

\* The docstring of primary_main_loop_handler: the primary notifies the
\* secondary when it goes offline; so an offline primary hands its traffic over.
OfflinePrimaryHandsOver ==
    <>[](Ready("secondary") /\ Up("primary") /\ ~Dry("primary") /\ status["primary"] = "offline")
        => <>[]CarriedBy("secondary")

\* The docstring of update_route_table: it updates the route of the specified
\* destination.
OnlyTheRuleChanges ==
    [][\A e \in Engine, j \in Rule :
         pc[e] = "put" /\ Acts(e) /\ j # frame[e].pos => routes'[j] = routes[j]]_vars
=============================================================================
