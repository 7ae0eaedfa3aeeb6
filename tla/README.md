# TLA+ verification of the OCI HA script

The repository is a script that runs on two SD-WAN engines in Oracle Cloud
(OCI) and makes them a primary/secondary pair. The two instances never talk to
each other. They meet in cloud state: the rules of the OCI route tables, the
`FP_HA_status` tag of the primary instance, and the reserved public IPs. This
directory holds TLA+ models of the program's protocol, the TLC configurations
that check them, and TLAPS proofs about them.

Paths below are relative to `src/ha_script/` of the repository.

## 1. Inventory of the system

| Component | State | Operations | Modelled by |
|---|---|---|---|
| Main loop, both roles (`mainloop.py`, `context.py`) | `ctx`: previous local status and activity, probe fail count; locals of an iteration | `primary_main_loop_handler`, `secondary_main_loop_handler`, `mainloop` | `HAPair` |
| TCP probing (`tcp_probing.py`) | `ctx.probe_fail_count` | `tcp_probe` | `TcpProbe`, `ProbeCounter`, `FailureDetector` |
| Engine status and role (`ngfw_utils.py`) | the engine's online/offline state (external) | `get_local_status`, `set_local_status`, `get_primary_status`, `is_instance_type` | `HAPair`, `Config` |
| Route tables, tags (`oci/api.py`) | none of its own; OCI's | `get_route_table_info`, `update_route_table`, `set_config_tag`, `get_config_tags` | `HAPair`, `LateUpdates` |
| Public IPs (`oci/api.py`) | OCI's | `resolve_public_ip`, `move_public_ip` | `HAPair`, `PublicIpMove` |
| OCI client (`oci/api.py`) | work requests | `_request`, `_poll_work_request` | `OciClient`, `CloudCall` |
| Request signing (`oci/auth.py`) | session key, token | `__call__`, `invalidate` | `RequestSigner`, without the cryptography |
| HTTP session (`oci/__init__.py`) | none | resends | `OciClient` |
| Configuration (`config.py`) | properties file, tags | `load_config`, `_validate_config` | `Config` |
| Local network context (`create_local_net_context`) | immutable identifiers | resolution at start-up | `Config`: whether it resolves |
| Start-up, service (`script.py`, `daemon.py`) | service, pid file, `running` | `main`, `signal_handler`, `disable_service_and_exit` | `Startup` |
| Metadata, SMC events, logging | none | I/O | no: no protocol state |
| Installer (`utils/generate-script-installer.py`) | files | one-shot | no: outside the running program |

**How they interact.** `mainloop` calls its handler, sleeps, and calls it
again; any exception only ends the iteration. A handler calls `sg-cluster`, then
OCI and the probe, one call after the other. Between any two calls the script on
the other engine, an operator, the network or OCI itself may act, and the process
may die. Both scripts write route rules and public IPs; only the primary writes
the tag and its own engine's status.

**What is hard.** The two scripts race without locks, leases or etags. A
handler decides on values read many calls earlier (`local_status`,
`public_ips_to_move`, the generator's table). A restart forgets the context. Most
results of failing calls are swallowed. The failure counter is cleared by its own
report. `PROJECT.json` lists each hazard at its line, with the properties that
cover it, or why none does.

**What makes each component correct.**

- Pair: no failover of a healthy pair; no ping-pong; nothing outside the pair is
  touched; dry-run touches nothing; takeover and recovery complete; status changes
  are published.
- Probing: reports come exactly at the promised probes; a live host is found.
- Public IPs: the pair's IP arrives even after a half-done move; no other reserved
  IP is ever taken.
- Client: a call reported as done is done; a wait is bounded; a token is only used
  with the key it was issued for, and one that was kept too long fails no call.
- Configuration and start-up: at most one script of an engine works; a disabled
  one does not; a rejected configuration stops the service and with a usable one the
  script ends up working; what is accepted is usable.

## 2. The modules

### HAPair

One module for the pair because every interesting behaviour needs both scripts.
The secondary's context is the single counter `fails["secondary"]`; the primary
also has `prevLocal` and `prevActive`.

`pc[e]` says which call the script of engine `e` makes next and `frame[e]` holds
the locals of the iteration.

| label | next call | actions |
|---|---|---|
| `down` | none: the script does not run | `StartScript` |
| `start` | `get_local_status` | `PrimaryBegin`, `SecondaryBegin` |
| `tag` | `set_config_tag` / `get_primary_status` | `PrimaryNotify`, `SecondaryReadTag` |
| `probe` | `get_primary_probe_ip_addresses`, `tcp_probe` | `SecondaryProbe` |
| `resolve` | `resolve_public_ip`; then the primary's remote check | `ResolvePublicIp`, `PrimaryProbe`, `SecondaryResolved` |
| `rules` | the route generator; after the last rule, `move_public_ip` | `PrimaryRule`, `SecondaryRule`, `SkipRule`, `RouteInfoFails`, `MovePublicIp`, `EndIteration` |
| `get`, `put` | the two calls of `update_route_table` | `GetTable`, `PutTable` |

`CrashScript` may happen at every label and forgets `ctx` and the locals. It also
stands for SIGTERM, which the code acts on only between iterations: a crash at
`start`.

What is abstracted:

- A rule is a number with a target: `primary`, `secondary`, `blackhole` (no
  network entity), `other` or `another` (two values of what `get_route_table_info` does
  not yield, so that a stale copy of a foreign rule differs from the rule), or
  `absent` (the rule is not in its table). `TableOf` says which rules share a table,
  since tables are read and written whole. `Edits` has the changes operators and OCI
  make (`EditRule`); a rule removed between the generator's read and that of
  `update_route_table` is the branch that finds no rule.
- The generator's read of a table and the decision on its first rule are one step.
  The decision itself touches only the script's own state and its own engine's
  status, which no other script reads.
- `get_local_status` that fails ends the iteration with no effect: a stuttering step.
- An OCI call either is applied before it answers or fails and is not applied.
  The exception is `set_config_tag`, which may fail *and* be applied: it is the one
  call whose result the code remembers. For the other writes the result only
  decides whether an SMC event is sent. An update applied *after* its error (a
  timed-out work request) is left to `LateUpdates`.
- `set_config_tag` is one step, because the model has no tag but the status and
  only one writer of it.
- `move_public_ip` is one call that succeeds, fails, or finds the target taken by
  a public IP that is not of the pair (`TargetMayBeTaken`); the 409 branch is left to
  `PublicIpMove`, which implements this one step.
- A failed sg-cluster command leaves the engine as it is.
- `ctx.display_info_needed`, `ctx.prev_primary_status` and the secondary's
  `prev_local_*` only decide what is logged and are left out.

`handedOver` and the counters of faults, crashes and events are bookkeeping. The
first is the history two properties speak of: the primary's script has decided to
put its engine offline and nobody has set the engine's status since. The
counters are the bounds.

### TakeoverHistory

`HAPair` with one history variable, how long ago the secondary last wrote a rule
counted in the primary's iterations over the rules. It exists to state the
comment at `mainloop.py:150`.

### ProbeCounter, TcpProbe, FailureDetector

`ProbeCounter` has the two pure functions at the end of `tcp_probe`: the result,
and the next `probe_fail_count`. `HAPair` uses them with one step per probe.
`TcpProbe` models the loop over the addresses, one step per connection, with
hosts that go up and down in between, and shares the functions. `FailureDetector`
is the abstract promise, stated without a counter that resets: reports come at
every `(MaxFail + 1)`-th unanswered probe in a row. `TcpProbe` implements it with
`due <- (streak - count) + ProbeMaxFail + 1`.

### PublicIpMove

`HAPair` with `MovePublicIp` replaced by the calls of `move_public_ip`:
`BeginMove`, `UpdateIp`, `ReadConflict`, `DeleteFound`, `UpdateIpAgain`. `other[e]`
is the public IP the target of engine `e` has besides the pair's: none, an ephemeral one, or a
reserved one of somebody else. An operator may replace it between any two calls
(`ChangeOther`, which the counter `changes` bounds), and a crash leaves the move as it is. The delete is of the very IP
that was read, so it answers 404 once that IP is gone. All reserved public IPs of
the pair have one target per engine in this module, hence the instance has one. `move[e]` is the
call under way, with its public IP still in `toMove` until the call returns. So the module
implements `HAPair` (`ImplementsPair`) with the identity for a mapping: the call that assigns the
IP, or the one with which the move ends, is `MovePublicIp`, and the others stutter.

### LateUpdates

`HAPair` in which an update that was reported as failed may be applied at any later
time, over newer updates, or never. That is what `CloudCall` allows a call that
raised. `LatePut`, `LateMove` and `LateTag` are the failing calls of `HAPair` with
their update kept in `late`; `Arrive` applies one.

### RequestSigner, OciClient, CloudCall

`RequestSigner` is the session key, the token and the engine's clock. A renewal is two steps,
`NewCredentials` and `NewToken`, because the second may raise after the first has
stored its result. A token is its session, the seconds it is still valid for, and
whether OCI revoked it.

`OciClient` composes it with `_request` and `_poll_work_request`:

| `pc` | meaning | actions |
|---|---|---|
| `idle` | no call | `Start` |
| `sign` | `RequestSigner.__call__` | `SignWithKeptToken`, `RenewCredentials` |
| `token` | `_request_token` | `RenewToken` |
| `sent` | the request is under way, then `reply` | `Resend`, `NoAnswer`, `RetryWithNewToken`, `RaiseForStatus`, `Return`, `BeginPolling`, `Sleep` |
| `sleep` | `time.sleep(retry_after)` | `PollAgain`, `TimeOut` |

`phase` says whether the request is the call itself or a poll. OCI's side is
`Reject`, `Process`, `TellStatus`, `WorkEnds`, `StrayWritten`. The HTTP session sends a
request again with the same signature; each copy may be carried out, so a copy whose
answer was lost becomes a stray. Time is seconds of OCI's clock (`Tick`). What one signed
request with its resends, or one renewal, takes is at most `MaxRequest`: each attempt has
`timeout=30`, to connect and again to read, and there are `HttpRetries + 1` of them, with
pauses in between, which may take longer than the `Headroom` of 120 s; urllib3 also honours a
`Retry-After` of 429 and 503. So `MaxRequest` is an assumption on OCI and not a number
of this code, and the run has it greater than `Headroom`. That `Lifetime > Headroom` is assumed of OCI too: a token
issued for less than two minutes would be renewed for every request.

`CloudCall` is the abstract promise to the caller: a call that returned has been
applied, one that raised may be applied at any later time. `OciClient` implements it with
`waiting` being the strays and the work request that still runs.

### Config, Startup

`Config` has `load_config`, `_validate_config`, `is_instance_type` and
`create_local_net_context` as operators on a configuration, which is a function from
property names to values. What they distinguish is kept: which properties are mandatory,
ignored or unknown, which are converted by `int`, which lists hold addresses or are empty, the mix of
OCID and triplet entries, the precedence of tags, negative NIC indices. Properties no rule
speaks of are represented by one of their kind, and `IgnoredKeys` by one legacy
property.

`Startup` is the life of the scripts of one engine. The service manager, `msvc`, keeps a parent,
`user_hook`, which runs a script; stopping the service kills the parent only, and the
script learns of it by the SIGTERM it has asked for in `die_with_parent`. So old
scripts overlap with new ones. `proc[p].pc` follows `main`:

| label | next | actions |
|---|---|---|
| `boot`, `pid`, `handlers` | the daemon's set-up | `DieWithParent`, `WritePid`, `InstallSignalHandlers` |
| `ca` | `configure_ca_cert` | `ConfigureCaCert` |
| `clients`, `tags` | `get_oci_clients`, `get_config_tags` | `GetClients`, `GetTags` |
| `config` | `load_config`, role, `disabled` | `LoadConfig` |
| `mainloop`, `loop`, `sleep` | `mainloop` | `EnterLoop`, `Iterate`, `Sleep` |
| `cleanup`, `disable` | the two ends of `main` | `CleanupPid`, `DisableServiceAndExit` |

An iteration of the main loop is one step here; `HAPair` is what it does. The
configuration does not change during a behaviour, and every script reads it again when it
starts. `armed` is whether a script gets the signal; one whose parent died before `prctl`, or that
finds no `libc` (a property of the engine, constant in a behaviour), is not armed and never told to
stop, which the properties about stopped scripts make an exception of. A script that finds no CA
bundle ends by the assert of `configure_ca_cert`, outside every `try`: neither disabled
nor cleaned up, and started again.
The pid file is written and removed as the code does it, by whichever
process; nothing in the repository reads it.

## 3. The runs

| Run | Bounds | Shows |
|---|---|---|
| `pair_routes` | 2 rules of one table, each of the pair or foreign, blackholed, changed to another foreign target or removed by OCI or an operator, 1 public IP whose target may be taken, remote probe on; nobody or either script in dry-run; 2 events, 1 crash, 1 failed OCI call; `probe_max_fail` 1 | `HealthyPairNeverFailsOver`, `NoPingPong`, `ForeignRulesKept`, `DryRunChangesNothing`, `TakeoverHasReason` |
| `pair_public_ips` | 1 rule that is not of the pair, 1 public IP, targets with any other public IP, 1 change of it by an operator; remote probe on, no `probe_ip`, nobody or the primary in dry-run; 2 events, 1 crash, 1 failed OCI call, 1 failed sg-cluster; fair scripts | refinement of `HAPair` (`ImplementsPair`), `MoveHasReason`, `OtherReservedIpKept`, `DryRunMovesNothing`, `PublicIpsFollow`, `DeadRemoteIsNoticed` |
| `pair_liveness` | 2 rules of one table, 1 public IP; 2 events, no crash, 1 failed call that may be applied late; fair scripts | `LateTypeOK`, `NoPingPong` with late updates, `TakeoverCompletes`, `PrimaryTakesBack`, `StatusIsPublished` |
| `probe` | 2 hosts, lists of 0 to 2 addresses, `probe_max_fail` 2, 8 unanswered probes in a row | `SteadyHostAnswers`, refinement of `FailureDetector` (`KeepsPromise`) |
| `client` | 2 values, 2 session keys; token valid for 3 s with 1 s headroom, `WR_TIMEOUT` 2 s, `Retry-After` up to 2 s, up to 2 s per request, 1 resend, clock set back by 1 s; calls, revocations and lost answers without bound | `SignatureMatchesToken`, `WaitIsBounded`, `KeptTokenFailsNoCall`, `RejectedOnlyIfSlow`, `CallEnds`, refinement of `CloudCall` (`KeepsCloudPromise`) |
| `startup` | 3 processes, with and without libc, 9 configurations, 2 commands of the operator, 1 failed call or missing CA bundle | `OneScriptLoops`, `DisabledScriptStaysOut`, `StoppedScriptEnds`, `RejectedConfigStopsService`, `UsableConfigRuns` |
| `finding_*` | see section 5 | disagreements of code and documentation |

**Why the bounds are enough to be interesting.** Two rules of one table are the
least in which a stale copy can undo another rule's change, in which the
generator yields from an old copy, and in which a takeover can be half done. One change of the
target's other public IP is enough to replace it between the check of its lifetime and the
delete. Two events allow a failure and an operator's reaction to it. `probe_max_fail` 1
has all three cases of the counter: counting, reporting, starting again. In
`probe` a streak of 8 contains two full reports with `probe_max_fail` 2. In
`client` a signed request can be under way for longer than the headroom and its token
expire meanwhile, a poll can begin
on either side of the deadline, and an update that was given up can be written after a newer one of
another value. In `startup` three processes are an old script, its successor and the
next; the 9 configurations are working, disabled by file or tags, rejected with and without the
tags, by validation and by membership, and accepted but unable to loop. `Outcomes`, an assumption of `MCStartup` that TLC
evaluates, has 24 configurations that take each way through `Accepts` and
`ContextResolves`. `pair_liveness` has two rules, since a takeover
rewrites them one by one and the generator yields from an old copy; with a crash as well it
would have several times as many states. Crashes are in `pair_routes` for the
safety properties, and in `pair_public_ips` for liveness. The
bounds limit events and faults only, never the number of iterations: the scripts
loop for ever in every run, and the client keeps making calls. `Startup.cfg` has
`CHECK_DEADLOCK FALSE` because the service really may stay stopped.
The proofs remove the bounds for the safety properties they cover.

**Fairness.** The pair's specifications have `WF_vars(Script(e))` for each engine and no
more (`ScriptInDetail`, `LateScript` in the two modules that extend it).
`mainloop` is `while is_running()` around a handler whose calls all have timeouts,
with every exception caught, so a script that runs keeps taking steps. Starting a
script, and every operator, network and cloud event, the arrival of a late update
included, is without fairness. Assumed, and not modelled: `sg-cluster status` works again and again, and OCI
calls fail finitely often (`MaxApiFaults`).
`OciClient!FairSpec` has weak fairness of the client, a sequential program whose
requests time out, and strong fairness of time; OCI owes no answer. In `Startup`
each script is fair, for the same reason, and so is msvc starting a service that is
up; commands and failures are not.

The liveness properties of the pair have hypotheses that say when the outcome is
uncontested: the secondary is up and the primary out of service and visibly so,
or the primary ready and visibly so. Without them the scripts may undo each
other's work for ever: two online engines of which the secondary cannot connect
to the primary compete for the rules for as long as the primary restarts the
competition.

**The properties.**

- `HealthyPairNeverFailsOver`: without an outside event, and with `probe_ip`
  configured, all traffic stays with the primary, whatever calls and commands
  fail and whenever scripts restart. Without `probe_ip` it does not hold: a
  failed OCI call gives an empty address list, which counts as a failed probe.
- `NoPingPong`: after deciding to put its engine offline, the primary's script
  writes no rule until somebody sets the engine's status. This needs sg-cluster
  to work: its result is ignored, and the next iteration believes the engine.
- `ForeignRulesKept`: whole-table writes from outdated copies, applied in time or late, never
  lead a foreign rule to an engine, although operators change and remove foreign rules and rules of the pair
  between the read and the write. What an operator makes of a foreign rule meanwhile is undone, which is
  `OnlyTheRuleChanges` again; and when one makes a foreign rule out of one of the pair's
  meanwhile, the write leads it to the engine again, so the property assumes that nobody does.
- `TakeoverHasReason`, `MoveHasReason`: the secondary decides rule by rule with what it found at
  the start of the iteration, through failing calls and whatever the primary writes
  meanwhile. What it takes, and the address of its own it gives up for a public
  IP, always has a reason it found in that iteration: its own engine online, and a failed
  probe, a status `offline` or, for a rule, a lost target.
- `ImplementsPair`: what `HAPair` says of a move stays true when the move is several
  calls, with a crash or another actor between any two.
- `DryRunChangesNothing`, `DryRunMovesNothing`: no step of a dry-run script changes
  cloud, engine or another public IP.
- `TakeoverCompletes`, `PrimaryTakesBack`, `StatusIsPublished`: with late updates
  too, since the rules are looked at again in every iteration. What late updates do break has no property here:
  a tag that arrives late can overwrite a newer status and is not
  corrected before the next change of status, and a rule that the secondary's late write takes makes a
  healthy primary go offline.
- `OtherReservedIpKept`: even if an operator replaces an ephemeral IP between the
  check of its lifetime and the delete.
- `PublicIpsFollow`: a move that stopped after the ephemeral IP was deleted is
  completed by a later iteration, by the secondary or after its restart.
- `DeadRemoteIsNoticed`: the remote probe is skipped while a public IP is to be
  moved. With a target that holds somebody else's reserved IP the move fails for ever
  and the check is starved, and a secondary that competes for the IP starves it too; the property
  states when it is not.
- `SignatureMatchesToken`: a failed renewal leaves a new session key next to the old
  token, but that token is within its headroom and will be renewed before any signature. Only
  a clock set back in between makes the pair be used.
- `RejectedOnlyIfSlow`, `KeptTokenFailsNoCall`: what the headroom of two minutes and the retry
  after a 401 are for. The headroom covers a request that is under way no longer
  than that; four attempts with their timeouts and pauses may take longer, and then the retry
  with a new token saves the call.
- `WaitIsBounded`: `WR_TIMEOUT` is not a maximum wait, as the comment at `api.py:29`
  has it: the last poll begins before the deadline, and its `Retry-After` is slept
  whatever it says. `WaitLimit` is the bound the code does keep.
- `KeepsCloudPromise`: success is reported only after the update was written during the call; an
  update is written only if it was sent.
- `OneScriptLoops`, `StoppedScriptEnds`: the pair's protocol assumes one script per
  engine; overlapping scripts of one engine are told to stop, and no step loses the signal.
- `DisabledScriptStaysOut`: for scripts that could read the tags; one whose call failed
  goes by the file alone.
- `RejectedConfigStopsService`: the service ends up stopped, or runs a script whose call for
  the tags failed and whose file alone is usable (a legacy property among the tags is rejected,
  one in the file ignored).
- `UsableConfigRuns`: a service that stays up ends up with a working script, whatever failed before:
  a passing failure in `mainloop`, a missing CA bundle, an old script that ends late.
  A failed read of the tags stops the service for good when the mandatory
  properties are in the tags; the property then speaks of a service the operator has started again.
- `SteadyHostAnswers`, `KeepsPromise`: see `TcpProbe`.

## 4. The proofs

All are checked by `tlapm` and hold for every number of rules, tables, public IPs,
hosts and processes, every configuration and every value of the bounds.

| Module | Theorem | Inductive invariant | Extra assumption |
|---|---|---|---|
| `HAPairProofs` | `TypeCorrect`: `Spec => []TypeOK` | `TypeInv` = `TypeOK` and `UpdatesARule` | none |
| `HAPairActionProofs` | `NoPingPongHolds` | `HandoverInv` | `MaxCmdFaults = 0` |
| | `ForeignRulesKeptHolds` | `ForeignInv` | `EditsKeepSides` |
| | `DryRunHolds` | `DryInv` | none |
| | `TakeoverHasReasonHolds` | `ReasonInv` | none |
| `HealthyPairProofs` | `HealthyPairHolds` | `HealthyInv` | none (`ProbeIpSet` is in the property) |
| `PublicIpMoveProofs` | `MoveImplementsPair`, `DetailTypeCorrect`, `OtherReservedIpKeptHolds` | `DetailInv` | `TargetMayBeTaken` (`PublicIpMoveAssumption`) |
| | `DryRunMovesNothingHolds`, `MoveHasReasonHolds` | `DetailInv` with `DryInv`, `ReasonInv` | same |
| | `DetailKeepsPromises` | by refinement | those of each theorem about `HAPair` |
| `LateUpdatesProofs` | `LateTypeCorrect` | `LateTypeInv` | none |
| | `LateScriptsKeepPromises` (`DryRunChangesNothing`, `TakeoverHasReason`) | `ScriptsInv` | none |
| | `LateNoPingPong` | `HandoverInv` | `MaxCmdFaults = 0` |
| | `LateForeignRulesKept` | `ForeignInv`, `LateForeignInv` | `EditsKeepSides` |
| `TcpProbeProofs` | `TypeCorrect`, `SteadyHostAnswersHolds`, `ProbeImplementsDetector` | `ProbeInv` | none |
| `OciClientProofs` | `TypeCorrect`, `SignatureMatchesTokenHolds`, `KeptTokenFailsNoCallHolds`, `RejectedOnlyIfSlowHolds`, `WaitIsBoundedHolds`, `ClientImplementsCall` | `ClientInv` | `Headroom < Lifetime` (`SignerAssumption`) |
| `StartupProofs` | `TypeCorrect`, `OneScriptLoopsHolds`, `DisabledScriptStaysOutHolds` | `StartupInv`, `JudgedInv` | none |

- `TypeOK` alone is not inductive: after a write the position is increased, so it
  must be known that a script that updates a table is at a rule
  (`UpdatesARule`).
- `HandoverInv` says that while `handedOver` holds the engine is offline and the
  script's local copy says so. `UpdatesARule` adds that a script between the
  decision to update a rule and the write believes its engine is online, so no
  update can be under way.
- `ForeignInv` says what a script knows of the tables: its snapshot shows a
  target only for rules that have one, the rule it updates has one, and its copy
  agrees with the table on which rules are foreign. A stale copy may be wrong
  about *which* engine a rule leads to, never about whether it leads to one.
  `EditsKeepSides` says of the operators that they turn no rule of the pair into
  a foreign one nor back, and add none they removed; they may change and remove rules.
- `HealthyInv` lists what the scripts can have come to believe when no event has
  happened: no failed probe, no `offline`, no public IP to move, no rule seen at
  the secondary. Hence `update_route_table` is never reached.
- `DryInv` says that a dry-run script is never inside `update_route_table`; every
  other write is guarded in its own action.
- `ReasonInv` says that the secondary has a reason whenever it is inside `update_route_table`
  or has a public IP to move, and no public IP to move before it has looked for one. It is
  needed because the guard is evaluated some calls before the write.
- `DetailInv` adds to the pair's `TypeInv` the types of the new variables and `MoveInv`: a call of
  `move_public_ip` under way is one of a script past the rules that is not in
  dry-run, its IP is still to be moved, and what it is about to delete was ephemeral when it
  was read. If the IP were not still to be moved, `UpdateIp` would be no step of `HAPair`;
  the last part is what keeps somebody else's reserved IP.
- `LateForeignInv`: a table that may still be applied agrees with the present one on which
  rules are foreign.
- `ProbeInv` has `count <= streak`, and that the addresses already tried in this
  call contain no steady host.
- `ClientInv` adds four parts to `TypeOK`. `SignerInv`: a token that does not go with the
  session key is within its headroom, unless the clock was set back. `RetryInv`:
  the second attempt of a request has no kept token. `WaitInv`: how much of `WaitLimit` is used up at each point
  of a polling. `DoneInv`: an answer of success was
  preceded by the write.
- `StartupInv`: an armed script that was not told to stop is the child of the live
  parent. `JudgedInv`: a script past `load_config` is not disabled, as far as it
  knows; the precedence of the tags (`TagsHavePrecedence`) makes that
  `DisabledScriptStaysOut`.

The refinement proof of `TcpProbe` shows that its initial states are initial
states of the detector, a step that ends a call is `Answered` or `Missed`, and
every other step stutters. That of `PublicIpMove` (`StepMaps`) has one lemma per call: one that
returns is `MovePublicIp` with its outcome, one in between leaves all variables of `HAPair`
as they are, and so does an operator's change of the other IP; a crash of the detail is a
crash of the pair. It rests on `TargetMayBeTaken`: a move that gives up because of somebody else's
reserved IP succeeds in every call and changes nothing. The five theorems about
`HAPair` then hold of `DetailSpec` too (`DetailKeepsPromises`). Late updates are no refinement
of `HAPair`, as `Arrive` changes the cloud behind the scripts' backs, so each theorem is
proved again: every step of a script is one of `HAPair` (`LateStepMaps`), and what is left is
that `Arrive` keeps the invariant. Of these, a run has late updates for
`LateTypeOK` and `NoPingPong` (`pair_liveness`); that foreign rules,
dry-run and the reasons of a takeover survive them is shown by the proofs. A healthy pair sends
no update, so nothing of its own can arrive late. The refinement proof of `OciClient` maps each action to a step of
`CloudCall` or a stutter; polling, signing and time stutter.

Only model-checked: the liveness properties, as liveness under fairness is beyond
the prover (`TakeoverCompletes`, `PrimaryTakesBack`, `StatusIsPublished`, `PublicIpsFollow`,
`DeadRemoteIsNoticed`, `CallEnds`, `StoppedScriptEnds`, `RejectedConfigStopsService`,
`UsableConfigRuns`), and the findings, which are counterexamples. Every invariant and every
action property of a passing run is a theorem.

## 5. Where code and documentation disagree

| Run | The code | The text |
|---|---|---|
| `finding_public_ips` | `public_ips_to_move` is not reconsidered after the engine was set offline in the loop over the routes: the primary goes offline and pulls the public IPs back (`mainloop.py:211`) | user guide: on a failover the public IPs are moved to the secondary |
| `finding_restart_offline` | the first status a script sees is taken as already published (`mainloop.py:98`): an engine set offline while its script is down is never taken over | docstring: notifies the secondary when the primary goes offline |
| `finding_lost_update` | a table is written back whole from a copy the other script may have outdated (`api.py:691`) | docstring: updates the specified destination |
| `finding_gives_up` | one `prev_local_active` for all rules (`mainloop.py:148`): with rules on different engines a primary put online goes offline by itself | comment: primary was active and secondary took over |
| `finding_max_fail` | the probe fails at failure `probe_max_fail + 1` (`tcp_probing.py:83`) | comment: fails 10 times in a row |
| `finding_padded_list` | lists are split without stripping (`mainloop.py:57`): an address after `, ` is never probed | test: `"192.168.1.1, 192.168.1.2"` is a valid list |

## 6. Plan and what is not modelled

Done, in this order: the pair (`HAPair`, `TakeoverHistory`) and the probe (`TcpProbe`,
`FailureDetector`) with their proofs; then the client (`RequestSigner`, `OciClient`,
`CloudCall`), the move of a public IP (`PublicIpMove`), late updates
(`LateUpdates`), configuration and start-up (`Config`, `Startup`), and their proofs.

Worth doing next: the tag set as a whole, so that the read-modify-write of `set_config_tag` is
two steps, and what an update of the status tag that arrives late does to the pair.

**Not modelled.**

- The cryptography and text of signing, certificates and JWT parsing: a
  renewal gives a token or raises.
- The metadata service, SMC events, logging: they change no state of the protocol. A
  metadata call that fails is a failed call.
- Instance tags other than the pair's: the read-modify-write of the tag set
  (`api.py:422`) can lose somebody else's tag, which no property here says.
- The fields of a route rule that `update_route_table` does not copy
  (`api.py:670-677`, a description for instance): a rule is its target here.
- Several reserved public IPs with different targets: `PublicIpMove` gives all of
  them one target per engine. Two triplets with one private IP pass the validation and could
  never both be assigned.
- The installer: a one-shot sequence of file operations outside the running program.

## 7. Running it

    tlc -workers 2 -config HAPairRoutes.cfg MCHAPair.tla
    tlapm HAPairProofs.tla

The modules named `MC...` hold the constants of the configurations. Operators named `<Definition>_<Bug>`, each placed before the
definition it distorts, are deliberate mistakes: with the definition replaced by
it, the property `PROJECT.json` pairs it with fails.
