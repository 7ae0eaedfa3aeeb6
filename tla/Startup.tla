------------------------------ MODULE Startup ------------------------------
(***************************************************************************)
(* The life of the script on one engine (ha_script.script, daemon,         *)
(* mainloop.mainloop): a service manager, msvc, keeps a parent, user_hook, *)
(* that runs the script; the script reads its configuration, runs its main *)
(* loop until it is told to stop, and may disable the service.  Stopping   *)
(* the service kills the parent, not the script: a new script can start    *)
(* while the old one still finishes.                                       *)
(***************************************************************************)
EXTENDS Config, FiniteSets

CONSTANTS
    Proc,      \* slots for processes of the script
    NoProc,    \* no process
    Sources,   \* possible [file, tags]: the properties file and OCI's tags
    Self,      \* OCID of this instance
    Nics,      \* private addresses of its VNICs
    MaxOps,    \* bound: commands of the operator
    MaxFaults  \* bound: calls to OCI or the metadata service that fail, and
               \* starts that find no CA bundle

ASSUME StartupAssumption ==
    /\ NoProc \notin Proc
    /\ {MaxOps, MaxFaults} \subseteq Nat

VARIABLES
    source,  \* the configuration on disk and in OCI
    libc,    \* find_library finds libc on this engine
    up,      \* msvc is to keep the service running
    parent,  \* the process whose user_hook is alive
    pidFile, \* whose pid the pid file holds
    proc,    \* each process: where it is, whether it gets a SIGTERM when its
             \* parent dies, has its signal handlers, daemon.running, and
             \* whether it could read the tags
    ops, faults \* bounds

vars == <<source, libc, up, parent, pidFile, proc, ops, faults>>

Label == {"free", "boot", "pid", "handlers", "ca", "clients", "tags", "config",
          "mainloop", "loop", "sleep", "cleanup", "disable"}

\* A slot without a process; a process starts with these values.
Free == [pc |-> "free", armed |-> FALSE, handled |-> FALSE, running |-> TRUE,
         heard |-> FALSE]

NoTags == [k \in {} |-> "none"]

\* The sources as this process knows them, merged.
ConfigOf(p) == Merged(source.file, IF proc[p].heard THEN source.tags ELSE NoTags)

At(p, label) == proc[p].pc = label
Goto(p, label) == proc' = [proc EXCEPT ![p].pc = label]

Fault == faults < MaxFaults /\ faults' = faults + 1
NoFault == UNCHANGED faults

-----------------------------------------------------------------------------
(* The service manager and the operator.                                   *)

IsFree(p) == At(p, "free")

\* msvc starts user_hook, which runs the script, whenever the service is up.
StartScript ==
    /\ up
    /\ parent = NoProc
    /\ \E p \in Proc : IsFree(p)
    /\ parent' = CHOOSE p \in Proc : IsFree(p)
    /\ Goto(parent', "boot")
    /\ UNCHANGED <<source, libc, up, pidFile, ops, faults>>

\* Mutant: signal_handler sets a local variable.
AfterSigterm_NotGlobal(r) == IF r.handled THEN r ELSE Free

\* signal_handler, or death when SIGTERM comes before it is installed.
AfterSigterm(r) == IF r.handled THEN [r EXCEPT !.running = FALSE] ELSE Free

\* The processes once the parent is dead: its script gets a SIGTERM if it has
\* asked for it in time.
WithoutParent ==
    [p \in Proc |-> IF p = parent /\ proc[p].armed THEN AfterSigterm(proc[p]) ELSE proc[p]]

Op == ops < MaxOps /\ ops' = ops + 1

\* msvc -d
StopService ==
    /\ Op /\ up
    /\ up' = FALSE /\ parent' = NoProc /\ proc' = WithoutParent
    /\ UNCHANGED <<source, libc, pidFile, faults>>

\* msvc -u
StartService ==
    /\ Op /\ ~up
    /\ up' = TRUE
    /\ UNCHANGED <<source, libc, parent, pidFile, proc, faults>>

\* msvc -r
RestartService ==
    /\ Op /\ up
    /\ parent' = NoProc /\ proc' = WithoutParent
    /\ UNCHANGED <<source, libc, up, pidFile, faults>>

-----------------------------------------------------------------------------
(* main, up to the main loop.                                              *)

\* The process ends, and user_hook with it.
Ends(p) ==
    /\ proc' = [proc EXCEPT ![p] = Free]
    /\ parent' = IF parent = p THEN NoProc ELSE parent

\* die_with_parent: nothing when libc is not found, and too late when the parent
\* is dead already.
DieWithParent(p) ==
    /\ At(p, "boot")
    /\ proc' = [proc EXCEPT ![p].pc = "pid", ![p].armed = (libc /\ parent = p)]
    /\ UNCHANGED <<source, libc, up, parent, pidFile, ops, faults>>

\* Mutant: the pid file is opened to append, and its digits add up.
WritePid_Appends(p) ==
    /\ At(p, "pid")
    /\ pidFile' = 10 * pidFile + p
    /\ Goto(p, "handlers")
    /\ UNCHANGED <<source, libc, up, parent, ops, faults>>

WritePid(p) ==
    /\ At(p, "pid")
    /\ pidFile' = p
    /\ Goto(p, "handlers")
    /\ UNCHANGED <<source, libc, up, parent, ops, faults>>

InstallSignalHandlers(p) ==
    /\ At(p, "handlers")
    /\ proc' = [proc EXCEPT ![p].pc = "ca", ![p].handled = TRUE]
    /\ UNCHANGED <<source, libc, up, parent, pidFile, ops, faults>>

\* configure_ca_cert: without a bundle its assert ends main; the service stays up
\* and the pid file in place.
ConfigureCaCert(p) ==
    /\ At(p, "ca")
    /\ \/ NoFault /\ Goto(p, "clients") /\ UNCHANGED parent
       \/ Fault /\ Ends(p)
    /\ UNCHANGED <<source, libc, up, pidFile, ops>>

\* get_oci_clients, and the instance id that get_config_tags asks for.
GetClients(p) ==
    /\ At(p, "clients")
    /\ \/ NoFault /\ Goto(p, "tags")
       \/ Fault /\ Goto(p, "disable")
    /\ UNCHANGED <<source, libc, up, parent, pidFile, ops>>

\* get_config_tags: no tags when its call fails.
GetTags(p) ==
    /\ At(p, "tags")
    /\ \/ NoFault /\ proc' = [proc EXCEPT ![p].pc = "config", ![p].heard = TRUE]
       \/ Fault /\ Goto(p, "config")
    /\ UNCHANGED <<source, libc, up, parent, pidFile, ops>>

\* Mutant: main just ends.
AfterRejection_Exits == "cleanup"

\* What follows an exception before the main loop.
AfterRejection == "disable"

\* load_config, the role, and config.disabled.
LoadConfig(p) ==
    LET c == ConfigOf(p) IN
    /\ At(p, "config")
    /\ \/ NoFault /\ Goto(p, IF ~Accepts(c) THEN AfterRejection
                             ELSE IF ~IsMember(c, Self) THEN AfterRejection
                             ELSE IF IsTrue(c, "disabled") THEN "disable"
                             ELSE "mainloop")
       \/ Fault /\ Goto(p, "disable")
    /\ UNCHANGED <<source, libc, up, parent, pidFile, ops>>

\* disable_service_and_exit stops the service, whoever runs in it by now, and
\* leaves the pid file.
DisableServiceAndExit(p) ==
    /\ At(p, "disable")
    /\ up' = FALSE /\ parent' = NoProc
    /\ proc' = [WithoutParent EXCEPT ![p] = Free]
    /\ UNCHANGED <<source, libc, pidFile, ops, faults>>

-----------------------------------------------------------------------------
(* mainloop                                                                *)

\* Mutant: the flag is set when the main loop begins.
EnterLoop_ResetsRunning(p) ==
    /\ At(p, "mainloop")
    /\ proc' = [proc EXCEPT ![p].pc = "loop", ![p].running = TRUE]
    /\ NoFault
    /\ UNCHANGED <<source, libc, up, parent, pidFile, ops>>

\* Mutant: the context is made for the other role.
EnterLoop_SwapsRoles(p) ==
    LET c == ConfigOf(p) IN
    /\ At(p, "mainloop")
    /\ \/ NoFault /\ Goto(p, IF ContextResolves(c, Nics, ~IsPrimary(c, Self))
                             THEN "loop" ELSE "cleanup")
       \/ Fault /\ Goto(p, "cleanup")
    /\ UNCHANGED <<source, libc, up, parent, pidFile, ops>>

\* is_primary again, and create_local_net_context: an exception ends main.
EnterLoop(p) ==
    LET c == ConfigOf(p) IN
    /\ At(p, "mainloop")
    /\ \/ NoFault /\ Goto(p, IF ContextResolves(c, Nics, IsPrimary(c, Self))
                             THEN "loop" ELSE "cleanup")
       \/ Fault /\ Goto(p, "cleanup")
    /\ UNCHANGED <<source, libc, up, parent, pidFile, ops>>

\* A call of the handler, whatever it does, if the script is to go on.
Iterate(p) ==
    /\ At(p, "loop")
    /\ Goto(p, IF proc[p].running THEN "sleep" ELSE "cleanup")
    /\ UNCHANGED <<source, libc, up, parent, pidFile, ops, faults>>

\* time.sleep raises for a negative interval, out of the finally clause.
Sleep(p) ==
    /\ At(p, "sleep")
    /\ Goto(p, IF IntOf(ConfigOf(p), "check_interval_sec", 1) >= 0 THEN "loop" ELSE "cleanup")
    /\ UNCHANGED <<source, libc, up, parent, pidFile, ops, faults>>

\* cleanup_pid, whosever pid it is, and the end of main.
CleanupPid(p) ==
    /\ At(p, "cleanup")
    /\ pidFile' = NoProc
    /\ Ends(p)
    /\ UNCHANGED <<source, libc, up, ops, faults>>

-----------------------------------------------------------------------------
Init ==
    /\ source \in Sources
    /\ libc \in BOOLEAN
    /\ up = TRUE
    /\ parent = NoProc
    /\ pidFile = NoProc
    /\ proc = [p \in Proc |-> Free]
    /\ ops = 0 /\ faults = 0

Script(p) ==
    \/ DieWithParent(p) \/ WritePid(p) \/ InstallSignalHandlers(p)
    \/ ConfigureCaCert(p) \/ GetClients(p) \/ GetTags(p) \/ LoadConfig(p)
    \/ DisableServiceAndExit(p)
    \/ EnterLoop(p) \/ Iterate(p) \/ Sleep(p) \/ CleanupPid(p)

Next ==
    \/ StartScript \/ StopService \/ StartService \/ RestartService
    \/ \E p \in Proc : Script(p)

Spec == Init /\ [][Next]_vars

\* The scripts run, and msvc starts a service that is up.
FairSpec == Spec /\ WF_vars(StartScript) /\ \A p \in Proc : WF_vars(Script(p))

TypeOK ==
    /\ source \in Sources
    /\ {libc, up} \subseteq BOOLEAN
    /\ {parent, pidFile} \subseteq Proc \cup {NoProc}
    /\ proc \in [Proc -> [pc: Label, armed: BOOLEAN, handled: BOOLEAN, running: BOOLEAN,
                          heard: BOOLEAN]]
    /\ ops \in 0..MaxOps /\ faults \in 0..MaxFaults

-----------------------------------------------------------------------------
(* Properties.                                                             *)

Looping(p) == proc[p].pc \in {"loop", "sleep"}

\* At most one script of the engine runs its main loop, as the protocol of the
\* pair assumes, except for one that was told to stop and finishes an iteration
\* and for one that die_with_parent came too late for or found no libc for.
OneScriptLoops ==
    \A p \in Proc :
        Looping(p) /\ proc[p].running /\ proc[p].armed => parent = p

\* A script whose parent has died does not run on for ever, wherever the signal
\* found it, unless die_with_parent came too late or found no libc.
StoppedScriptEnds ==
    \A p \in Proc : []<>~(proc[p].armed /\ parent # p)

\* A script that could read the tags never starts its main loop when they, or
\* the file where they say nothing, disable it: the tags have precedence.
DisabledScriptStaysOut ==
    \A p \in Proc :
        Looping(p) /\ proc[p].heard =>
            IF Given(source.tags, "disabled") THEN ~IsTrue(source.tags, "disabled")
            ELSE ~IsTrue(source.file, "disabled")

Usable(c) == Accepts(c) /\ IsMember(c, Self)

\* A configuration the script rejects is not tried again and again: the service
\* ends up stopped, whatever calls fail and however often it is started by hand,
\* or runs a script that could not read the tags that spoil a usable file.
RejectedConfigStopsService ==
    ~Usable(Merged(source.file, source.tags))
        => <>[](~up \/ \E p \in Proc : parent = p /\ Looping(p) /\ ~proc[p].heard)

Runs(c) ==
    /\ Usable(c)
    /\ ~IsTrue(c, "disabled")
    /\ ContextResolves(c, Nics, IsPrimary(c, Self))
    /\ IntOf(c, "check_interval_sec", 1) >= 0

\* With a usable configuration a service that stays up, once the operator has
\* brought it back, ends up with its script in the main loop, whatever a failed
\* call, the restarts and the old scripts they leave behind have done before: one
\* that finds no CA bundle or fails in mainloop is started again, and an old
\* script neither ends the new one nor keeps it from starting.
UsableConfigRuns ==
    Runs(Merged(source.file, source.tags)) /\ <>[]up
        => <>[](parent # NoProc /\ \E p \in Proc : p = parent /\ Looping(p))

\* _validate_config checks that each address of a list, blanks around it
\* stripped, is an IP address; tests/test_config.py has "192.168.1.1,
\* 192.168.1.2" as a valid list.  So a probe can connect to each of them.
AcceptedAddressesAreUsable ==
    \A p \in Proc : Looping(p) =>
        \A list \in ProbedLists(ConfigOf(p)) : \A i \in DOMAIN list : CanConnectTo(list[i])
=============================================================================
