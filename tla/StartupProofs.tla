---------------------------- MODULE StartupProofs ----------------------------
(***************************************************************************)
(* Theorems about the life of the script, for any number of processes,     *)
(* commands and faults and for every configuration.                        *)
(***************************************************************************)
EXTENDS Startup, TLAPS

Process == [pc: Label, armed: BOOLEAN, handled: BOOLEAN, running: BOOLEAN, heard: BOOLEAN]

\* A slot without a process is as a process finds it.
FreshSlots == \A p \in Proc : At(p, "free") => proc[p] = Free

StartupType == TypeOK /\ FreshSlots

\* A script that gets a SIGTERM when its parent dies and whose parent is dead
\* has been told to stop.
ToldToStop == \A p \in Proc : proc[p].armed => parent = p \/ ~proc[p].running

StartupInv == StartupType /\ ToldToStop

LEMMA FreeType == Free \in Process
  BY DEF Free, Process, Label

LEMMA StartupInit == Init => StartupInv
  <1> SUFFICES ASSUME Init PROVE StartupInv
    OBVIOUS
  <1>1. \A p \in Proc : proc[p] = Free
    BY DEF Init
  <1>2. proc \in [Proc -> Process]
    BY FreeType DEF Init
  <1>3. TypeOK
    BY <1>2, StartupAssumption DEF Init, TypeOK, Process
  <1>4. FreshSlots /\ ToldToStop
    BY <1>1 DEF FreshSlots, ToldToStop, Free
  <1> QED
    BY <1>3, <1>4 DEF StartupInv, StartupType

\* What a process becomes when its parent dies.
LEMMA SigtermType ==
  ASSUME NEW r \in Process
  PROVE  /\ AfterSigterm(r) \in Process
         /\ AfterSigterm(r) = Free \/ (AfterSigterm(r).pc = r.pc /\ ~AfterSigterm(r).running)
  BY FreeType DEF AfterSigterm, Process

LEMMA WithoutParentType ==
  ASSUME StartupInv
  PROVE  /\ WithoutParent \in [Proc -> Process]
         /\ \A p \in Proc : WithoutParent[p].pc = "free" => WithoutParent[p] = Free
         /\ \A p \in Proc : WithoutParent[p].armed => ~WithoutParent[p].running
  <1>1. proc \in [Proc -> Process]
    BY DEF StartupInv, StartupType, TypeOK, Process
  <1>2. \A p \in Proc : WithoutParent[p] = IF p = parent /\ proc[p].armed
                                           THEN AfterSigterm(proc[p]) ELSE proc[p]
    BY DEF WithoutParent
  <1>3. WithoutParent \in [Proc -> Process]
    BY <1>1, SigtermType DEF WithoutParent
  <1>4. ASSUME NEW p \in Proc, p = parent /\ proc[p].armed
        PROVE  /\ WithoutParent[p].pc = "free" => WithoutParent[p] = Free
               /\ WithoutParent[p].armed => ~WithoutParent[p].running
    <2>1. proc[p].pc # "free"
      BY <1>4 DEF StartupInv, StartupType, FreshSlots, At, Free
    <2>2. Free.armed = FALSE
      BY DEF Free
    <2> QED
      BY <1>1, <1>2, <1>4, <2>1, <2>2, SigtermType
  <1>5. ASSUME NEW p \in Proc, ~(p = parent /\ proc[p].armed)
        PROVE  /\ WithoutParent[p].pc = "free" => WithoutParent[p] = Free
               /\ WithoutParent[p].armed => ~WithoutParent[p].running
    BY <1>2, <1>5 DEF StartupInv, StartupType, FreshSlots, ToldToStop, At
  <1> QED
    BY <1>3, <1>4, <1>5

-----------------------------------------------------------------------------
(* The invariant is kept.                                                  *)

ProcOK == proc \in [Proc -> Process] /\ FreshSlots /\ ToldToStop

RestOK ==
    /\ source \in Sources
    /\ {libc, up} \subseteq BOOLEAN
    /\ {parent, pidFile} \subseteq Proc \cup {NoProc}
    /\ ops \in 0..MaxOps /\ faults \in 0..MaxFaults

LEMMA Halves == /\ StartupInv <=> ProcOK /\ RestOK
                /\ StartupInv' <=> ProcOK' /\ RestOK'
  BY DEF StartupInv, StartupType, TypeOK, ProcOK, RestOK, Process

\* A process changes; the parent does not.
LEMMA ProcessMoves ==
  ASSUME ProcOK, NEW p \in Proc, NEW r \in Process, proc' = [proc EXCEPT ![p] = r],
         parent' = parent, r.pc # "free", r.armed => parent = p \/ ~r.running
  PROVE  ProcOK'
  <1>1. proc' \in [Proc -> Process]
    BY DEF ProcOK
  <1>2. \A q \in Proc : proc'[q] = IF q = p THEN r ELSE proc[q]
    BY DEF ProcOK
  <1>3. FreshSlots'
    BY <1>2 DEF ProcOK, FreshSlots, At
  <1>4. ToldToStop'
    BY <1>2 DEF ProcOK, ToldToStop
  <1> QED
    BY <1>1, <1>3, <1>4 DEF ProcOK

LEMMA GotoMoves ==
  ASSUME ProcOK, NEW p \in Proc, NEW l \in Label \ {"free"}, Goto(p, l), parent' = parent
  PROVE  ProcOK'
  <1> DEFINE r == [proc[p] EXCEPT !.pc = l]
  <1>1. proc[p] \in Process
    BY DEF ProcOK
  <1>2. /\ r \in Process /\ r.pc = l
        /\ r.armed = proc[p].armed /\ r.running = proc[p].running
    BY <1>1 DEF Process
  <1>3. proc' = [proc EXCEPT ![p] = r]
    BY DEF Goto
  <1>4. r.armed => parent = p \/ ~r.running
    BY <1>2 DEF ProcOK, ToldToStop
  <1> HIDE DEF r
  <1> QED
    BY <1>2, <1>3, <1>4, ProcessMoves

\* The parent is killed.
LEMMA ParentDies ==
  ASSUME StartupInv, parent' = NoProc, proc' = WithoutParent
  PROVE  ProcOK'
  BY WithoutParentType DEF ProcOK, FreshSlots, ToldToStop, At

LEMMA FaultType == ASSUME RestOK, NoFault \/ Fault PROVE faults' \in 0..MaxFaults
  BY StartupAssumption DEF RestOK, NoFault, Fault

LEMMA OpType == ASSUME RestOK, Op PROVE ops' \in 0..MaxOps
  BY StartupAssumption DEF RestOK, Op

LEMMA ServiceKeeps ==
  ASSUME ProcOK, RestOK, StopService \/ StartService \/ RestartService
  PROVE  ProcOK' /\ RestOK'
  <1>1. CASE StopService \/ RestartService
    BY <1>1, Halves, ParentDies, OpType DEF StopService, RestartService, RestOK
  <1>2. CASE StartService
    BY <1>2, OpType DEF StartService, RestOK, ProcOK, FreshSlots, ToldToStop, At
  <1> QED
    BY <1>1, <1>2

LEMMA StartKeeps ==
  ASSUME ProcOK, RestOK, StartScript
  PROVE  ProcOK' /\ RestOK'
  <1>1. PICK p \in Proc : p = parent' /\ IsFree(p)
    BY DEF StartScript
  <1>2. proc[p] = Free /\ Free.armed = FALSE /\ Free \in Process
    BY <1>1, FreeType DEF ProcOK, FreshSlots, IsFree, Free
  <1> DEFINE r == [Free EXCEPT !.pc = "boot"]
  <1>3. r \in Process /\ r.pc = "boot" /\ r.armed = FALSE
    BY <1>2 DEF Process, Label, Free
  <1>4. proc' = [proc EXCEPT ![p] = r]
    BY <1>1, <1>2 DEF StartScript, Goto
  <1>5. \A q \in Proc : proc'[q] = IF q = p THEN r ELSE proc[q]
    BY <1>4 DEF ProcOK
  <1>6. parent = NoProc
    BY DEF StartScript
  <1> HIDE DEF r
  <1>7. proc' \in [Proc -> Process] /\ FreshSlots'
    BY <1>3, <1>4, <1>5 DEF ProcOK, FreshSlots, At
  <1>8. ToldToStop'
    BY <1>3, <1>5, <1>6, StartupAssumption DEF ProcOK, ToldToStop
  <1>9. RestOK'
    BY <1>1 DEF StartScript, RestOK
  <1> QED
    BY <1>7, <1>8, <1>9 DEF ProcOK

\* A process and its user_hook end.
LEMMA EndKeeps ==
  ASSUME ProcOK, RestOK, NEW p \in Proc, Ends(p)
  PROVE  ProcOK' /\ parent' \in Proc \cup {NoProc}
  <1>1. \A q \in Proc : proc'[q] = IF q = p THEN Free ELSE proc[q]
    BY DEF ProcOK, Ends
  <1>2. proc' \in [Proc -> Process]
    BY FreeType DEF ProcOK, Ends
  <1>3. parent' = IF parent = p THEN NoProc ELSE parent
    BY DEF Ends
  <1>4. FreshSlots'
    BY <1>1 DEF ProcOK, FreshSlots, At, Free
  <1>5. ASSUME NEW q \in Proc, proc'[q].armed PROVE parent' = q \/ ~proc'[q].running
    <2>1. q # p /\ proc'[q] = proc[q]
      BY <1>1, <1>5 DEF Free
    <2> QED
      BY <1>3, <1>5, <2>1 DEF ProcOK, ToldToStop
  <1> QED
    BY <1>2, <1>3, <1>4, <1>5 DEF ProcOK, ToldToStop, RestOK

LEMMA ScriptKeeps ==
  ASSUME ProcOK, RestOK, NEW p \in Proc, Script(p)
  PROVE  ProcOK' /\ RestOK'
  <1>0. proc[p] \in Process /\ proc \in [Proc -> Process]
    BY DEF ProcOK
  <1>a. ASSUME NEW l \in Label \ {"free"}, Goto(p, l), NoFault \/ Fault,
               UNCHANGED <<source, libc, up, parent, pidFile, ops>>
        PROVE  ProcOK' /\ RestOK'
    BY <1>a, GotoMoves, FaultType DEF RestOK
  <1>1. CASE DieWithParent(p)
    <2> DEFINE r == [proc[p] EXCEPT !.pc = "pid", !.armed = (libc /\ parent = p)]
    <2>1. r \in Process /\ r.pc = "pid" /\ (r.armed => parent = p)
      BY <1>0 DEF Process, Label, RestOK
    <2>2. proc' = [proc EXCEPT ![p] = r]
      BY <1>1 DEF DieWithParent
    <2> HIDE DEF r
    <2> QED
      BY <1>1, <2>1, <2>2, ProcessMoves DEF DieWithParent, RestOK
  <1>2. CASE WritePid(p)
    BY <1>2, GotoMoves DEF WritePid, RestOK, Label
  <1>3. CASE InstallSignalHandlers(p)
    <2> DEFINE r == [proc[p] EXCEPT !.pc = "ca", !.handled = TRUE]
    <2>1. /\ r \in Process /\ r.pc = "ca"
          /\ r.armed = proc[p].armed /\ r.running = proc[p].running
      BY <1>0 DEF Process, Label
    <2>2. proc' = [proc EXCEPT ![p] = r]
      BY <1>3 DEF InstallSignalHandlers
    <2>3. r.armed => parent = p \/ ~r.running
      BY <2>1 DEF ProcOK, ToldToStop
    <2> HIDE DEF r
    <2> QED
      BY <1>3, <2>1, <2>2, <2>3, ProcessMoves DEF InstallSignalHandlers, RestOK
  <1>4. CASE GetClients(p)
    BY <1>4, <1>a DEF GetClients, Label
  <1>5. CASE GetTags(p)
    <2>1. CASE Fault /\ Goto(p, "config")
      BY <1>5, <2>1, <1>a DEF GetTags, Label
    <2>2. CASE NoFault /\ proc' = [proc EXCEPT ![p].pc = "config", ![p].heard = TRUE]
      <3> DEFINE r == [proc[p] EXCEPT !.pc = "config", !.heard = TRUE]
      <3>1. /\ r \in Process /\ r.pc = "config"
            /\ r.armed = proc[p].armed /\ r.running = proc[p].running
        BY <1>0 DEF Process, Label
      <3>2. proc' = [proc EXCEPT ![p] = r]
        BY <2>2
      <3>3. r.armed => parent = p \/ ~r.running
        BY <3>1 DEF ProcOK, ToldToStop
      <3> HIDE DEF r
      <3> QED
        BY <1>5, <2>2, <3>1, <3>2, <3>3, ProcessMoves, FaultType DEF GetTags, RestOK
    <2> QED
      BY <1>5, <2>1, <2>2 DEF GetTags
  <1>6. CASE LoadConfig(p)
    <2>1. /\ Goto(p, "disable") \/ Goto(p, "mainloop")
          /\ NoFault \/ Fault
          /\ UNCHANGED <<source, libc, up, parent, pidFile, ops>>
      BY <1>6 DEF LoadConfig, AfterRejection
    <2> QED
      BY <2>1, <1>a DEF Label
  <1>7. CASE DisableServiceAndExit(p)
    <2>1. \A q \in Proc : proc'[q] = IF q = p THEN Free ELSE WithoutParent[q]
      BY <1>7, WithoutParentType, Halves DEF DisableServiceAndExit
    <2>2. proc' \in [Proc -> Process]
      BY <1>7, WithoutParentType, FreeType, Halves DEF DisableServiceAndExit
    <2>3. StartupInv
      BY Halves
    <2>4. FreshSlots'
      BY <2>1, <2>3, WithoutParentType DEF FreshSlots, At
    <2>5. ASSUME NEW q \in Proc, proc'[q].armed PROVE ~proc'[q].running
      <3>1. q # p /\ proc'[q] = WithoutParent[q]
        BY <2>1, <2>5 DEF Free
      <3> QED
        BY <2>3, <2>5, <3>1, WithoutParentType
    <2>6. ToldToStop'
      BY <2>5 DEF ToldToStop
    <2> QED
      BY <1>7, <2>2, <2>4, <2>6 DEF DisableServiceAndExit, ProcOK, RestOK
  <1>8. CASE EnterLoop(p)
    <2>1. /\ Goto(p, "loop") \/ Goto(p, "cleanup")
          /\ NoFault \/ Fault
          /\ UNCHANGED <<source, libc, up, parent, pidFile, ops>>
      BY <1>8 DEF EnterLoop
    <2> QED
      BY <2>1, <1>a DEF Label
  <1>9. CASE Iterate(p) \/ Sleep(p)
    <2>1. /\ Goto(p, "loop") \/ Goto(p, "sleep") \/ Goto(p, "cleanup")
          /\ NoFault
          /\ UNCHANGED <<source, libc, up, parent, pidFile, ops>>
      BY <1>9 DEF Iterate, Sleep, NoFault
    <2> QED
      BY <2>1, <1>a DEF Label
  <1>10. CASE CleanupPid(p)
    BY <1>10, EndKeeps DEF CleanupPid, RestOK
  <1>11. CASE ConfigureCaCert(p)
    <2>1. CASE Goto(p, "clients") /\ parent' = parent
      BY <1>11, <2>1, <1>a DEF ConfigureCaCert, Label
    <2>2. CASE Ends(p)
      BY <1>11, <2>2, EndKeeps, FaultType DEF ConfigureCaCert, RestOK
    <2> QED
      BY <1>11, <2>1, <2>2 DEF ConfigureCaCert
  <1> QED
    BY <1>1, <1>2, <1>3, <1>4, <1>5, <1>6, <1>7, <1>8, <1>9, <1>10, <1>11 DEF Script

LEMMA StartupStep == StartupInv /\ [Next]_vars => StartupInv'
  <1> SUFFICES ASSUME ProcOK, RestOK, [Next]_vars PROVE ProcOK' /\ RestOK'
    BY Halves
  <1>1. CASE UNCHANGED vars
    BY <1>1 DEF vars, ProcOK, RestOK, FreshSlots, ToldToStop, At
  <1> QED
    BY <1>1, ServiceKeeps, StartKeeps, ScriptKeeps DEF Next

LEMMA StartupInvariant == Spec => []StartupInv
  BY StartupInit, StartupStep, PTL DEF Spec

-----------------------------------------------------------------------------
\* Every variable keeps its type, whatever processes overlap.
THEOREM TypeCorrect == Spec => []TypeOK
  BY StartupInvariant, PTL DEF StartupInv, StartupType

\* Of the scripts that die with their parent only the parent's runs its main
\* loop without having been told to stop: no two of them steer the traffic.
THEOREM OneScriptLoopsHolds == Spec => []OneScriptLoops
  <1>1. StartupInv => OneScriptLoops
    BY DEF StartupInv, ToldToStop, OneScriptLoops
  <1> QED
    BY <1>1, StartupInvariant, PTL

-----------------------------------------------------------------------------
(* What a script has made of the configuration.                            *)

\* A script beyond load_config is not disabled, as far as it knows.
Judged(p) ==
    proc[p].pc \in {"mainloop", "loop", "sleep"} => ~IsTrue(ConfigOf(p), "disabled")

JudgedInv == \A p \in Proc : Judged(p)

LEMMA JudgedInit == Init => JudgedInv
  BY DEF Init, JudgedInv, Judged, Free

\* The places before the main loop, and those of a script that is to end.
Undecided ==
    {"free", "boot", "pid", "handlers", "ca", "clients", "tags", "config", "cleanup", "disable"}

\* A process that has not got as far, or goes on with what it knows.
LEMMA JudgedStays ==
  ASSUME NEW q, Judged(q), source' = source,
         \/ proc'[q].pc \in Undecided
         \/ /\ proc'[q].heard = proc[q].heard
            /\ proc'[q].pc = proc[q].pc \/ proc[q].pc \in {"mainloop", "loop", "sleep"}
  PROVE  Judged(q)'
  <1>1. CASE proc'[q].pc \in Undecided
    BY <1>1 DEF Judged, Undecided
  <1>2. CASE /\ proc'[q].heard = proc[q].heard
             /\ proc'[q].pc = proc[q].pc \/ proc[q].pc \in {"mainloop", "loop", "sleep"}
    <2>1. ConfigOf(q)' = ConfigOf(q)
      BY <1>2 DEF ConfigOf
    <2> QED
      BY <1>2, <2>1 DEF Judged
  <1> QED
    BY <1>1, <1>2

LEMMA WithoutParentRests ==
  ASSUME ProcOK, NEW q \in Proc
  PROVE  \/ WithoutParent[q].pc = proc[q].pc /\ WithoutParent[q].heard = proc[q].heard
         \/ WithoutParent[q].pc = "free"
  BY DEF ProcOK, WithoutParent, AfterSigterm, Free, Process

\* The steps of the script; load_config judges the configuration.
LEMMA JudgedScript ==
  ASSUME ProcOK, NEW p \in Proc, Judged(p), Script(p), ~DisableServiceAndExit(p)
  PROVE  Judged(p)'
  <1>0. proc[p] \in Process /\ proc \in [Proc -> Process] /\ p \in DOMAIN proc
    BY DEF ProcOK
  <1>1. CASE DieWithParent(p) \/ WritePid(p) \/ InstallSignalHandlers(p)
    <2>1. proc'[p].pc \in {"pid", "handlers", "ca"} /\ source' = source
      BY <1>0, <1>1 DEF DieWithParent, WritePid, InstallSignalHandlers, Goto, Process
    <2> QED
      BY <2>1, JudgedStays DEF Undecided
  <1>2. CASE ConfigureCaCert(p) \/ GetClients(p) \/ GetTags(p) \/ CleanupPid(p)
    <2>1. proc'[p].pc \in {"clients", "free", "tags", "disable", "config"} /\ source' = source
      BY <1>0, <1>2
      DEF ConfigureCaCert, GetClients, GetTags, CleanupPid, Ends, Goto, Free, Process
    <2> QED
      BY <2>1, JudgedStays DEF Undecided
  <1>3. CASE LoadConfig(p)
    <2>1. source' = source /\ proc'[p].heard = proc[p].heard
      BY <1>0, <1>3 DEF LoadConfig, AfterRejection, Goto, Process
    <2>2. ConfigOf(p)' = ConfigOf(p)
      BY <2>1 DEF ConfigOf
    <2>3. proc'[p].pc = "disable" \/ ~IsTrue(ConfigOf(p), "disabled")
      BY <1>0, <1>3 DEF LoadConfig, AfterRejection, Goto, Process
    <2> QED
      BY <2>2, <2>3 DEF Judged
  <1>4. CASE EnterLoop(p) \/ Iterate(p) \/ Sleep(p)
    <2>1. proc[p].pc \in {"mainloop", "loop", "sleep"} /\ source' = source
      BY <1>4 DEF EnterLoop, Iterate, Sleep, At
    <2>2. Goto(p, "loop") \/ Goto(p, "sleep") \/ Goto(p, "cleanup")
      BY <1>4 DEF EnterLoop, Iterate, Sleep
    <2>3. proc'[p].heard = proc[p].heard
      BY <1>0, <2>2 DEF Goto, Process
    <2> QED
      BY <2>1, <2>3, JudgedStays
  <1> QED
    BY <1>1, <1>2, <1>3, <1>4 DEF Script

LEMMA JudgedStep ==
  ASSUME StartupInv, JudgedInv, [Next]_vars
  PROVE  JudgedInv'
  <1>0. ProcOK /\ proc \in [Proc -> Process]
    BY Halves DEF ProcOK
  <1> SUFFICES ASSUME NEW q \in Proc PROVE Judged(q)'
    BY DEF JudgedInv
  <1>q. Judged(q)
    BY DEF JudgedInv
  <1>1. CASE StopService \/ RestartService
    <2>1. proc'[q] = WithoutParent[q] /\ source' = source
      BY <1>1 DEF StopService, RestartService
    <2> QED
      BY <1>0, <1>q, <2>1, WithoutParentRests, JudgedStays DEF Undecided
  <1>2. CASE StartService \/ UNCHANGED vars
    <2>1. proc' = proc /\ source' = source
      BY <1>2 DEF StartService, vars
    <2> QED
      BY <1>q, <2>1, JudgedStays
  <1>3. CASE StartScript
    <2>1. parent' \in Proc /\ source' = source
      BY <1>3 DEF StartScript
    <2>2. proc'[q].pc = "boot" \/ proc'[q] = proc[q]
      BY <1>0, <1>3, <2>1 DEF StartScript, Goto, Process
    <2> QED
      BY <1>q, <2>1, <2>2, JudgedStays DEF Undecided
  <1>4. ASSUME NEW p \in Proc, DisableServiceAndExit(p) PROVE Judged(q)'
    <2>1. proc'[q] = IF q = p THEN Free ELSE WithoutParent[q]
      BY <1>4, WithoutParentType DEF DisableServiceAndExit
    <2>2. source' = source /\ Free.pc = "free"
      BY <1>4 DEF DisableServiceAndExit, Free
    <2> QED
      BY <1>0, <1>q, <2>1, <2>2, WithoutParentRests, JudgedStays DEF Undecided
  <1>5. ASSUME NEW p \in Proc, Script(p), ~DisableServiceAndExit(p) PROVE Judged(q)'
    <2>1. CASE q = p
      BY <1>0, <1>5, <1>q, <2>1, JudgedScript
    <2>2. CASE q # p
      <3>1. proc'[q] = proc[q]
        BY <1>0, <1>5, <2>2
        DEF Script, DieWithParent, WritePid, InstallSignalHandlers, ConfigureCaCert, GetClients,
            GetTags, LoadConfig, EnterLoop, Iterate, Sleep, CleanupPid, Ends, Goto
      <3>2. source' = source
        BY <1>5
        DEF Script, DieWithParent, WritePid, InstallSignalHandlers, ConfigureCaCert, GetClients,
            GetTags, LoadConfig, EnterLoop, Iterate, Sleep, CleanupPid
      <3> QED
        BY <1>q, <3>1, <3>2, JudgedStays
    <2> QED
      BY <2>1, <2>2
  <1> QED
    BY <1>1, <1>2, <1>3, <1>4, <1>5 DEF Next

LEMMA JudgedInvariant == Spec => [](StartupInv /\ JudgedInv)
  <1>1. Init => StartupInv /\ JudgedInv
    BY StartupInit, JudgedInit
  <1>2. StartupInv /\ JudgedInv /\ [Next]_vars => StartupInv' /\ JudgedInv'
    BY StartupStep, JudgedStep
  <1> QED
    BY <1>1, <1>2, PTL DEF Spec

\* What a merged configuration says of "disabled".
LEMMA TagsHavePrecedence ==
  ASSUME NEW file, NEW tags
  PROVE  IsTrue(Merged(file, tags), "disabled")
           <=> IF Given(tags, "disabled") THEN IsTrue(tags, "disabled")
               ELSE IsTrue(file, "disabled")
  BY DEF IsTrue, Merged, Given, IgnoredKeys

\* A script that has read the tags runs its main loop only when they do not
\* disable it, nor the file where they say nothing.
THEOREM DisabledScriptStaysOutHolds == Spec => []DisabledScriptStaysOut
  <1>1. ASSUME JudgedInv PROVE DisabledScriptStaysOut
    <2> SUFFICES ASSUME NEW p \in Proc, Looping(p), proc[p].heard
                 PROVE  IF Given(source.tags, "disabled") THEN ~IsTrue(source.tags, "disabled")
                        ELSE ~IsTrue(source.file, "disabled")
      BY DEF DisabledScriptStaysOut
    <2>1. ~IsTrue(Merged(source.file, source.tags), "disabled")
      BY <1>1 DEF JudgedInv, Judged, Looping, ConfigOf
    <2> QED
      BY <2>1, TagsHavePrecedence
  <1> QED
    BY <1>1, JudgedInvariant, PTL
=============================================================================
