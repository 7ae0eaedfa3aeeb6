---------------------------- MODULE PublicIpMove ----------------------------
(***************************************************************************)
(* The pair with move_public_ip in its steps.  OCI lets a private IP have  *)
(* one public IP: a target that has one answers 409; an ephemeral one is   *)
(* then deleted and the reserved one assigned, any other is left alone.    *)
(* Between two of these calls the script can crash, a call can fail, and   *)
(* an operator can change what the target has.                             *)
(*                                                                         *)
(* Every reserved public IP of the pair has the same target on an engine   *)
(* here, so the instances have one.                                        *)
(***************************************************************************)
EXTENDS HAPair

CONSTANTS
    InitOther,  \* what the secondary's target may have at deployment
    MaxChanges  \* bound: changes of other public IPs by operators

Other == {"none", "ephemeral", "reserved"}

ASSUME PublicIpMoveAssumption ==
    /\ InitOther \subseteq Other
    /\ MaxChanges \in Nat
    /\ TargetMayBeTaken

VARIABLES
    other, \* the other public IP each engine's target has: none, an ephemeral
           \* one, or a reserved one that is not of the pair
    move,  \* the call of move_public_ip: its next step and its public IP
    changes \* bookkeeping: how often operators have changed one

detailVars == <<vars, other, move, changes>>

Idle == [step |-> "idle", ip |-> "none", found |-> "none"]

\* Mutant: public IPs are moved before the loop over the routes has ended.
Moving_Early(e, step) == pc[e] = "rules" /\ move[e].step = step

\* The loop over public_ips_to_move, at this step of a move.
Moving(e, step) == PastRules(e) /\ move[e].step = step

NextStep(e, step) ==
    /\ move' = [move EXCEPT ![e].step = step]
    /\ UNCHANGED frame

\* move_public_ip returns; its result only decides whether the SMC is notified.
Done(e) ==
    /\ move' = [move EXCEPT ![e] = Idle]
    /\ frame' = [frame EXCEPT ![e].toMove = @ \ {move[e].ip}]

-----------------------------------------------------------------------------
\* Mutant: the move goes on in dry-run mode.
BeginMove_IgnoresDryRun(e) ==
    /\ Moving(e, "idle")
    /\ \E p \in frame[e].toMove :
        \/ /\ CallOk
           /\ move' = [move EXCEPT ![e].step = "update", ![e].ip = p]
           /\ UNCHANGED frame
        \/ /\ CallFails
           /\ frame' = [frame EXCEPT ![e].toMove = @ \ {p}]
           /\ UNCHANGED move
    /\ UNCHANGED <<cloud, world, context, bounds, command, pc, other>>

\* get_public_ip; in dry-run mode that is all.
BeginMove(e) ==
    /\ Moving(e, "idle")
    /\ \E p \in frame[e].toMove :
        \/ /\ CallOk /\ ~Dry(e)
           /\ move' = [move EXCEPT ![e].step = "update", ![e].ip = p]
           /\ UNCHANGED frame
        \/ /\ \/ CallOk /\ Dry(e)
              \/ CallFails
           /\ frame' = [frame EXCEPT ![e].toMove = @ \ {p}]
           /\ UNCHANGED move
    /\ UNCHANGED <<cloud, world, context, bounds, command, pc, other>>

\* Mutant: the request names no target, which releases the public IP.
Assign_Releases(e) == assignee' = [assignee EXCEPT ![move[e].ip] = "none"]

\* update_public_ip with the answer of OCI.
Assign(e) == assignee' = [assignee EXCEPT ![move[e].ip] = e]

UpdateIp(e) ==
    /\ Moving(e, "update")
    /\ \/ CallFails /\ Done(e) /\ UNCHANGED assignee
       \/ other[e] = "none" /\ CallOk /\ Assign(e) /\ Done(e)
       \/ other[e] # "none" /\ CallOk /\ NextStep(e, "conflict") /\ UNCHANGED assignee
    /\ UNCHANGED <<routes, tag, world, context, bounds, command, pc, other>>

\* Mutant: whatever the target has is released.
ReadConflict_NoLifetime(e) ==
    /\ Moving(e, "conflict")
    /\ other[e] # "none"
    /\ CallOk
    /\ move' = [move EXCEPT ![e].step = "delete", ![e].found = other[e]]
    /\ UNCHANGED <<cloud, world, context, bounds, command, pc, other, frame>>

\* Mutant: the ephemeral public IP is what is not removed.
ReadConflict_Inverted(e) ==
    /\ Moving(e, "conflict")
    /\ other[e] # "reserved"
    /\ CallOk
    /\ Done(e)
    /\ UNCHANGED <<cloud, world, context, bounds, command, pc, other>>

\* get_public_ip_by_private_ip_id; the move goes on for an ephemeral IP only,
\* and fails when the target has lost its public IP meanwhile.
ReadConflict(e) ==
    /\ Moving(e, "conflict")
    /\ \/ CallFails /\ Done(e)
       \/ other[e] # "ephemeral" /\ CallOk /\ Done(e)
       \/ /\ other[e] = "ephemeral"
          /\ CallOk
          /\ move' = [move EXCEPT ![e].step = "delete", ![e].found = "ephemeral"]
          /\ UNCHANGED frame
    /\ UNCHANGED <<cloud, world, context, bounds, command, pc, other>>

\* delete_public_ip of the very IP that was read: one that is gone answers 404.
DeleteFound(e) ==
    /\ Moving(e, "delete")
    /\ \/ CallFails /\ Done(e) /\ UNCHANGED other
       \/ other[e] # move[e].found /\ CallOk /\ Done(e) /\ UNCHANGED other
       \/ /\ other[e] = move[e].found
          /\ CallOk
          /\ other' = [other EXCEPT ![e] = "none"]
          /\ NextStep(e, "again")
    /\ UNCHANGED <<cloud, world, context, bounds, command, pc>>

\* The second update_public_ip; a 409 is an error now.
UpdateIpAgain(e) ==
    /\ Moving(e, "again")
    /\ Done(e)
    /\ \/ CallFails /\ UNCHANGED assignee
       \/ other[e] = "none" /\ CallOk /\ Assign(e)
       \/ other[e] # "none" /\ CallOk /\ UNCHANGED assignee
    /\ UNCHANGED <<routes, tag, world, context, bounds, command, pc, other>>

MoveStep(e) ==
    /\ \/ BeginMove(e) \/ UpdateIp(e) \/ ReadConflict(e) \/ DeleteFound(e) \/ UpdateIpAgain(e)
    /\ UNCHANGED changes

-----------------------------------------------------------------------------
\* An operator releases, adds or replaces the other public IP of a target that
\* has none of the pair's.
ChangeOther ==
    /\ changes < MaxChanges
    /\ changes' = changes + 1
    /\ \E e \in Engine : \E o \in Other \ {other[e]} :
        /\ \A p \in PublicIps : assignee[p] # e
        /\ other' = [other EXCEPT ![e] = o]
    /\ UNCHANGED <<vars, move>>

\* A crash leaves the move where it is in OCI.
CrashInDetail(e) ==
    /\ CrashScript(e)
    /\ move' = [move EXCEPT ![e] = Idle]
    /\ UNCHANGED <<other, changes>>

DetailInit ==
    /\ Init
    /\ other \in [Engine -> InitOther \cup {"none"}]
    /\ other["primary"] = "none"
    /\ move = [e \in Engine |-> Idle]
    /\ changes = 0

RestOfScript(e) ==
    /\ \/ e = "primary" /\ PrimaryOnly
       \/ e = "secondary" /\ SecondaryOnly
       \/ ResolvePublicIp(e) \/ RouteInfoFails(e) \/ SkipRule(e)
       \/ GetTable(e) \/ PutTable(e) \/ EndIteration(e)
    /\ UNCHANGED <<other, move, changes>>

ScriptInDetail(e) == RestOfScript(e) \/ MoveStep(e)

RestOfEnvironment ==
    /\ \/ \E e \in Engine : StartScript(e) \/ SetStatus(e)
       \/ FlipReach \/ FlipRemote \/ EditRule
    /\ UNCHANGED <<other, move, changes>>

DetailNext ==
    \/ RestOfEnvironment \/ ChangeOther
    \/ \E e \in Engine : CrashInDetail(e) \/ ScriptInDetail(e)

DetailSpec == DetailInit /\ [][DetailNext]_detailVars

DetailFairSpec == DetailSpec /\ \A e \in Engine : WF_detailVars(ScriptInDetail(e))

DetailTypeOK ==
    /\ TypeOK
    /\ other \in [Engine -> Other]
    /\ move \in [Engine -> [step: {"idle", "update", "conflict", "delete", "again"},
                            ip: PublicIps \cup {"none"},
                            found: Other]]
    /\ changes \in 0..MaxChanges

-----------------------------------------------------------------------------
(* Properties.                                                             *)

\* Call by call, with half-done moves, crashes and operators in between, a move
\* is what HAPair takes it for: the public IP goes to this engine, stays where it
\* is, or the call has failed.
ImplementsPair == Spec

ActsInDetail(e) == Acts(e) \/ move'[e] # move[e]

\* A reserved public IP that is not of the pair is never taken from a target,
\* whatever an operator does between the check of its lifetime and the delete.
OtherReservedIpKept ==
    [][\A e, f \in Engine :
         ActsInDetail(e) /\ other[f] = "reserved" => other'[f] = "reserved"]_detailVars

\* In dry-run mode a script changes neither the cloud, its engine nor the other
\* public IPs.
DryRunMovesNothing ==
    [][\A e \in dryRun : ActsInDetail(e) => UNCHANGED <<cloud, status, other>>]_detailVars

\* The secondary's own address is only given up, and a public IP only taken, in
\* an iteration that found the primary out of service.
MoveHasReason ==
    [][ActsInDetail("secondary") /\ (assignee' # assignee \/ other' # other)
         => SeesFailure(frame["secondary"])]_detailVars

\* When the primary stays out of service the pair's public IPs reach the
\* secondary, even if a move stopped after it had deleted the ephemeral IP;
\* unless the target has a reserved public IP of somebody else.
PublicIpsFollow ==
    <>[](/\ Ready("secondary")
         /\ FailureVisible
         /\ Up("primary") => status["primary"] = "offline" \/ Dry("primary")
         /\ other["secondary"] # "reserved")
        => <>[](\A p \in PublicIps : assignee[p] = "secondary")

\* A primary that cannot reach its remote hosts goes offline in the end.  A
\* public IP that cannot be moved to it delays the check for ever, so its
\* target must not hold somebody else's, nor may the secondary compete.
DeadRemoteIsNoticed ==
    ~<>[](/\ Ready("primary")
          /\ RemoteProbeEnabled /\ ~remoteUp
          /\ other["primary"] # "reserved"
          /\ ~Ready("secondary"))
=============================================================================
