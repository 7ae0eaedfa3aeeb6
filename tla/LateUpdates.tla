----------------------------- MODULE LateUpdates -----------------------------
(***************************************************************************)
(* The pair when an update that was reported as failed is applied after    *)
(* all: CloudCall allows it, and OciClient shows how it comes about.  OCI  *)
(* may apply it at any later time, over newer updates, or never.           *)
(***************************************************************************)
EXTENDS HAPair

VARIABLE
    late  \* updates that were reported as failed and may still be applied

lateVars == <<vars, late>>

\* What an update writes; "keep" is what it leaves alone.
Update == [routes: [Rule -> Target \cup {"keep"}],
           tag: Status \cup {"keep"},
           assignee: [PublicIps -> Engine \cup {"keep"}]]

KeepAll == [routes |-> [j \in Rule |-> "keep"], tag |-> "keep",
            assignee |-> [p \in PublicIps |-> "keep"]]

Over(new, old) == [k \in DOMAIN old |-> IF new[k] = "keep" THEN old[k] ELSE new[k]]

Fails == apiFaults' # apiFaults
Pending(update) == late' = late \cup {update}

\* update_route_table sends the whole table.
LatePut(e) ==
    /\ PutTable(e) /\ Fails
    /\ Pending([KeepAll EXCEPT !.routes =
           [j \in Rule |-> IF TableOf[j] = TableOf[frame[e].pos] THEN Written(e)[j] ELSE "keep"]])

\* Mutant: the request names no target, which releases the public IP.
LateMove_Releases(e) ==
    /\ MovePublicIp(e) /\ Fails /\ ~Dry(e)
    /\ \E p \in frame[e].toMove \ frame'[e].toMove :
           Pending([KeepAll EXCEPT !.assignee[p] = "none"])

LateMove(e) ==
    /\ MovePublicIp(e) /\ Fails /\ ~Dry(e)
    /\ \E p \in frame[e].toMove \ frame'[e].toMove :
           Pending([KeepAll EXCEPT !.assignee[p] = e])

LateTag ==
    /\ PrimaryNotify /\ Fails
    /\ tag' = tag
    /\ Pending([KeepAll EXCEPT !.tag = frame["primary"].local])

Arrive ==
    \E w \in late :
        /\ routes' = Over(w.routes, routes)
        /\ assignee' = Over(w.assignee, assignee)
        /\ tag' = IF w.tag = "keep" THEN tag ELSE w.tag
        /\ late' = late \ {w}
        /\ UNCHANGED <<world, context, bounds, command, apiFaults, pc, frame>>

-----------------------------------------------------------------------------
LateInit == Init /\ late = {}

LateScript(e) ==
    \/ Script(e) /\ UNCHANGED late
    \/ LatePut(e) \/ LateMove(e)
    \/ e = "primary" /\ LateTag

LateNext ==
    \/ Environment /\ UNCHANGED late
    \/ Arrive
    \/ \E e \in Engine : LateScript(e)

LateSpec == LateInit /\ [][LateNext]_lateVars

\* Nothing makes a late update arrive.
LateFairSpec == LateSpec /\ \A e \in Engine : WF_lateVars(LateScript(e))

\* An update that was given up still writes only targets, a status and engines.
\* The properties of HAPair are meant for this specification too.
LateTypeOK == TypeOK /\ late \subseteq Update
=============================================================================
