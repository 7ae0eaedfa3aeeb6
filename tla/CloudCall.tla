------------------------------ MODULE CloudCall ------------------------------
(***************************************************************************)
(* What a call that updates the cloud promises its caller: a call that     *)
(* returned has been applied; one that raised may have been applied, or    *)
(* may be applied at any later time, after newer updates too.              *)
(***************************************************************************)
CONSTANTS
    Value, \* the values an update can write
    None   \* no value, no call: not a member of Value

VARIABLES
    store,   \* what the cloud holds
    waiting, \* values of updates that were sent and may still be written
    call,    \* value of the update being made
    done,    \* it has been written since the call began
    answer   \* how the last update ended

callVars == <<store, waiting, call, done, answer>>

CallInit ==
    /\ store = None
    /\ waiting = {}
    /\ call = None
    /\ done = FALSE
    /\ answer = "none"

Begin ==
    /\ call = None
    /\ call' \in Value
    /\ done' = FALSE
    /\ answer' = "none"
    /\ UNCHANGED <<store, waiting>>

\* The cloud takes the update in, to write it later.  It does so again when it
\* is sent again because an answer was lost.
Send ==
    /\ call # None
    /\ waiting' = waiting \cup {call}
    /\ UNCHANGED <<store, call, done, answer>>

\* The cloud writes an update: the one being made, or one that waits.
Write ==
    \E v \in waiting \cup ({call} \ {None}) :
        /\ store' = v
        /\ waiting' \in {waiting, waiting \ {v}}
        /\ done' = (done \/ v = call)
        /\ UNCHANGED <<call, answer>>

\* The cloud gives an update up.
Drop ==
    /\ waiting' \in SUBSET waiting
    /\ UNCHANGED <<store, call, done, answer>>

\* The call returns.
Succeed ==
    /\ call # None
    /\ done
    /\ answer' = "ok"
    /\ call' = None
    /\ UNCHANGED <<store, waiting, done>>

\* The call raises an exception.
Fail ==
    /\ call # None
    /\ answer' = "failed"
    /\ call' = None
    /\ UNCHANGED <<store, waiting, done>>

CallNext == Begin \/ Send \/ Write \/ Drop \/ Succeed \/ Fail

CallSpec == CallInit /\ [][CallNext]_callVars
=============================================================================
