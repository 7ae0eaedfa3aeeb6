--------------------------- MODULE TakeoverHistory ---------------------------
(***************************************************************************)
(* HAPair with a history variable: how long ago, in iterations of the      *)
(* primary over the rules, the secondary last wrote a rule.                *)
(***************************************************************************)
EXTENDS HAPair

VARIABLE lastTakeover   \* "current", "previous" or "earlier" iteration

hvars == <<vars, lastTakeover>>

SecondaryWrites ==
    pc["secondary"] = "put" /\ pc'["secondary"] = "rules" /\ apiFaults' = apiFaults

\* The primary reads the first table: an iteration over the rules begins.
PrimaryReads ==
    /\ AtRule("primary")
    /\ frame["primary"].pos = 1 /\ frame["primary"].snap = NoTable
    /\ frame'["primary"].snap # NoTable

HInit == Init /\ lastTakeover = "earlier"

HNext ==
    /\ Next
    /\ lastTakeover' = IF SecondaryWrites THEN "current"
                       ELSE IF ~PrimaryReads THEN lastTakeover
                       ELSE IF lastTakeover = "current" THEN "previous"
                       ELSE "earlier"

HSpec == HInit /\ [][HNext]_hvars

\* The comment where the primary puts its engine offline: "primary was active
\* (processing traffic) and secondary took over".  So the secondary has written
\* a rule since the primary's previous look at them.
GivesUpOnlyAfterTakeover ==
    [][AtRule("primary") /\ ~handedOver /\ handedOver' => lastTakeover # "earlier"]_hvars
=============================================================================
