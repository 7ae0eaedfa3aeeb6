------------------------------ MODULE MCHAPair ------------------------------
(***************************************************************************)
(* Instances of HAPair for TLC.  The configurations choose among these.    *)
(***************************************************************************)
EXTENDS HAPair

OneTable == [i \in Rule |-> 1]

NoPublicIp == {}
OnePublicIp == {"wan"}

NobodyDry == {{}}

Ours == {"primary"}

NoEdits == {}
MaybeDry == {{}, {"primary"}, {"secondary"}}
OursAndForeign == {"primary", "other"}

\* OCI drops a target; an operator changes a foreign rule, or removes a rule.
AnyEdit == {<<"primary", "blackhole">>, <<"secondary", "blackhole">>,
            <<"other", "another">>, <<"primary", "absent">>, <<"other", "absent">>}
=============================================================================
