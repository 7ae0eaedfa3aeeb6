------------------------------- MODULE Config -------------------------------
(***************************************************************************)
(* load_config and _validate_config (ha_script.config), the role of an     *)
(* engine (ha_script.ngfw_utils) and create_local_net_context              *)
(* (ha_script.oci.api), as functions of a configuration.                   *)
(*                                                                         *)
(* A source of the configuration is a function from property names to      *)
(* values: a string, a list of addresses, or a reserved public IP.  An     *)
(* address is [host, form]: form, what its text looks like, is "v4", "v6", *)
(* "blank" (an IPv4 address with blanks around it) or "junk"; the empty    *)
(* text is the empty list.                                                 *)
(***************************************************************************)
EXTENDS Integers, Sequences, TLC

\* int(value); a text outside the domain raises ValueError.
Number == ("-1" :> -1) @@ ("0" :> 0) @@ ("1" :> 1) @@ ("2" :> 2)

IntKeys == {"remote_probe_nic_idx", "check_interval_sec", "internal_nic_idx", "wan_nic_idx"}

MandatoryKeys ==
    {"route_table_id", "primary_instance_id", "secondary_instance_id", "internal_nic_idx"}

\* One legacy property stands for all.
IgnoredKeys == {"vpn_broker_url"}

ReservedKeys == {"reserved_public_ip_a", "reserved_public_ip_b"}

\* The fields of HAScriptConfig that matter here.
Fields ==
    MandatoryKeys \cup IntKeys \cup
    {"probe_ip", "remote_probe_enabled", "remote_probe_ip", "disabled", "status"}

\* Values of route_table_id that start with "ocid".
TableOcids == {"ocid1.routetable"}

\* Mutant: the file wins.
Merged_FileWins(file, tags) ==
    [k \in DOMAIN tags \cup (DOMAIN file \ IgnoredKeys) |->
        IF k \in DOMAIN file THEN file[k] ELSE tags[k]]

\* The properties file without what it ignores, overridden by the tags.
Merged(file, tags) ==
    [k \in DOMAIN tags \cup (DOMAIN file \ IgnoredKeys) |->
        IF k \in DOMAIN tags THEN tags[k] ELSE file[k]]

-----------------------------------------------------------------------------
(* load_config: what makes it raise.                                       *)

Given(c, k) == k \in DOMAIN c

IsTrue(c, k) == Given(c, k) /\ c[k] = "true"

IntsParse(c) == \A k \in IntKeys : Given(c, k) => c[k] \in DOMAIN Number

HasMandatory(c) ==
    /\ \A k \in MandatoryKeys : Given(c, k)
    /\ \A k \in MandatoryKeys : c[k] # ""

IsAddress(a) == a.form # "junk"

IsAddressList(c, k) == Given(c, k) => \A i \in DOMAIN c[k] : IsAddress(c[k][i])

OcidEntries(c) == {k \in ReservedKeys : Given(c, k) /\ c[k].ocid}
TripletEntries(c) == {k \in ReservedKeys : Given(c, k) /\ ~c[k].ocid}

\* At most one OCID entry, never mixed with triplets of three addresses.
ReservedValid(c) ==
    /\ \A k \in TripletEntries(c) :
         /\ Len(c[k].parts) = 3
         /\ \A i \in DOMAIN c[k].parts : IsAddress(c[k].parts[i])
    /\ \A k, l \in OcidEntries(c) : k = l
    /\ OcidEntries(c) = {} \/ TripletEntries(c) = {}

Valid(c) ==
    /\ HasMandatory(c)
    /\ c["route_table_id"] \in TableOcids
    /\ ReservedValid(c)
    /\ IsAddressList(c, "probe_ip")
    /\ IsTrue(c, "remote_probe_enabled") =>
         Given(c, "remote_probe_ip") /\ c["remote_probe_ip"] # <<>>
    /\ IsAddressList(c, "remote_probe_ip")
    /\ \A k \in {"remote_probe_nic_idx"} : Given(c, k) => Number[c[k]] >= 0

\* load_config returns: no unknown property reaches the constructor.
Accepts(c) ==
    /\ IntsParse(c)
    /\ Valid(c)
    /\ DOMAIN c \subseteq Fields \cup ReservedKeys

-----------------------------------------------------------------------------
(* is_instance_type.                                                       *)

IsMember(c, self) == self \in {c["primary_instance_id"], c["secondary_instance_id"]}

IsPrimary(c, self) == self = c["primary_instance_id"]

-----------------------------------------------------------------------------
(* create_local_net_context on an instance whose VNICs have the private    *)
(* addresses nics, when no call fails.                                     *)

IntOf(c, k, default) == IF Given(c, k) THEN Number[c[k]] ELSE default

\* vnics[i], a negative index counting from the end.
HasNic(nics, i) == -Len(nics) <= i /\ i < Len(nics)

MyAddress(c, k, primary) == c[k].parts[IF primary THEN 2 ELSE 3].host

ContextResolves(c, nics, primary) ==
    LET probeNic == IntOf(c, "remote_probe_nic_idx", -1) IN
    /\ HasNic(nics, IntOf(c, "internal_nic_idx", 0))
    /\ probeNic >= 0 => HasNic(nics, probeNic)
    /\ OcidEntries(c) # {} => HasNic(nics, IntOf(c, "wan_nic_idx", 1))
    /\ \A k \in TripletEntries(c) :
         \E i \in DOMAIN nics : nics[i] = MyAddress(c, k, primary)

-----------------------------------------------------------------------------
\* What a probe connects to: the list is split at the commas and not stripped,
\* and the socket is an IPv4 one.
CanConnectTo(a) == a.form = "v4"

ProbedLists(c) ==
    {c[k] : k \in {k \in {"probe_ip", "remote_probe_ip"} : Given(c, k)}}
=============================================================================
