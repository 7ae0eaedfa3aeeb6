------------------------------ MODULE MCStartup ------------------------------
(***************************************************************************)
(* Instances of Startup for TLC: properties files and tags that take every *)
(* way through load_config and create_local_net_context.                   *)
(***************************************************************************)
EXTENDS Startup

Address(h, f) == [host |-> h, form |-> f]

Plain == Address("10.1.0.1", "v4")
Padded == Address("10.1.0.2", "blank")
Junk == Address("gateway", "junk")

Empty == [k \in {} |-> "none"]

Base ==
    "route_table_id" :> "ocid1.routetable" @@ "primary_instance_id" :> "A" @@
    "secondary_instance_id" :> "B" @@ "internal_nic_idx" :> "0"

Ocid == [ocid |-> TRUE, parts |-> <<>>]
Triplet(primary, secondary) ==
    [ocid |-> FALSE, parts |-> <<Plain, Address(primary, "v4"), Address(secondary, "v4")>>]
Pair == [ocid |-> FALSE, parts |-> <<Plain, Plain>>]

Disabled(value) == "disabled" :> value
Remote(list) == "remote_probe_enabled" :> "true" @@ "remote_probe_ip" :> list

FromTags(tags) == [file |-> Empty, tags |-> tags]
InFile(file) == [file |-> file, tags |-> Empty]

\* Accepted, the disabled ones included.
Good ==
    {FromTags(Base @@ "reserved_public_ip_a" :> Ocid @@ "status" :> "online"),
     InFile(Base @@ "vpn_broker_url" :> "legacy"
                 @@ "reserved_public_ip_a" :> Triplet("10.0.0.1", "10.9.0.1")
                 @@ "reserved_public_ip_b" :> Triplet("10.0.1.1", "10.9.1.1")),
     [file |-> Base @@ Disabled("false"), tags |-> Disabled("true")],
     [file |-> Base @@ Disabled("true"), tags |-> Disabled("false")]}

\* Accepted, but the main loop ends at once.
NegativeInterval == InFile(Base @@ "check_interval_sec" :> "-1")
OtherSide == InFile(Base @@ "reserved_public_ip_a" :> Triplet("10.9.0.1", "10.0.0.1"))

Unresolved ==
    {OtherSide,
     InFile("internal_nic_idx" :> "2" @@ Base),
     InFile(Base @@ Remote(<<Plain>>) @@ "remote_probe_nic_idx" :> "2"),
     InFile(Base @@ "wan_nic_idx" :> "2" @@ "reserved_public_ip_a" :> Ocid)}

\* Rejected; with a legacy property among the tags, only by a script that reads
\* them.
NoMember == InFile("primary_instance_id" :> "C" @@ Base)
LegacyTag == [file |-> Base, tags |-> "vpn_broker_url" :> "legacy"]

Rejected ==
    {FromTags(Empty),
     LegacyTag,
     FromTags("vpn_broker_url" :> "legacy" @@ Base),
     NoMember,
     InFile("route_table_id" :> "" @@ Base),
     InFile("route_table_id" :> "subnet" @@ Base),
     InFile(Base @@ "wan_nic_idx" :> "x"),
     InFile(Base @@ "remote_probe_nic_idx" :> "-1"),
     InFile(Base @@ "remote_probe_enabled" :> "true"),
     InFile(Base @@ Remote(<<>>)),
     InFile(Base @@ "probe_ip" :> <<Plain, Junk>>),
     InFile(Base @@ "reserved_public_ip_a" :> Ocid @@ "reserved_public_ip_b" :> Ocid),
     InFile(Base @@ "reserved_public_ip_a" :> Ocid
                 @@ "reserved_public_ip_b" :> Triplet("10.0.0.1", "10.9.0.1")),
     InFile(Base @@ "reserved_public_ip_a" :> Pair)}

AllSources ==
    Good \cup {NegativeInterval, OtherSide} \cup {FromTags(Empty), NoMember, LegacyTag}

PaddedList == {InFile(Base @@ Remote(<<Plain, Padded>>))}

TwoNics == <<"10.0.0.1", "10.0.1.1">>
Slots == 1..3

\* Each way to fail in load_config, _validate_config, is_instance_type and
\* create_local_net_context is recognised; a run takes one of each kind.
ASSUME Outcomes ==
    LET Known(s) == Merged(s.file, s.tags) IN
    /\ \A s \in Good \cup {NegativeInterval} \cup PaddedList :
         Usable(Known(s)) /\ ContextResolves(Known(s), Nics, IsPrimary(Known(s), Self))
    /\ \A s \in Unresolved :
         Usable(Known(s)) /\ ~ContextResolves(Known(s), Nics, IsPrimary(Known(s), Self))
    /\ \A s \in Rejected : ~Usable(Known(s))
    /\ Usable(Merged(LegacyTag.file, NoTags))
=============================================================================
