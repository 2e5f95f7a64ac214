---------------------------- MODULE MCReferences ----------------------------
(***************************************************************************)
(* Setups for model checking References: every field of the maintained     *)
(* table on its own, each in two ways, and some resources that refer to   *)
(* several others or stand in a chain.                                     *)
(***************************************************************************)
EXTENDS References, TLC

CONSTANTS a, b, c

Wires(via, always, targets) == [via |-> via, always |-> always, targets |-> targets]

For(field) == <<"forProvider", field>>

(* a is of some kind and refers to b in one of its fields.                 *)
OneField(kind, field, wire) ==
    [used   |-> {a, b},
     kind   |-> a :> kind @@ b :> field[2] @@ c :> resNetwork,
     wiring |-> a :> (For(field[1]) :> wire) @@ b :> <<>> @@ c :> <<>>]

EachField ==
    UNION {{OneField(kind, field, Wires("ref", TRUE, {b})),
            OneField(kind, field, Wires("selector", FALSE, {a, b, c}))}
               : <<kind, field>> \in {<<k, f>> \in (DOMAIN references)
                       \X UNION {references[k] : k \in DOMAIN references} : f \in references[k]}}

(* A device, the port profile of one of its ports, and their network.      *)
DeviceChain ==
    [used   |-> {a, b, c},
     kind   |-> a :> "unifi_device" @@ b :> resPortProfile @@ c :> resNetwork,
     wiring |-> a :> (For("port_override.port_profile_id") :> Wires("ref", TRUE, {b})
                      @@ For("mgmt_network_id") :> Wires("ref", FALSE, {c}))
             @@ b :> (For("tagged_networkconf_ids") :> Wires("selector", FALSE, {a, b, c}))
             @@ c :> <<>>]

(* A policy that matches a zone and any network.                           *)
PolicyChain ==
    [used   |-> {a, b, c},
     kind   |-> a :> "unifi_firewall_policy" @@ b :> resFirewallZone @@ c :> resNetwork,
     wiring |-> a :> (For("source.zone_id") :> Wires("ref", FALSE, {b})
                      @@ For("destination.network_ids") :> Wires("selector", TRUE, {a, b, c}))
             @@ b :> (For("network_ids") :> Wires("ref", TRUE, {c}))
             @@ c :> <<>>]

(* One resource that refers to two of the same kind.                       *)
Two(kind, wired, to) ==
    [used   |-> {a, b, c},
     kind   |-> a :> kind @@ b :> to @@ c :> to,
     wiring |-> a :> wired @@ b :> <<>> @@ c :> <<>>]

MCSetups ==
    EachField \cup
    {DeviceChain, PolicyChain,
     Two(resFirewallZone, For("network_ids") :> Wires("ref", FALSE, {b, c}), resNetwork),
     Two("unifi_traffic_route", For("network_id") :> Wires("selector", FALSE, {a, b, c}),
         resVPNClient),
     Two("unifi_wlan", For("network_id") :> Wires("ref", FALSE, {b})
             @@ <<"initProvider", "network_id">> :> Wires("ref", TRUE, {c}), resNetwork)}

=============================================================================
