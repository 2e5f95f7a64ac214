---------------------------- MODULE ReferenceTable ----------------------------
(***************************************************************************)
(* Which field of which kind refers to which kind: the table a maintainer  *)
(* writes (config/unifi/config.go references) and the resolver generated   *)
(* for each kind (apis/*/*/v1alpha1/zz_generated.resolvers.go), as the     *)
(* sequence of the fields it resolves, in the order it resolves them.      *)
(* Kinds go by their Terraform resource name, fields by their Terraform    *)
(* path; of a block that may repeat there is one element.                  *)
(***************************************************************************)
EXTENDS Sequences

resNetwork == "unifi_network"
resFirewallGroup == "unifi_firewall_group"
resFirewallZone == "unifi_firewall_zone"
resVPNClient == "unifi_vpn_client"
resRadiusProfile == "unifi_radius_profile"
resPortProfile == "unifi_port_profile"
resApGroup == "unifi_ap_group"

-----------------------------------------------------------------------------
(* One field as a resolver treats it: where the value goes, the kind the   *)
(* reference must be of, and whether it holds a list of ids.               *)
One(field, to)  == [field |-> field, to |-> to, many |-> FALSE]
Many(field, to) == [field |-> field, to |-> to, many |-> TRUE]

Account == <<One("network_id", resNetwork)>>
DeviceClient == <<One("network_id", resNetwork)>>
Device ==
    <<One("mgmt_network_id", resNetwork),
      Many("port_override.excluded_networkconf_ids", resNetwork),
      Many("port_override.multicast_router_networkconf_ids", resNetwork),
      One("port_override.native_networkconf_id", resNetwork),
      One("port_override.port_profile_id", resPortProfile),
      Many("port_override.tagged_networkconf_ids", resNetwork),
      One("port_override.voice_networkconf_id", resNetwork)>>
PolicyDestination ==
    <<One("destination.ip_group_id", resFirewallGroup),
      Many("destination.network_ids", resNetwork),
      One("destination.port_group_id", resFirewallGroup),
      One("destination.zone_id", resFirewallZone)>>
PolicySource ==
    <<One("source.ip_group_id", resFirewallGroup),
      Many("source.network_ids", resNetwork),
      One("source.port_group_id", resFirewallGroup),
      One("source.zone_id", resFirewallZone)>>
Policy == PolicyDestination \o PolicySource
Rule ==
    <<Many("dst_firewall_group_ids", resFirewallGroup),
      One("dst_network_id", resNetwork),
      Many("src_firewall_group_ids", resFirewallGroup),
      One("src_network_id", resNetwork)>>
Zone == <<Many("network_ids", resNetwork)>>
Forward == <<One("source_limiting.firewall_group_id", resFirewallGroup)>>
PortProfile ==
    <<Many("excluded_networkconf_ids", resNetwork),
      Many("multicast_router_networkconf_ids", resNetwork),
      One("native_networkconf_id", resNetwork),
      Many("tagged_networkconf_ids", resNetwork),
      One("voice_networkconf_id", resNetwork)>>
RadiusUser == <<One("network_id", resNetwork)>>
(* Mutated form: of the kinds with a network id, the wrong one.            *)
TrafficRouteToNetwork == <<One("network_id", resNetwork)>>
TrafficRoute == <<One("network_id", resVPNClient)>>
Setting ==
    <<Many("igmp_snooping.network_ids", resNetwork),
      One("ips.honeypot.network_id", resNetwork)>>
Server == <<One("radiusprofile_id", resRadiusProfile)>>
Wlan ==
    <<Many("ap_group_ids", resApGroup),
      One("network_id", resNetwork),
      One("private_preshared_keys.network_id", resNetwork),
      One("radius_profile_id", resRadiusProfile)>>

(* ResolveReferences of each kind that has one.                            *)
Resolvers ==
    [unifi_account |-> Account, unifi_client |-> DeviceClient, unifi_device |-> Device,
     unifi_firewall_policy |-> Policy, unifi_firewall_rule |-> Rule,
     unifi_firewall_zone |-> Zone, unifi_port_forward |-> Forward,
     unifi_port_profile |-> PortProfile, unifi_radius_user |-> RadiusUser,
     unifi_traffic_route |-> TrafficRoute, unifi_setting |-> Setting,
     unifi_vpn_server |-> Server, unifi_wlan |-> Wlan]

ResolverOf(kind) == IF kind \in DOMAIN Resolvers THEN Resolvers[kind] ELSE <<>>

-----------------------------------------------------------------------------
To(fields, kind) == {<<f, kind>> : f \in fields}

(* The maintained table: for a kind, its fields and what they refer to.    *)
references ==
    [unifi_traffic_route |-> To({"network_id"}, resVPNClient),
     unifi_firewall_rule |->
         To({"src_firewall_group_ids", "dst_firewall_group_ids"}, resFirewallGroup)
         \cup To({"src_network_id", "dst_network_id"}, resNetwork),
     unifi_wlan |->
         To({"ap_group_ids"}, resApGroup) \cup To({"radius_profile_id"}, resRadiusProfile)
         \cup To({"network_id", "private_preshared_keys.network_id"}, resNetwork),
     unifi_radius_user |-> To({"network_id"}, resNetwork),
     unifi_vpn_server |-> To({"radiusprofile_id"}, resRadiusProfile),
     unifi_account |-> To({"network_id"}, resNetwork),
     unifi_client |-> To({"network_id"}, resNetwork),
     unifi_device |->
         To({"mgmt_network_id", "port_override.native_networkconf_id",
             "port_override.voice_networkconf_id", "port_override.tagged_networkconf_ids",
             "port_override.excluded_networkconf_ids",
             "port_override.multicast_router_networkconf_ids"}, resNetwork)
         \cup To({"port_override.port_profile_id"}, resPortProfile),
     unifi_firewall_zone |-> To({"network_ids"}, resNetwork),
     unifi_port_profile |->
         To({"native_networkconf_id", "voice_networkconf_id", "tagged_networkconf_ids",
             "excluded_networkconf_ids", "multicast_router_networkconf_ids"}, resNetwork),
     unifi_setting |->
         To({"igmp_snooping.network_ids", "ips.honeypot.network_id"}, resNetwork),
     unifi_firewall_policy |->
         To({"source.network_ids", "destination.network_ids"}, resNetwork)
         \cup To({"source.zone_id", "destination.zone_id"}, resFirewallZone)
         \cup To({"source.ip_group_id", "source.port_group_id",
                  "destination.ip_group_id", "destination.port_group_id"}, resFirewallGroup),
     unifi_port_forward |-> To({"source_limiting.firewall_group_id"}, resFirewallGroup)]

=============================================================================
