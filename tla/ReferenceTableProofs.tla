------------------------ MODULE ReferenceTableProofs ------------------------
(***************************************************************************)
(* The maintained table and the generated resolvers say the same, kind by  *)
(* kind.                                                                   *)
(***************************************************************************)
EXTENDS ReferenceTable, Naturals, TLAPS

(* A resolver resolves the fields of a kind in the table, all of them and  *)
(* no other, each to the kind the table names.                             *)
Agree(resolver, fields) ==
    /\ Len(resolver) \in Nat /\ DOMAIN resolver = 1 .. Len(resolver)
    /\ \A i \in DOMAIN resolver : <<resolver[i].field, resolver[i].to>> \in fields
    /\ \A f \in fields : \E i \in DOMAIN resolver : <<resolver[i].field, resolver[i].to>> = f

(* The generated resolvers agree with the maintained table, kind by kind.  *)
THEOREM TableAgrees ==
    /\ DOMAIN Resolvers = DOMAIN references
    /\ \A kind \in DOMAIN references : Agree(ResolverOf(kind), references[kind])
<1> USE DEF Agree, One, Many, To
<1>1. DOMAIN Resolvers = DOMAIN references
  BY DEF Resolvers, references
<1>2. Agree(Account, references["unifi_account"])
  BY DEF Account, references
<1>3. Agree(DeviceClient, references["unifi_client"])
  BY DEF DeviceClient, references
<1>4. Agree(Device, references["unifi_device"])
  BY DEF Device, references
<1>5. Agree(Policy, references["unifi_firewall_policy"])
  <2>1. /\ Len(Policy) \in Nat /\ DOMAIN Policy = 1 .. Len(Policy)
        /\ \A i \in DOMAIN Policy :
              <<Policy[i].field, Policy[i].to>> \in references["unifi_firewall_policy"]
        /\ \A f \in references["unifi_firewall_policy"] :
              \E i \in DOMAIN Policy : Policy[i].field = f[1]
    BY DEF Policy, PolicySource, PolicyDestination, references
  <2>2. \A f, g \in references["unifi_firewall_policy"] : f[1] = g[1] => f = g
    BY DEF references, resNetwork, resFirewallGroup, resFirewallZone
  <2> QED
    BY <2>1, <2>2
<1>6. Agree(Rule, references["unifi_firewall_rule"])
  BY DEF Rule, references
<1>7. Agree(Zone, references["unifi_firewall_zone"])
  BY DEF Zone, references
<1>8. Agree(Forward, references["unifi_port_forward"])
  BY DEF Forward, references
<1>9. Agree(PortProfile, references["unifi_port_profile"])
  BY DEF PortProfile, references
<1>10. Agree(RadiusUser, references["unifi_radius_user"])
  BY DEF RadiusUser, references
<1>11. Agree(TrafficRoute, references["unifi_traffic_route"])
  BY DEF TrafficRoute, references
<1>12. Agree(Setting, references["unifi_setting"])
  BY DEF Setting, references
<1>13. Agree(Server, references["unifi_vpn_server"])
  BY DEF Server, references
<1>14. Agree(Wlan, references["unifi_wlan"])
  BY DEF Wlan, references
<1> HIDE DEF Agree, One, Many, To
<1>15. ASSUME NEW kind \in DOMAIN references
       PROVE  Agree(ResolverOf(kind), references[kind])
  <2>1. kind \in {"unifi_account", "unifi_client", "unifi_device", "unifi_firewall_policy",
                  "unifi_firewall_rule", "unifi_firewall_zone", "unifi_port_forward",
                  "unifi_port_profile", "unifi_radius_user", "unifi_traffic_route",
                  "unifi_setting", "unifi_vpn_server", "unifi_wlan"}
    BY DEF references
  <2>2. ResolverOf(kind) = Resolvers[kind]
    BY <1>1 DEF ResolverOf
  <2> QED
    BY <1>2, <1>3, <1>4, <1>5, <1>6, <1>7, <1>8, <1>9, <1>10, <1>11, <1>12, <1>13, <1>14,
       <2>1, <2>2 DEF Resolvers
<1> QED
  BY <1>1, <1>15

=============================================================================
