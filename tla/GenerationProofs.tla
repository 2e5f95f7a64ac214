-------------------------- MODULE GenerationProofs --------------------------
(***************************************************************************)
(* Proofs about Generation: the tables give every resource files of its    *)
(* own; whatever the tables are edited to and wherever earlier runs have   *)
(* failed, a run that finishes leaves the API of the tables; and the       *)
(* descriptions of a block with write-only attributes come out the same in *)
(* every order of its attributes, for any block and any descriptions.      *)
(***************************************************************************)
EXTENDS Generation, ReferenceTableProofs, SequenceTheorems, FiniteSetTheorems

(* The tables.  Every resource has a group.                                *)
LEMMA EveryResourceHasAGroup ==
    \A n \in Resources : GroupOf(n) \in DOMAIN shortGroups /\ n \in shortGroups[GroupOf(n)]
<1>1. \A n \in Resources : \E g \in DOMAIN shortGroups : n \in shortGroups[g]
  BY DEF Resources, ExternalNameConfigs, shortGroups, resFirewallGroup, resFirewallZone,
         resNetwork, resVPNClient
<1> QED
  BY <1>1 DEF GroupOf

(* Within a group no two resources have the same kind.                     *)
DifferInKind(names) == \A n, m \in names : KindOf(n) = KindOf(m) => n = m

LEMMA KindsDiffer == \A g \in DOMAIN shortGroups : DifferInKind(shortGroups[g])
<1>1. DifferInKind(shortGroups["device"])
  <2>1. KindOf("unifi_device") = <<"device">>
    BY DEF KindOf, DefaultKind, kindOverrides, ExternalNameConfigs
  <2>2. KindOf("unifi_client") = <<"client">>
    BY DEF KindOf, DefaultKind, kindOverrides, ExternalNameConfigs
  <2>3. KindOf("unifi_client_qos_rate") = <<"qos", "rate">>
    BY DEF KindOf, DefaultKind, kindOverrides, ExternalNameConfigs
  <2>4. KindOf("unifi_power_supervisor") = <<"supervisor">>
    BY DEF KindOf, DefaultKind, kindOverrides, ExternalNameConfigs
  <2>5. shortGroups["device"] = {"unifi_device", "unifi_client",
                                 "unifi_client_qos_rate", "unifi_power_supervisor"}
    BY DEF shortGroups, resFirewallGroup, resFirewallZone, resNetwork, resVPNClient
  <2> QED
    BY <2>1, <2>2, <2>3, <2>4, <2>5 DEF DifferInKind
<1>2. DifferInKind(shortGroups["firewall"])
  <2>1. KindOf("unifi_firewall_group") = <<"group">>
    BY DEF KindOf, DefaultKind, kindOverrides, ExternalNameConfigs
  <2>2. KindOf("unifi_firewall_policy") = <<"policy">>
    BY DEF KindOf, DefaultKind, kindOverrides, ExternalNameConfigs
  <2>3. KindOf("unifi_firewall_rule") = <<"rule">>
    BY DEF KindOf, DefaultKind, kindOverrides, ExternalNameConfigs
  <2>4. KindOf("unifi_firewall_zone") = <<"zone">>
    BY DEF KindOf, DefaultKind, kindOverrides, ExternalNameConfigs
  <2>5. shortGroups["firewall"] = {"unifi_firewall_group", "unifi_firewall_policy",
                                   "unifi_firewall_rule", "unifi_firewall_zone"}
    BY DEF shortGroups, resFirewallGroup, resFirewallZone, resNetwork, resVPNClient
  <2> QED
    BY <2>1, <2>2, <2>3, <2>4, <2>5 DEF DifferInKind
<1>3. DifferInKind(shortGroups["network"])
  <2>1. KindOf("unifi_network") = <<"network">>
    BY DEF KindOf, DefaultKind, kindOverrides, ExternalNameConfigs
  <2>2. KindOf("unifi_wan") = <<"wan">>
    BY DEF KindOf, DefaultKind, kindOverrides, ExternalNameConfigs
  <2>3. KindOf("unifi_bgp") = <<"bgp">>
    BY DEF KindOf, DefaultKind, kindOverrides, ExternalNameConfigs
  <2>4. shortGroups["network"] = {"unifi_network", "unifi_wan", "unifi_bgp"}
    BY DEF shortGroups, resFirewallGroup, resFirewallZone, resNetwork, resVPNClient
  <2> QED
    BY <2>1, <2>2, <2>3, <2>4 DEF DifferInKind
<1>4. DifferInKind(shortGroups["port"])
  <2>1. KindOf("unifi_port_forward") = <<"forward">>
    BY DEF KindOf, DefaultKind, kindOverrides, ExternalNameConfigs
  <2>2. KindOf("unifi_port_profile") = <<"profile">>
    BY DEF KindOf, DefaultKind, kindOverrides, ExternalNameConfigs
  <2>3. shortGroups["port"] = {"unifi_port_forward", "unifi_port_profile"}
    BY DEF shortGroups, resFirewallGroup, resFirewallZone, resNetwork, resVPNClient
  <2> QED
    BY <2>1, <2>2, <2>3 DEF DifferInKind
<1>5. DifferInKind(shortGroups["radius"])
  <2>1. KindOf("unifi_radius_profile") = <<"profile">>
    BY DEF KindOf, DefaultKind, kindOverrides, ExternalNameConfigs
  <2>2. KindOf("unifi_radius_user") = <<"user">>
    BY DEF KindOf, DefaultKind, kindOverrides, ExternalNameConfigs
  <2>3. shortGroups["radius"] = {"unifi_radius_profile", "unifi_radius_user"}
    BY DEF shortGroups, resFirewallGroup, resFirewallZone, resNetwork, resVPNClient
  <2> QED
    BY <2>1, <2>2, <2>3 DEF DifferInKind
<1>6. DifferInKind(shortGroups["route"])
  <2>1. KindOf("unifi_static_route") = <<"static", "route">>
    BY DEF KindOf, DefaultKind, kindOverrides, ExternalNameConfigs
  <2>2. KindOf("unifi_traffic_route") = <<"traffic", "route">>
    BY DEF KindOf, DefaultKind, kindOverrides, ExternalNameConfigs
  <2>3. shortGroups["route"] = {"unifi_static_route", "unifi_traffic_route"}
    BY DEF shortGroups, resFirewallGroup, resFirewallZone, resNetwork, resVPNClient
  <2> QED
    BY <2>1, <2>2, <2>3 DEF DifferInKind
<1>7. DifferInKind(shortGroups["setting"])
  <2>1. KindOf("unifi_setting") = <<"setting">>
    BY DEF KindOf, DefaultKind, kindOverrides, ExternalNameConfigs
  <2>2. KindOf("unifi_dynamic_dns") = <<"dns">>
    BY DEF KindOf, DefaultKind, kindOverrides, ExternalNameConfigs
  <2>3. shortGroups["setting"] = {"unifi_setting", "unifi_dynamic_dns"}
    BY DEF shortGroups, resFirewallGroup, resFirewallZone, resNetwork, resVPNClient
  <2> QED
    BY <2>1, <2>2, <2>3 DEF DifferInKind
<1>8. DifferInKind(shortGroups["vpn"])
  <2>1. KindOf("unifi_site_to_site_vpn") = <<"to", "site", "vpn">>
    BY DEF KindOf, DefaultKind, kindOverrides, ExternalNameConfigs
  <2>2. KindOf("unifi_vpn_client") = <<"client">>
    BY DEF KindOf, DefaultKind, kindOverrides, ExternalNameConfigs
  <2>3. KindOf("unifi_vpn_server") = <<"server">>
    BY DEF KindOf, DefaultKind, kindOverrides, ExternalNameConfigs
  <2>4. KindOf("unifi_wireguard_peer") = <<"peer">>
    BY DEF KindOf, DefaultKind, kindOverrides, ExternalNameConfigs
  <2>5. shortGroups["vpn"] = {"unifi_site_to_site_vpn", "unifi_vpn_client",
                              "unifi_vpn_server", "unifi_wireguard_peer"}
    BY DEF shortGroups, resFirewallGroup, resFirewallZone, resNetwork, resVPNClient
  <2> QED
    BY <2>1, <2>2, <2>3, <2>4, <2>5 DEF DifferInKind
<1>9. DifferInKind(shortGroups["wlan"])
  <2>1. KindOf("unifi_wlan") = <<"wlan">>
    BY DEF KindOf, DefaultKind, kindOverrides, ExternalNameConfigs
  <2>2. KindOf("unifi_ap_group") = <<"ap", "group">>
    BY DEF KindOf, DefaultKind, kindOverrides, ExternalNameConfigs
  <2>3. shortGroups["wlan"] = {"unifi_wlan", "unifi_ap_group"}
    BY DEF shortGroups, resFirewallGroup, resFirewallZone, resNetwork, resVPNClient
  <2> QED
    BY <2>1, <2>2, <2>3 DEF DifferInKind
<1>10. \A n : DifferInKind({n})
  BY DEF DifferInKind
<1>11. ASSUME NEW g \in DOMAIN shortGroups
       PROVE  DifferInKind(shortGroups[g])
  <2>1. g \in {"account", "device", "dns", "firewall", "network", "port", "radius", "route",
               "setting", "site", "vpn", "wlan"}
    BY DEF shortGroups
  <2>2. g \in {"account", "dns", "site"} => \E n : shortGroups[g] = {n}
    BY DEF shortGroups
  <2> QED
    BY <1>1, <1>2, <1>3, <1>4, <1>5, <1>6, <1>7, <1>8, <1>9, <1>10, <2>1, <2>2
<1> QED
  BY <1>11

(* So the files of a resource in a scope are its own: adding a resource to *)
(* the tables can take no files from another.                              *)
THEOREM FilesAreOwn ==
    \A s, t \in Scopes, n, m \in Resources :
        SameFile(Configure(s, n), Configure(t, m)) => s = t /\ n = m
BY EveryResourceHasAGroup, KindsDiffer DEF SameFile, Configure, DifferInKind

(* And its generated resolver resolves what the table says it refers to.   *)
LEMMA ResolversAreWired ==
    \A n : {<<r.field, r.to>> : r \in ToSet(ResolverOf(n))} = ReferencesOf(n)
<1> SUFFICES ASSUME NEW n
             PROVE  {<<r.field, r.to>> : r \in ToSet(ResolverOf(n))} = ReferencesOf(n)
  OBVIOUS
<1>1. CASE n \in DOMAIN references
  <2>1. Agree(ResolverOf(n), references[n])
    BY <1>1, TableAgrees
  <2> QED
    BY <1>1, <2>1 DEF Agree, ReferencesOf, ToSet
<1>2. CASE n \notin DOMAIN references
  <2>1. ResolverOf(n) = <<>>
    BY <1>2, TableAgrees DEF ResolverOf
  <2>2. ToSet(<<>>) = {}
    BY DEF ToSet
  <2> QED
    BY <1>2, <2>1, <2>2 DEF ReferencesOf
<1> QED
  BY <1>1, <1>2

(* The API as the pipeline builds it is the API as the resolvers have it.  *)
Built == {Configure(s, n) : s \in Scopes, n \in config}

LEMMA BuiltIsAPI == Built = API
<1>1. ASSUME NEW s, NEW n
      PROVE  Wired(s, n) = Configure(s, n)
  <2>1. {<<r.field, r.to>> : r \in ToSet(ResolverOf(n))} = ReferencesOf(n)
    BY ResolversAreWired
  <2>2. [Configure(s, n) EXCEPT !.references = ReferencesOf(n)] = Configure(s, n)
    BY DEF Configure
  <2> QED
    BY <2>1, <2>2 DEF Wired
<1> QED
  BY <1>1 DEF Built, API

-----------------------------------------------------------------------------
(* The tree.  While a run is under way it has removed the CRDs; the types  *)
(* are what it has emitted, all of it before the CRDs are written.         *)
Emitted ==
    {t \in Built : \E s \in Scopes, n \in config : <<s, n>> \notin left /\ t = Configure(s, n)}

RunInv ==
    /\ step \in {"idle", "clean", "provider", "describe", "pipeline", "crds"}
    /\ step # "idle" => crds = {}
    /\ step \in {"provider", "describe"} => types = {}
    /\ step = "pipeline" => left \subseteq Scopes \X config /\ types = Emitted
    /\ step = "crds" => types = Built /\ list = config

TreeInv ==
    /\ config \in Configs
    /\ RunInv
    /\ fresh => step = "idle" /\ types = Built /\ crds = Built /\ list = config
    /\ CRDsAreListed

LEMMA TreeInit == Init => TreeInv
BY DEF Init, TreeInv, RunInv, CRDsAreListed

(* A resource emitted takes no file that is there already.                 *)
LEMMA EmitAdds ==
    ASSUME TreeInv, NEW s \in Scopes, NEW n \in Resources, Emit(s, n)
    PROVE  types' = Emitted'
<1>1. /\ types = Emitted /\ config \subseteq Resources /\ left \subseteq Scopes \X config
      /\ <<s, n>> \in left
  BY ConfigsAssumption DEF Emit, TreeInv, RunInv
<1>2. ASSUME NEW t \in types, SameFile(t, Configure(s, n))
      PROVE  FALSE
  <2>1. PICK u \in Scopes, m \in config : <<u, m>> \notin left /\ t = Configure(u, m)
    BY <1>1 DEF Emitted
  <2> QED
    BY <1>1, <1>2, <2>1, FilesAreOwn
<1>3. types' = types \cup {Configure(s, n)}
  BY <1>2 DEF Emit
<1>4. /\ config' = config /\ Built' = Built /\ left' = left \ {<<s, n>>}
      /\ n \in config
  BY <1>1 DEF Emit, Built
<1>5. ASSUME NEW t
      PROVE  t \in types' <=> t \in Emitted'
  BY <1>1, <1>3, <1>4 DEF Emitted, Built
<1> QED
  BY <1>5

LEMMA TreeStep == TreeInv /\ [Next]_vars => TreeInv'
<1> SUFFICES ASSUME TreeInv, [Next]_vars
             PROVE  TreeInv'
  OBVIOUS
<1> USE DEF TreeInv, RunInv
<1>1. CASE StartGenerate
  BY <1>1 DEF StartGenerate, RemoveCRDs, CRDsAreListed
<1>2. CASE RemoveTypes
  BY <1>2 DEF RemoveTypes, CRDsAreListed
<1>3. ASSUME NEW n \in Resources, Include(n)
      PROVE  TreeInv'
  BY <1>3 DEF Include, CRDsAreListed
<1>4. CASE DescribeStep
  BY <1>4 DEF DescribeStep, CRDsAreListed
<1>5. CASE RunPipeline
  <2>1. step' = "pipeline" /\ left' = Scopes \X config' /\ types' = {} /\ crds' = {}
    BY <1>5 DEF RunPipeline
  <2>2. types' = Emitted'
    BY <2>1 DEF Emitted
  <2> QED
    BY <1>5, <2>1, <2>2 DEF RunPipeline, CRDsAreListed
<1>6. ASSUME NEW s \in Scopes, NEW n \in Resources, Emit(s, n)
      PROVE  TreeInv'
  <2>1. types' = Emitted'
    BY <1>6, EmitAdds
  <2> QED
    BY <1>6, <2>1 DEF Emit, CRDsAreListed
<1>7. CASE WriteGeneratedList
  <2>1. types = Built
    <3>1. left = {} /\ types = Emitted
      BY <1>7 DEF WriteGeneratedList
    <3> QED
      BY <3>1 DEF Emitted, Built
  <2> QED
    BY <1>7, <2>1 DEF WriteGeneratedList, CRDsAreListed, Built
<1>8. CASE WriteCRDs
  <2>1. \A c \in Built : c.resource \in config
    BY DEF Built, Configure
  <2>2. Built' = Built
    BY <1>8 DEF WriteCRDs, Built
  <2> QED
    BY <1>8, <2>1, <2>2 DEF WriteCRDs, CRDsAreListed
<1>9. CASE Fail
  <2>1. \A c \in Built : c.resource \in config
    BY DEF Built, Configure
  <2>2. step = "crds" => crds' \subseteq Built /\ list' = config
    BY <1>9 DEF Fail
  <2>3. CRDsAreListed'
    BY <1>9, <2>1, <2>2 DEF Fail, CRDsAreListed
  <2> QED
    BY <1>9, <2>3 DEF Fail
<1>10. CASE EditTables
  BY <1>10 DEF EditTables, CRDsAreListed
<1>11. CASE UNCHANGED vars
  <2>1. Built' = Built /\ Emitted' = Emitted
    BY <1>11 DEF vars, Emitted, Built
  <2> QED
    BY <1>11, <2>1 DEF vars, CRDsAreListed
<1> QED
  BY <1>1, <1>2, <1>3, <1>4, <1>5, <1>6, <1>7, <1>8, <1>9, <1>10, <1>11 DEF Next

LEMMA TreeAlways == Spec => []TreeInv
<1> QED
  BY TreeInit, TreeStep, PTL DEF Spec

(* After a run that finished the tree is the API of the tables: for any    *)
(* tables, any edits of them and any runs that failed before, no resource  *)
(* of the tables is missing, doubled, left over or without its references. *)
THEOREM TreeIsAPIAlways == Spec => []TreeIsAPI
<1>1. TreeInv => TreeIsAPI
  BY BuiltIsAPI DEF TreeInv, TreeIsAPI
<1> QED
  BY <1>1, TreeAlways, PTL

(* The list never misses a resource that has a CRD, whichever command      *)
(* failed and whichever CRDs were written by then.                         *)
THEOREM CRDsAreListedAlways == Spec => []CRDsAreListed
<1>1. TreeInv => CRDsAreListed
  BY DEF TreeInv
<1> QED
  BY <1>1, TreeAlways, PTL

-----------------------------------------------------------------------------
(* Sequences.  What holds of 1, and of n + 1 when of n, holds of 1 .. N:   *)
(* below the least exception k, adding one would map the numbers that have *)
(* it into fewer.                                                          *)
LEMMA IntervalInduction ==
    ASSUME NEW N \in Nat, NEW T, 1 \in T, \A n \in 1 .. N : n \in T => n + 1 \in T
    PROVE  \A n \in 1 .. N : n \in T
<1>1. SUFFICES ASSUME NEW k \in 1 .. N, k \notin T
               PROVE  FALSE
  OBVIOUS
<1> DEFINE S == T \cap (1 .. (k - 1))
           f == [n \in S |-> n + 1]
<1>2. IsFiniteSet(S) /\ 1 \in S
  <2>1. IsFiniteSet(1 .. (k - 1))
    BY FS_Interval
  <2>2. k # 1
    BY <1>1
  <2> QED
    BY <2>1, <2>2, FS_Subset
<1>3. IsFiniteSet(S \ {1}) /\ Cardinality(S \ {1}) < Cardinality(S)
  <2> HIDE DEF S
  <2>1. IsFiniteSet(S \ {1}) /\ Cardinality(S \ {1}) = Cardinality(S) - 1
    BY <1>2, FS_RemoveElement
  <2>2. Cardinality(S) \in Nat
    BY <1>2, FS_CardinalityType
  <2> QED
    BY <2>1, <2>2
<1>4. f \in [S -> S \ {1}]
  <2> SUFFICES ASSUME NEW n \in S
               PROVE  n + 1 \in S \ {1}
    OBVIOUS
  <2>1. n + 1 \in T /\ n + 1 # k
    BY <1>1
  <2> QED
    BY <2>1
<1>5. PICK x, y \in S : x # y /\ f[x] = f[y]
  <2> HIDE DEF f, S
  <2> QED
    BY <1>2, <1>3, <1>4, FS_PigeonHole
<1> QED
  BY <1>5

(* The function that FlattenSeq defines by recursion.                      *)
Flattens(g, seqs, n) ==
    g = [i \in 1 .. n |-> IF i = 1 THEN seqs[i] ELSE g[i - 1] \o seqs[i]]

LEMMA FlattensEach ==
    ASSUME NEW seqs, NEW n \in Nat, NEW g, Flattens(g, seqs, n)
    PROVE  \A i \in 1 .. n : g[i] = IF i = 1 THEN seqs[i] ELSE g[i - 1] \o seqs[i]
<1> DEFINE k == [i \in 1 .. n |-> IF i = 1 THEN seqs[i] ELSE g[i - 1] \o seqs[i]]
<1>1. g = k
  BY Zenon DEF Flattens
<1>2. \A i \in 1 .. n : k[i] = IF i = 1 THEN seqs[i] ELSE g[i - 1] \o seqs[i]
  OBVIOUS
<1> HIDE DEF k
<1> QED
  BY <1>1, <1>2

LEMMA EachFlattens ==
    ASSUME NEW seqs, NEW n \in Nat, NEW T, NEW g \in [1 .. n -> T],
           \A i \in 1 .. n : g[i] = IF i = 1 THEN seqs[i] ELSE g[i - 1] \o seqs[i]
    PROVE  Flattens(g, seqs, n)
<1> DEFINE k == [i \in 1 .. n |-> IF i = 1 THEN seqs[i] ELSE g[i - 1] \o seqs[i]]
<1>1. \A i \in 1 .. n : k[i] = IF i = 1 THEN seqs[i] ELSE g[i - 1] \o seqs[i]
  OBVIOUS
<1>2. k \in [1 .. n -> T]
  <2>1. \A i \in 1 .. n : g[i] \in T
    OBVIOUS
  <2> SUFFICES ASSUME NEW i \in 1 .. n
               PROVE  (IF i = 1 THEN seqs[i] ELSE g[i - 1] \o seqs[i]) \in T
    OBVIOUS
  <2> QED
    BY <2>1, Zenon
<1> HIDE DEF k
<1>3. \A i \in 1 .. n : g[i] = k[i]
  BY <1>1, Zenon
<1>4. g = k
  BY <1>2, <1>3
<1> QED
  BY <1>4, Zenon DEF Flattens, k

LEMMA FlattenExists ==
    ASSUME NEW seqs, NEW N \in Nat
    PROVE  \A n \in 1 .. N : \E g : Flattens(g, seqs, n)
<1> DEFINE T == {n \in Nat \ {0} : \E g : Flattens(g, seqs, n)}
<1>1. 1 \in T
  <2> DEFINE one == [i \in 1 .. 1 |-> seqs[i]]
  <2>1. Flattens(one, seqs, 1)
    BY DEF Flattens
  <2> QED
    BY <2>1
<1>2. ASSUME NEW n \in 1 .. N, n \in T
      PROVE  n + 1 \in T
  <2>1. PICK g : Flattens(g, seqs, n)
    BY <1>2
  <2> DEFINE h == [i \in 1 .. (n + 1) |-> IF i = 1 THEN seqs[i] ELSE g[i - 1] \o seqs[i]]
         R == {seqs[i] : i \in 1 .. (n + 1)} \cup {g[i - 1] \o seqs[i] : i \in 1 .. (n + 1)}
  <2>2. /\ h \in [1 .. (n + 1) -> R] /\ n + 1 \in Nat
        /\ \A i \in 1 .. (n + 1) : h[i] = IF i = 1 THEN seqs[i] ELSE g[i - 1] \o seqs[i]
    <3>1. ASSUME NEW i \in 1 .. (n + 1)
          PROVE  seqs[i] \in R /\ g[i - 1] \o seqs[i] \in R
      OBVIOUS
    <3> HIDE DEF R
    <3> QED
      BY <3>1
  <2>3. \A i \in 1 .. n : g[i] = IF i = 1 THEN seqs[i] ELSE g[i - 1] \o seqs[i]
    BY <2>1, FlattensEach
  <2> HIDE DEF h, R
  <2>4. \A i \in 1 .. n : h[i] = g[i]
    <3>1. \A i \in 1 .. n : i \in 1 .. (n + 1)
      OBVIOUS
    <3> QED
      BY <2>2, <2>3, <3>1
  <2>5. \A i \in 1 .. (n + 1) : h[i] = IF i = 1 THEN seqs[i] ELSE h[i - 1] \o seqs[i]
    <3>1. \A i \in 1 .. (n + 1) : i # 1 => i - 1 \in 1 .. n
      OBVIOUS
    <3> QED
      BY <2>2, <2>4, <3>1
  <2>6. Flattens(h, seqs, n + 1)
    BY <2>2, <2>5, EachFlattens
  <2> QED
    BY <2>6
<1>3. \A n \in 1 .. N : n \in T
  <2> HIDE DEF T
  <2> QED
    BY <1>1, <1>2, IntervalInduction
<1> QED
  BY <1>3

LEMMA FlattenIs ==
    ASSUME NEW S, NEW seqs \in Seq(S), Len(seqs) # 0
    PROVE  \E g : Flattens(g, seqs, Len(seqs)) /\ Describe!FlattenSeq(seqs) = g[Len(seqs)]
<1>1. Len(seqs) \in Nat /\ Len(seqs) \in 1 .. Len(seqs)
  OBVIOUS
<1>2. \E g : Flattens(g, seqs, Len(seqs))
  BY <1>1, FlattenExists
<1> DEFINE g == CHOOSE g : g = [i \in 1 .. Len(seqs) |->
                                   IF i = 1 THEN seqs[i] ELSE g[i - 1] \o seqs[i]]
<1>3. Flattens(g, seqs, Len(seqs))
  BY <1>2 DEF Flattens
<1>4. Describe!FlattenSeq(seqs) = g[Len(seqs)]
  BY DEF Describe!FlattenSeq
<1> QED
  BY <1>3, <1>4

(* A flattened sequence has the elements of its parts and no other.        *)
LEMMA FlattenElements ==
    ASSUME NEW S, NEW seqs \in Seq(Seq(S))
    PROVE  /\ Describe!FlattenSeq(seqs) \in Seq(S)
           /\ \A x : x \in Range(Describe!FlattenSeq(seqs))
                         <=> \E i \in 1 .. Len(seqs) : x \in Range(seqs[i])
<1>1. CASE Len(seqs) = 0
  <2>1. Describe!FlattenSeq(seqs) = seqs /\ seqs = <<>>
    BY <1>1 DEF Describe!FlattenSeq
  <2> QED
    BY <2>1 DEF Range
<1>2. CASE Len(seqs) # 0
  <2> DEFINE N == Len(seqs)
  <2>1. PICK g : Flattens(g, seqs, N) /\ Describe!FlattenSeq(seqs) = g[N]
    BY <1>2, FlattenIs
  <2>2. N \in 1 .. N /\ N \in Nat /\ \A i \in 1 .. N : seqs[i] \in Seq(S)
    BY <1>2
  <2> DEFINE Good(n) == /\ g[n] \in Seq(S)
                        /\ \A x : x \in Range(g[n]) <=> \E i \in 1 .. n : x \in Range(seqs[i])
             T == {n \in Nat \ {0} : n <= N => Good(n)}
  <2>3. g[1] = seqs[1] /\ \A n \in 1 .. N : n < N => g[n + 1] = g[n] \o seqs[n + 1]
    <3>2. \A i \in 1 .. N : g[i] = IF i = 1 THEN seqs[i] ELSE g[i - 1] \o seqs[i]
      <4> HIDE DEF N
      <4> QED
        BY <2>1, <2>2, FlattensEach
    <3>3. ASSUME NEW n \in 1 .. N, n < N
          PROVE  n + 1 \in 1 .. N /\ n + 1 # 1 /\ (n + 1) - 1 = n
      <4> HIDE DEF N
      <4> QED
        BY <2>2, <3>3
    <3> HIDE DEF N
    <3>4. g[1] = seqs[1]
      BY <2>2, <3>2
    <3>5. ASSUME NEW n \in 1 .. N, n < N
          PROVE  g[n + 1] = g[n] \o seqs[n + 1]
      <4>1. n + 1 \in 1 .. N /\ n + 1 # 1 /\ (n + 1) - 1 = n
        BY <3>3, <3>5
      <4>2. g[n + 1] = IF n + 1 = 1 THEN seqs[n + 1] ELSE g[(n + 1) - 1] \o seqs[n + 1]
        BY <3>2, <4>1
      <4> QED
        BY <4>1, <4>2
    <3> QED
      BY <3>4, <3>5
  <2>4. 1 \in T
    <3>1. \A i \in 1 .. 1 : i = 1
      OBVIOUS
    <3>2. Good(1)
      BY <2>2, <2>3, <3>1
    <3> QED
      BY <3>2
  <2>5. ASSUME NEW n \in 1 .. N, n \in T
        PROVE  n + 1 \in T
    <3> SUFFICES ASSUME n + 1 <= N
                 PROVE  Good(n + 1)
      OBVIOUS
    <3>1. Good(n) /\ seqs[n + 1] \in Seq(S) /\ g[n + 1] = g[n] \o seqs[n + 1]
      <4>1. n < N /\ n <= N /\ n + 1 \in 1 .. N
        BY <2>2
      <4> HIDE DEF N, Good
      <4> QED
        BY <2>2, <2>3, <2>5, <4>1
    <3>2. g[n + 1] \in Seq(S) /\ Range(g[n + 1]) = Range(g[n]) \cup Range(seqs[n + 1])
      BY <3>1, ConcatProperties, RangeConcatenation
    <3>3. \A i : i \in 1 .. (n + 1) <=> (i \in 1 .. n \/ i = n + 1)
      OBVIOUS
    <3> HIDE DEF T
    <3> QED
      BY <3>1, <3>2, <3>3
  <2>6. N \in T
    <3> HIDE DEF T, N
    <3> QED
      BY <2>2, <2>4, <2>5, IntervalInduction
  <2>7. Good(N)
    BY <2>6
  <2> HIDE DEF Good
  <2> QED
    BY <2>1, <2>7 DEF Good
<1> QED
  BY <1>1, <1>2

LEMMA FlattenOne ==
    ASSUME NEW S, NEW s \in Seq(S)
    PROVE  Describe!FlattenSeq(<<s>>) = s
<1> DEFINE seqs == <<s>>
<1>1. seqs \in Seq(Seq(S)) /\ Len(seqs) = 1 /\ seqs[1] = s /\ 1 \in 1 .. 1 /\ 1 \in Nat
  OBVIOUS
<1> HIDE DEF seqs
<1>2. PICK g : Flattens(g, seqs, Len(seqs)) /\ Describe!FlattenSeq(seqs) = g[Len(seqs)]
  <2>1. Len(seqs) # 0
    BY <1>1
  <2> QED
    BY <1>1, <2>1, FlattenIs, Zenon
<1>3. g[1] = s
  BY <1>1, <1>2, FlattensEach
<1> QED
  BY <1>2, <1>3 DEF seqs

-----------------------------------------------------------------------------
(* Names.  A suffix is the end of a name.                                  *)
LEMMA SuffixIsTheEnd ==
    ASSUME NEW S, NEW s \in Seq(S), NEW t \in Seq(S), Describe!IsSuffix(s, t)
    PROVE  /\ Len(s) <= Len(t)
           /\ \A i \in 1 .. Len(s) : s[i] = t[Len(t) - Len(s) + i]
<1> DEFINE rs == Describe!Reverse(s)
           rt == Describe!Reverse(t)
<1>1. /\ Len(rs) = Len(s) /\ \A i \in 1 .. Len(s) : rs[i] = s[(Len(s) - i) + 1]
      /\ Len(rt) = Len(t) /\ \A i \in 1 .. Len(t) : rt[i] = t[(Len(t) - i) + 1]
      /\ rs \in Seq(S) /\ rt \in Seq(S)
  BY DEF Describe!Reverse
<1>2. Len(rs) <= Len(rt) /\ SubSeq(rs, 1, Len(rs)) = SubSeq(rt, 1, Len(rs))
  BY DEF Describe!IsSuffix, Describe!IsPrefix
<1> HIDE DEF rs, rt
<1>3. \A i \in 1 .. Len(s) : rs[i] = rt[i]
  BY <1>1, <1>2
<1>4. ASSUME NEW i \in 1 .. Len(s)
      PROVE  s[i] = t[Len(t) - Len(s) + i]
  <2> DEFINE j == (Len(s) - i) + 1
  <2>1. /\ j \in 1 .. Len(s) /\ j \in 1 .. Len(t)
        /\ (Len(s) - j) + 1 = i /\ (Len(t) - j) + 1 = Len(t) - Len(s) + i
    BY <1>1, <1>2
  <2> HIDE DEF j
  <2> QED
    BY <1>1, <1>3, <2>1
<1> QED
  BY <1>1, <1>2, <1>4

LEMMA EndIsASuffix ==
    ASSUME NEW S, NEW s \in Seq(S), NEW t \in Seq(S), Len(s) <= Len(t),
           \A i \in 1 .. Len(s) : s[i] = t[Len(t) - Len(s) + i]
    PROVE  Describe!IsSuffix(s, t)
<1> DEFINE rs == Describe!Reverse(s)
           rt == Describe!Reverse(t)
<1>1. /\ Len(rs) = Len(s) /\ \A i \in 1 .. Len(s) : rs[i] = s[(Len(s) - i) + 1]
      /\ Len(rt) = Len(t) /\ \A i \in 1 .. Len(t) : rt[i] = t[(Len(t) - i) + 1]
      /\ rs \in Seq(S) /\ rt \in Seq(S)
  BY DEF Describe!Reverse
<1> HIDE DEF rs, rt
<1>2. ASSUME NEW i \in 1 .. Len(s)
      PROVE  rs[i] = rt[i]
  <2> DEFINE j == (Len(s) - i) + 1
  <2>1. j \in 1 .. Len(s) /\ Len(t) - Len(s) + j = (Len(t) - i) + 1 /\ i \in 1 .. Len(t)
    OBVIOUS
  <2>2. rs[i] = s[j] /\ rt[i] = t[(Len(t) - i) + 1]
    BY <1>1, <2>1
  <2> HIDE DEF j
  <2> QED
    BY <2>1, <2>2
<1>3. SubSeq(rs, 1, Len(rs)) = SubSeq(rt, 1, Len(rs)) /\ Len(rs) <= Len(rt)
  BY <1>1, <1>2
<1> QED
  BY <1>3 DEF Describe!IsSuffix, Describe!IsPrefix, rs, rt

(* The provers know no string to be a STRING.                              *)
Word == STRING \cup {"wo", "version"}
Words == Seq(Word)

(* Cutting a suffix of a name off undoes appending it.                     *)
LEMMA CutAppends ==
    ASSUME NEW name \in Words, NEW suffix \in Words, Describe!IsSuffix(suffix, name)
    PROVE  /\ Describe!CutSuffix(name, suffix) \in Words
           /\ Describe!CutSuffix(name, suffix) \o suffix = name
<1>1. /\ Len(suffix) <= Len(name)
      /\ \A i \in 1 .. Len(suffix) : suffix[i] = name[Len(name) - Len(suffix) + i]
  BY SuffixIsTheEnd DEF Words
<1> DEFINE cut == Describe!CutSuffix(name, suffix)
           K == Len(name) - Len(suffix)
<1>2. K \in Nat /\ K <= Len(name) /\ Len(suffix) \in Nat
  BY <1>1 DEF Words
<1>3. cut \in Words /\ Len(cut) = K /\ \A i \in 1 .. K : cut[i] = name[i]
  BY <1>2 DEF Words, Describe!CutSuffix
<1> HIDE DEF cut
<1>4. /\ cut \o suffix \in Words /\ Len(cut \o suffix) = Len(name)
      /\ \A i \in 1 .. Len(name) : (cut \o suffix)[i] = name[i]
  <2>1. cut \o suffix \in Words /\ Len(cut \o suffix) = Len(name)
    BY <1>2, <1>3 DEF Words
  <2>2. ASSUME NEW i \in 1 .. Len(name)
        PROVE  (cut \o suffix)[i] = name[i]
    <3>1. CASE i <= K
      BY <1>2, <1>3, <3>1 DEF Words
    <3>2. CASE ~(i <= K)
      <4> DEFINE j == i - K
      <4>1. j \in 1 .. Len(suffix) /\ K + j = i
        BY <1>2, <3>2
      <4>2. (cut \o suffix)[i] = suffix[j]
        BY <1>2, <1>3, <3>2, <4>1 DEF Words
      <4>3. suffix[j] = name[Len(name) - Len(suffix) + j]
        BY <1>1, <4>1
      <4> QED
        BY <4>1, <4>2, <4>3
    <3> QED
      BY <3>1, <3>2
  <2> QED
    BY <2>1, <2>2
<1>5. cut \o suffix = name
  BY <1>4, SeqEqual DEF Words
<1> QED
  BY <1>3, <1>5 DEF cut

LEMMA AppendCuts ==
    ASSUME NEW base \in Words, NEW suffix \in Words
    PROVE  /\ Describe!IsSuffix(suffix, base \o suffix)
           /\ Describe!CutSuffix(base \o suffix, suffix) = base
<1> DEFINE name == base \o suffix
<1>1. /\ name \in Words /\ Len(name) = Len(base) + Len(suffix)
      /\ Len(base) \in Nat /\ Len(suffix) \in Nat
  BY DEF Words
<1>2. ASSUME NEW i \in 1 .. Len(suffix)
      PROVE  suffix[i] = name[Len(name) - Len(suffix) + i]
  BY <1>1 DEF Words
<1>3. \A i \in 1 .. Len(base) : name[i] = base[i]
  BY <1>1 DEF Words
<1> HIDE DEF name
<1>4. Describe!IsSuffix(suffix, name)
  <2>1. Len(suffix) <= Len(name) /\ suffix \in Seq(Word) /\ name \in Seq(Word)
    BY <1>1 DEF Words
  <2>2. \A i \in 1 .. Len(suffix) : suffix[i] = name[Len(name) - Len(suffix) + i]
    BY <1>2
  <2> QED
    BY <2>1, <2>2, EndIsASuffix, Zenon
<1>5. Describe!CutSuffix(name, suffix) = base
  BY <1>1, <1>3 DEF Describe!CutSuffix, Words
<1> QED
  BY <1>4, <1>5 DEF name

-----------------------------------------------------------------------------
(* Descriptions.  What is kept of a sentence does not name the attribute.  *)
Clause == [text : STRING \cup {"write-only", "counter"}, names : SUBSET Words]
Text == Seq(Seq(Clause))

LEMMA KeptIs ==
    ASSUME NEW sentence \in Seq(Clause), NEW name
    PROVE  /\ Describe!Kept(sentence, name) \in Text
           /\ \A x \in Range(Describe!Kept(sentence, name)) : ~Describe!Naming(x, name)
           /\ ~Describe!Naming(sentence, name) =>
                  Describe!Kept(sentence, name) = <<sentence>>
           /\ Describe!Naming(sentence, name) =>
                  \/ <<sentence[1]>> \in Range(Describe!Kept(sentence, name))
                  \/ Len(sentence) = 1
                  \/ name \in sentence[1].names
<1>1. CASE ~Describe!Naming(sentence, name)
  BY <1>1 DEF Describe!Kept, Text, Range
<1>2. CASE /\ Describe!Naming(sentence, name)
           /\ Len(sentence) > 1 /\ name \notin sentence[1].names
  <2>1. Describe!Kept(sentence, name) = << <<sentence[1]>> >>
    BY <1>2 DEF Describe!Kept
  <2>2. sentence[1] \in Clause
    BY <1>2
  <2>3. ~Describe!Naming(<<sentence[1]>>, name)
    BY <1>2 DEF Describe!Naming
  <2>4. /\ << <<sentence[1]>> >> \in Text
        /\ Range(<< <<sentence[1]>> >>) = {<<sentence[1]>>}
    BY <2>2 DEF Text, Range
  <2> QED
    BY <1>2, <2>1, <2>3, <2>4
<1>3. CASE /\ Describe!Naming(sentence, name)
           /\ ~(Len(sentence) > 1 /\ name \notin sentence[1].names)
  <2>1. Describe!Kept(sentence, name) = <<>>
    BY <1>3 DEF Describe!Kept
  <2>2. Len(sentence) \in Nat \ {0}
    BY <1>3 DEF Describe!Naming
  <2>3. <<>> \in Text /\ Range(<<>>) = {}
    BY DEF Text, Range
  <2>4. Len(sentence) = 1 \/ Len(sentence) > 1
    <3>1. \A n \in Nat \ {0} : n = 1 \/ n > 1
      OBVIOUS
    <3> QED
      BY <2>2, <3>1, Zenon
  <2> QED
    BY <1>3, <2>1, <2>3, <2>4, Zenon
<1> QED
  BY <1>1, <1>2, <1>3

LEMMA WithoutIs ==
    ASSUME NEW text \in Text, NEW name
    PROVE  /\ Describe!WithoutSentencesNaming(text, name) \in Text
           /\ \A x \in Range(Describe!WithoutSentencesNaming(text, name)) :
                  ~Describe!Naming(x, name)
           /\ \A i \in DOMAIN text : \A x \in Range(Describe!Kept(text[i], name)) :
                  x \in Range(Describe!WithoutSentencesNaming(text, name))
<1> DEFINE parts == [i \in DOMAIN text |-> Describe!Kept(text[i], name)]
<1>1. \A i \in DOMAIN text : text[i] \in Seq(Clause)
  BY DEF Text
<1>2. \A i \in DOMAIN text : Describe!Kept(text[i], name) \in Text
  BY <1>1, KeptIs
<1>3. /\ DOMAIN text = 1 .. Len(text) /\ Len(text) \in Nat
      /\ parts \in Seq(Text) /\ Len(parts) = Len(text)
      /\ \A i \in DOMAIN text : parts[i] = Describe!Kept(text[i], name)
  BY <1>2 DEF Text
<1>4. Describe!WithoutSentencesNaming(text, name) = Describe!FlattenSeq(parts)
  BY DEF Describe!WithoutSentencesNaming
<1> HIDE DEF parts
<1>5. /\ Describe!FlattenSeq(parts) \in Text
      /\ \A x : x \in Range(Describe!FlattenSeq(parts))
                    <=> \E i \in 1 .. Len(parts) : x \in Range(parts[i])
  BY <1>3, FlattenElements DEF Text
<1>6. \A i \in DOMAIN text : \A x \in Range(Describe!Kept(text[i], name)) :
          ~Describe!Naming(x, name)
  BY <1>1, KeptIs
<1> QED
  BY <1>3, <1>4, <1>5, <1>6

LEMMA WithoutUnnamed ==
    ASSUME NEW sentence \in Seq(Clause), NEW name, ~Describe!Naming(sentence, name)
    PROVE  Describe!WithoutSentencesNaming(<<sentence>>, name) = <<sentence>>
<1>1. [i \in DOMAIN <<sentence>> |-> Describe!Kept(<<sentence>>[i], name)] = << <<sentence>> >>
  BY DEF Describe!Kept
<1>2. Describe!FlattenSeq(<< <<sentence>> >>) = <<sentence>>
  <2>1. <<sentence>> \in Seq(Seq(Clause))
    OBVIOUS
  <2> QED
    BY <2>1, FlattenOne, Zenon
<1> QED
  BY <1>1, <1>2 DEF Describe!WithoutSentencesNaming

(* What is known of the parameters, and of a name with a suffix.           *)
LEMMA NamesAreWords ==
    /\ \A name \in Names : name \in Words /\ name # <<>>
    /\ Descriptions \subseteq Text
    /\ Describe!Suffix \in Words /\ Len(Describe!Suffix) = 1 /\ Describe!Suffix[1] = "wo"
    /\ Describe!VersionSuffix \in Words /\ Len(Describe!VersionSuffix) = 2
    /\ Describe!VersionSuffix[2] = "version"
<1>1. /\ \A name \in Names : name \in Words /\ name # <<>>
      /\ Descriptions \subseteq Text
  <2>1. Seq(STRING) \subseteq Words
    BY SeqMonotonic DEF Words, Word
  <2>2. Clauses \subseteq Clause
    BY <2>1 DEF Clauses, Clause
  <2>3. Seq(Seq(Clauses)) \subseteq Text
    <3>1. Seq(Clauses) \subseteq Seq(Clause)
      BY <2>2, SeqMonotonic
    <3> QED
      BY <3>1, SeqMonotonic DEF Text
  <2> QED
    BY <2>1, <2>3, BlockAssumption
<1>2. /\ Describe!Suffix \in Words /\ Len(Describe!Suffix) = 1
      /\ Describe!Suffix[1] = "wo"
  BY DEF Words, Word, Describe!Suffix
<1>3. /\ Describe!VersionSuffix \in Words /\ Len(Describe!VersionSuffix) = 2
      /\ Describe!VersionSuffix[2] = "version"
  BY DEF Words, Word, Describe!VersionSuffix
<1> QED
  BY <1>1, <1>2, <1>3

LEMMA Appended ==
    ASSUME NEW base \in Words, NEW suffix \in Words
    PROVE  /\ base \o suffix \in Words /\ Len(base \o suffix) = Len(base) + Len(suffix)
           /\ Len(base) \in Nat
           /\ \A i \in 1 .. Len(suffix) : (base \o suffix)[Len(base) + i] = suffix[i]
BY DEF Words

(* The new descriptions name one attribute each.                           *)
LEMMA OneSentence ==
    ASSUME NEW clause \in Clause, NEW name, name \notin clause.names
    PROVE  /\ << <<clause>> >> \in Text
           /\ Describe!WithoutSentencesNaming(<< <<clause>> >>, name) = << <<clause>> >>
           /\ \A x \in Range(<< <<clause>> >>) : ~Describe!Naming(x, name)
<1>1. <<clause>> \in Seq(Clause) /\ ~Describe!Naming(<<clause>>, name)
  BY DEF Describe!Naming
<1>2. << <<clause>> >> \in Text /\ Range(<< <<clause>> >>) = {<<clause>>}
  BY DEF Text, Range
<1>3. Describe!WithoutSentencesNaming(<< <<clause>> >>, name) = << <<clause>> >>
  BY <1>1, WithoutUnnamed, Zenon
<1> QED
  BY <1>1, <1>2, <1>3

LEMMA NewDescriptions ==
    ASSUME NEW base \in Words, NEW name
    PROVE  /\ base # name =>
                  LET text == Describe!WriteOnlyDescription(base) IN
                  /\ text \in Text /\ Describe!WithoutSentencesNaming(text, name) = text
                  /\ \A x \in Range(text) : ~Describe!Naming(x, name)
           /\ base \o Describe!Suffix # name =>
                  LET text == Describe!WriteOnlyVersionDescription(base) IN
                  /\ text \in Text /\ Describe!WithoutSentencesNaming(text, name) = text
                  /\ \A x \in Range(text) : ~Describe!Naming(x, name)
<1> DEFINE one(b) == [text |-> "write-only", names |-> {b}]
           two(b) == [text |-> "counter", names |-> {b}]
<1>1. ASSUME NEW b \in Words
      PROVE  one(b) \in Clause /\ two(b) \in Clause
  <2>1. {b} \in SUBSET Words
    OBVIOUS
  <2> QED
    BY <2>1 DEF Clause
<1>2. base \o Describe!Suffix \in Words
  BY NamesAreWords, Appended
<1>3. \A b : one(b).names = {b} /\ two(b).names = {b}
  OBVIOUS
<1>4. /\ Describe!WriteOnlyDescription(base) = << <<one(base)>> >>
      /\ Describe!WriteOnlyVersionDescription(base) = << <<two(base \o Describe!Suffix)>> >>
  BY DEF Describe!WriteOnlyDescription, Describe!WriteOnlyVersionDescription
<1> HIDE DEF one, two
<1>5. ASSUME NEW b \in Words, b # name
      PROVE  /\ name \notin one(b).names /\ one(b) \in Clause
             /\ name \notin two(b).names /\ two(b) \in Clause
  BY <1>1, <1>3, <1>5
<1>6. base \o Describe!Suffix # name =>
          /\ name \notin two(base \o Describe!Suffix).names
          /\ two(base \o Describe!Suffix) \in Clause
  BY <1>2, <1>5
<1> QED
  BY <1>4, <1>5, <1>6, OneSentence

-----------------------------------------------------------------------------
(* The block.  What has been visited has its new description, and of an    *)
(* attribute that keeps its own the advice is gone when its write-only     *)
(* form has been visited: each description depends on at most one visit.   *)
BlockTyped ==
    /\ attributes \subseteq Names /\ attrTodo \subseteq attributes
    /\ upstream \in [attributes -> Descriptions]
    /\ description \in [attributes -> Text]

SoFar(name) ==
    /\ Describe!WriteOnlyVersionBase(name) /\ name \notin attrTodo =>
           description[name] = Describe!WriteOnlyVersionDescription(
                                   Describe!CutSuffix(name, Describe!VersionSuffix))
    /\ ~Describe!WriteOnlyVersionBase(name) /\ Describe!WriteOnlyBase(name)
       /\ name \notin attrTodo =>
           description[name] = Describe!WriteOnlyDescription(
                                   Describe!CutSuffix(name, Describe!Suffix))
    /\ ~Describe!Rewritten(name) =>
           description[name] =
               IF name \o Describe!Suffix \in attributes \ attrTodo
               THEN Describe!WithoutSentencesNaming(upstream[name], name \o Describe!Suffix)
               ELSE upstream[name]

DescribedSoFar == \A name \in attributes : SoFar(name)

BlockInv == BlockTyped /\ DescribedSoFar

(* The write-only form of an attribute ends in "wo", is longer than the    *)
(* attribute by that word, and counts no versions.                         *)
LEMMA FormIsNoCounter ==
    ASSUME NEW base \in Words, NEW other \in Words
    PROVE  base \o Describe!Suffix # other \o Describe!VersionSuffix
<1> DEFINE form == base \o Describe!Suffix
           counter == other \o Describe!VersionSuffix
<1>1. /\ Len(form) = Len(base) + 1 /\ form[Len(base) + 1] = "wo" /\ Len(base) \in Nat
      /\ Len(counter) = Len(other) + 2 /\ counter[Len(other) + 2] = "version"
      /\ Len(other) \in Nat
  <2>1. /\ Len(form) = Len(base) + 1 /\ Len(base) \in Nat
        /\ form[Len(base) + 1] = Describe!Suffix[1]
    <3>1. 1 \in 1 .. Len(Describe!Suffix)
      BY NamesAreWords
    <3> QED
      BY <3>1, NamesAreWords, Appended
  <2>2. /\ Len(counter) = Len(other) + 2 /\ Len(other) \in Nat
        /\ counter[Len(other) + 2] = Describe!VersionSuffix[2]
    <3>1. 2 \in 1 .. Len(Describe!VersionSuffix)
      BY NamesAreWords
    <3> QED
      BY <3>1, NamesAreWords, Appended
  <2> HIDE DEF form, counter
  <2> QED
    BY <2>1, <2>2, NamesAreWords
<1> HIDE DEF form, counter
<1>2. ASSUME form = counter
      PROVE  FALSE
  <2>1. Len(base) + 1 = Len(other) + 2
    BY <1>1, <1>2
  <2> QED
    BY <1>1, <1>2, <2>1
<1> QED
  BY <1>2 DEF form, counter

LEMMA FormIsLonger ==
    ASSUME NEW base \in Words
    PROVE  /\ base \o Describe!Suffix # base
           /\ (base \o Describe!Suffix) \o Describe!Suffix # base
           /\ base \o Describe!Suffix # (base \o Describe!VersionSuffix) \o Describe!Suffix
<1>1. /\ base \o Describe!Suffix \in Words /\ base \o Describe!VersionSuffix \in Words
      /\ Len(base) \in Nat /\ Len(base \o Describe!Suffix) = Len(base) + 1
      /\ Len(base \o Describe!VersionSuffix) = Len(base) + 2
  BY NamesAreWords, Appended
<1>2. /\ Len((base \o Describe!Suffix) \o Describe!Suffix) = (Len(base) + 1) + 1
      /\ Len((base \o Describe!VersionSuffix) \o Describe!Suffix) = (Len(base) + 2) + 1
  BY <1>1, NamesAreWords, Appended
<1> QED
  BY <1>1, <1>2

(* What the bases of a rewritten attribute are.                            *)
LEMMA BaseOfForm ==
    ASSUME BlockTyped, NEW name \in attributes, Describe!WriteOnlyBase(name)
    PROVE  /\ Describe!CutSuffix(name, Describe!Suffix) \in attributes
           /\ Describe!CutSuffix(name, Describe!Suffix) \in Words
           /\ Describe!CutSuffix(name, Describe!Suffix) \o Describe!Suffix = name
BY NamesAreWords, CutAppends DEF BlockTyped, Describe!WriteOnlyBase, Describe!HasBase

LEMMA BaseOfCounter ==
    ASSUME BlockTyped, NEW name \in attributes, Describe!WriteOnlyVersionBase(name)
    PROVE  /\ Describe!CutSuffix(name, Describe!VersionSuffix) \in Words
           /\ Describe!CutSuffix(name, Describe!VersionSuffix) \o Describe!VersionSuffix = name
BY NamesAreWords, CutAppends DEF BlockTyped, Describe!WriteOnlyVersionBase, Describe!HasBase

LEMMA FormOfBase ==
    ASSUME BlockTyped, NEW base \in attributes, base \o Describe!Suffix \in attributes
    PROVE  /\ Describe!WriteOnlyBase(base \o Describe!Suffix)
           /\ ~Describe!WriteOnlyVersionBase(base \o Describe!Suffix)
           /\ Describe!CutSuffix(base \o Describe!Suffix, Describe!Suffix) = base
<1>1. base \in Words /\ base # <<>>
  BY NamesAreWords DEF BlockTyped
<1>2. /\ Describe!IsSuffix(Describe!Suffix, base \o Describe!Suffix)
      /\ Describe!CutSuffix(base \o Describe!Suffix, Describe!Suffix) = base
  BY <1>1, NamesAreWords, AppendCuts
<1>3. ~Describe!WriteOnlyVersionBase(base \o Describe!Suffix)
  BY <1>1, BaseOfCounter, FormIsNoCounter
<1> QED
  BY <1>1, <1>2, <1>3 DEF Describe!WriteOnlyBase, Describe!HasBase

(* Two attributes have no write-only form in common.                       *)
LEMMA OneBase ==
    ASSUME NEW n \in Words, NEW m \in Words, n \o Describe!Suffix = m \o Describe!Suffix
    PROVE  n = m
<1>1. /\ Describe!CutSuffix(n \o Describe!Suffix, Describe!Suffix) = n
      /\ Describe!CutSuffix(m \o Describe!Suffix, Describe!Suffix) = m
  BY NamesAreWords, AppendCuts
<1> QED
  BY <1>1

(* A description already rewritten names no write-only form of its         *)
(* attribute, so that form's visit leaves it as it is.                     *)
LEMMA RewrittenStays ==
    ASSUME BlockInv, NEW name \in attributes \ attrTodo, Describe!Rewritten(name)
    PROVE  LET form == name \o Describe!Suffix IN
           /\ Describe!WithoutSentencesNaming(description[name], form) = description[name]
           /\ \A x \in Range(description[name]) : ~Describe!Naming(x, form)
<1> DEFINE form == name \o Describe!Suffix
<1>1. CASE Describe!WriteOnlyVersionBase(name)
  <2> DEFINE base == Describe!CutSuffix(name, Describe!VersionSuffix)
  <2>1. base \in Words /\ base \o Describe!VersionSuffix = name
    BY <1>1, BaseOfCounter DEF BlockInv
  <2>2. description[name] = Describe!WriteOnlyVersionDescription(base)
    BY <1>1 DEF BlockInv, DescribedSoFar, SoFar
  <2> HIDE DEF base
  <2>3. base \o Describe!Suffix # form
    BY <2>1, FormIsLonger
  <2> QED
    BY <2>1, <2>2, <2>3, NewDescriptions
<1>2. CASE ~Describe!WriteOnlyVersionBase(name) /\ Describe!WriteOnlyBase(name)
  <2> DEFINE base == Describe!CutSuffix(name, Describe!Suffix)
  <2>1. base \in Words /\ base \o Describe!Suffix = name
    BY <1>2, BaseOfForm DEF BlockInv
  <2>2. description[name] = Describe!WriteOnlyDescription(base)
    BY <1>2 DEF BlockInv, DescribedSoFar, SoFar
  <2> HIDE DEF base
  <2>3. base # form
    BY <2>1, FormIsLonger
  <2> QED
    BY <2>1, <2>2, <2>3, NewDescriptions
<1> QED
  BY <1>1, <1>2 DEF Describe!Rewritten

(* What a visit keeps.                                                     *)
LEMMA VisitFrame ==
    ASSUME BlockTyped, NEW name, Describe!Visit(name)
    PROVE  /\ name \in attributes /\ name \in attrTodo /\ attrTodo' = attrTodo \ {name}
           /\ attributes' = attributes /\ upstream' = upstream
           /\ attrTodo' \subseteq attributes'
           /\ \A n : /\ Describe!WriteOnlyVersionBase(n)' <=> Describe!WriteOnlyVersionBase(n)
                     /\ Describe!WriteOnlyBase(n)' <=> Describe!WriteOnlyBase(n)
                     /\ Describe!Rewritten(n)' <=> Describe!Rewritten(n)
<1>1. /\ name \in attributes /\ name \in attrTodo /\ attrTodo' = attrTodo \ {name}
      /\ attributes' = attributes /\ upstream' = upstream /\ attrTodo' \subseteq attributes'
  BY DEF BlockTyped, Describe!Visit
<1>2. ASSUME NEW n
      PROVE  /\ Describe!WriteOnlyVersionBase(n)' <=> Describe!WriteOnlyVersionBase(n)
             /\ Describe!WriteOnlyBase(n)' <=> Describe!WriteOnlyBase(n)
  BY <1>1 DEF Describe!WriteOnlyVersionBase, Describe!WriteOnlyBase, Describe!HasBase
<1> QED
  BY <1>1, <1>2 DEF Describe!Rewritten

(* An attribute that is neither visited nor the base of the one that is.   *)
LEMMA OthersKeep ==
    ASSUME BlockInv, NEW name, Describe!Visit(name),
           NEW n \in attributes, n # name, description'[n] = description[n],
           ~Describe!Rewritten(n) => n \o Describe!Suffix # name
    PROVE  SoFar(n)'
<1>1. /\ SoFar(n) /\ attrTodo' = attrTodo \ {name} /\ attributes' = attributes
      /\ upstream' = upstream
      /\ Describe!WriteOnlyVersionBase(n)' <=> Describe!WriteOnlyVersionBase(n)
      /\ Describe!WriteOnlyBase(n)' <=> Describe!WriteOnlyBase(n)
      /\ Describe!Rewritten(n)' <=> Describe!Rewritten(n)
  BY VisitFrame DEF BlockInv, DescribedSoFar, SoFar
<1>2. n \notin attrTodo' <=> n \notin attrTodo
  BY <1>1
<1>3. ~Describe!Rewritten(n) =>
          (n \o Describe!Suffix \in attributes' \ attrTodo'
               <=> n \o Describe!Suffix \in attributes \ attrTodo)
  BY <1>1
<1> QED
  BY <1>1, <1>2, <1>3 DEF SoFar

LEMMA VersionKeeps ==
    ASSUME BlockInv, NEW name, Describe!DescribeVersion(name)
    PROVE  BlockInv'
<1> DEFINE base == Describe!CutSuffix(name, Describe!VersionSuffix)
           text == Describe!WriteOnlyVersionDescription(base)
<1>1. /\ Describe!Visit(name) /\ Describe!WriteOnlyVersionBase(name)
      /\ description' = [description EXCEPT ![name] = text]
  BY DEF Describe!DescribeVersion
<1>2. /\ name \in attributes /\ name \in attrTodo /\ attrTodo' = attrTodo \ {name}
      /\ attributes' = attributes /\ upstream' = upstream /\ attrTodo' \subseteq attributes'
      /\ Describe!WriteOnlyVersionBase(name)' /\ Describe!Rewritten(name)'
  BY <1>1, VisitFrame DEF BlockInv, Describe!Rewritten
<1>3. base \in Words /\ base \o Describe!VersionSuffix = name
  BY <1>1, <1>2, BaseOfCounter DEF BlockInv
<1>4. text \in Text
  <2> HIDE DEF base
  <2> QED
    BY <1>3, NewDescriptions, FormIsLonger
<1>5. BlockTyped'
  <2> HIDE DEF text
  <2> QED
    BY <1>1, <1>2, <1>4 DEF BlockInv, BlockTyped
<1>6. ASSUME NEW n \in attributes
      PROVE  SoFar(n)'
  <2>1. CASE n = name
    <3>1. description'[n] = text
      BY <1>1, <1>2, <2>1 DEF BlockInv, BlockTyped
    <3> QED
      BY <1>2, <2>1, <3>1 DEF SoFar, Describe!CutSuffix, Describe!VersionSuffix,
         Describe!WriteOnlyVersionDescription, Describe!Suffix
  <2>2. CASE n # name
    <3>1. description'[n] = description[n]
      BY <1>1, <2>2 DEF BlockInv, BlockTyped
    <3>2. n \o Describe!Suffix # name
      <4>1. n \in Words
        BY NamesAreWords DEF BlockInv, BlockTyped
      <4> HIDE DEF base
      <4> QED
        BY <1>3, <4>1, FormIsNoCounter
    <3> QED
      BY <1>1, <2>2, <3>1, <3>2, OthersKeep
  <2> QED
    BY <2>1, <2>2
<1> QED
  BY <1>2, <1>5, <1>6 DEF BlockInv, DescribedSoFar

LEMMA WriteOnlyKeeps ==
    ASSUME BlockInv, NEW name, Describe!DescribeWriteOnly(name)
    PROVE  BlockInv'
<1> DEFINE base == Describe!CutSuffix(name, Describe!Suffix)
           text == Describe!WriteOnlyDescription(base)
           rest == Describe!WithoutSentencesNaming(description[base], name)
<1>1. /\ Describe!Visit(name)
      /\ ~Describe!WriteOnlyVersionBase(name) /\ Describe!WriteOnlyBase(name)
      /\ description' = [description EXCEPT ![name] = text, ![base] = rest]
  BY DEF Describe!DescribeWriteOnly
<1>2. /\ name \in attributes /\ name \in attrTodo /\ attrTodo' = attrTodo \ {name}
      /\ attributes' = attributes /\ upstream' = upstream /\ attrTodo' \subseteq attributes'
      /\ ~Describe!WriteOnlyVersionBase(name)' /\ Describe!WriteOnlyBase(name)'
      /\ Describe!Rewritten(name)'
  BY <1>1, VisitFrame DEF BlockInv, Describe!Rewritten
<1>3. base \in attributes /\ base \in Words /\ base \o Describe!Suffix = name
  BY <1>1, <1>2, BaseOfForm DEF BlockInv
<1>4. base # name
  <2> HIDE DEF base
  <2> QED
    BY <1>3, FormIsLonger
<1>5. text \in Text /\ rest \in Text
  <2> HIDE DEF base
  <2> QED
    BY <1>3, <1>4, NewDescriptions, WithoutIs DEF BlockInv, BlockTyped
<1>6. /\ BlockTyped' /\ description'[name] = text /\ description'[base] = rest
      /\ \A n \in attributes \ {name, base} : description'[n] = description[n]
  <2> HIDE DEF text, rest, base
  <2> QED
    BY <1>1, <1>2, <1>3, <1>4, <1>5 DEF BlockInv, BlockTyped
<1>7. SoFar(name)'
  BY <1>2, <1>6 DEF SoFar, Describe!CutSuffix, Describe!Suffix,
     Describe!WriteOnlyDescription
<1>8. SoFar(base)'
  <2>1. CASE Describe!Rewritten(base)
    <3>1. CASE base \in attrTodo
      <4>1. base \in attrTodo' /\ Describe!Rewritten(base)'
        BY <1>1, <1>2, <1>4, <2>1, <3>1, VisitFrame DEF BlockInv
      <4> HIDE DEF base
      <4> QED
        BY <4>1 DEF SoFar
    <3>2. CASE base \notin attrTodo
      <4>1. description'[base] = description[base]
        <5> HIDE DEF base
        <5> QED
          BY <1>3, <1>6, <2>1, <3>2, RewrittenStays DEF rest
      <4> HIDE DEF base
      <4> QED
        BY <1>1, <1>3, <1>4, <2>1, <4>1, OthersKeep
    <3> QED
      BY <3>1, <3>2
  <2>2. CASE ~Describe!Rewritten(base)
    <3>1. description[base] = upstream[base]
      <4> HIDE DEF base
      <4> QED
        BY <1>2, <1>3, <2>2 DEF BlockInv, DescribedSoFar, SoFar
    <3>2. /\ ~Describe!Rewritten(base)'
          /\ base \o Describe!Suffix \in attributes' \ attrTodo'
      <4> HIDE DEF base
      <4> QED
        BY <1>1, <1>2, <1>3, <2>2, VisitFrame DEF BlockInv
    <3>3. description'[base] = Describe!WithoutSentencesNaming(upstream'[base],
                                                               base \o Describe!Suffix)
      <4> HIDE DEF base
      <4> QED
        BY <1>2, <1>3, <1>6, <3>1 DEF rest
    <3> HIDE DEF base, rest
    <3> QED
      BY <3>2, <3>3 DEF SoFar, Describe!Rewritten, Describe!Suffix
  <2> QED
    BY <2>1, <2>2
<1>9. ASSUME NEW n \in attributes \ {name, base}
      PROVE  SoFar(n)'
  <2>1. n \o Describe!Suffix # name
    <3>1. n \in Words
      BY NamesAreWords DEF BlockInv, BlockTyped
    <3> HIDE DEF base
    <3> QED
      BY <1>3, <3>1, OneBase
  <2> HIDE DEF base
  <2> QED
    BY <1>1, <1>6, <2>1, OthersKeep
<1> QED
  BY <1>2, <1>6, <1>7, <1>8, <1>9 DEF BlockInv, DescribedSoFar

LEMMA SkipKeeps ==
    ASSUME BlockInv, NEW name, Describe!Skip(name)
    PROVE  BlockInv'
<1>1. /\ Describe!Visit(name) /\ description' = description
      /\ ~Describe!WriteOnlyVersionBase(name) /\ ~Describe!WriteOnlyBase(name)
  BY DEF Describe!Skip
<1>2. /\ name \in attributes /\ name \in attrTodo /\ attrTodo' = attrTodo \ {name}
      /\ attributes' = attributes /\ upstream' = upstream /\ attrTodo' \subseteq attributes'
      /\ ~Describe!Rewritten(name) /\ ~Describe!Rewritten(name)'
  BY <1>1, VisitFrame DEF BlockInv, Describe!Rewritten
<1>3. BlockTyped'
  BY <1>1, <1>2 DEF BlockInv, BlockTyped
<1>4. ASSUME NEW n \in attributes
      PROVE  n \o Describe!Suffix # name
  BY <1>1, <1>2, FormOfBase DEF BlockInv
<1>5. ASSUME NEW n \in attributes
      PROVE  SoFar(n)'
  <2>1. CASE n # name
    BY <1>1, <1>4, <2>1, OthersKeep
  <2>2. CASE n = name
    <3>1. name \o Describe!Suffix \in attributes' \ attrTodo'
              <=> name \o Describe!Suffix \in attributes \ attrTodo
      BY <1>2, <1>4
    <3>2. description[name] =
              IF name \o Describe!Suffix \in attributes \ attrTodo
              THEN Describe!WithoutSentencesNaming(upstream[name], name \o Describe!Suffix)
              ELSE upstream[name]
      BY <1>2 DEF BlockInv, DescribedSoFar, SoFar
    <3>3. description'[name] =
              IF name \o Describe!Suffix \in attributes' \ attrTodo'
              THEN Describe!WithoutSentencesNaming(upstream'[name], name \o Describe!Suffix)
              ELSE upstream'[name]
      BY <1>1, <1>2, <3>1, <3>2
    <3>4. ~Describe!WriteOnlyVersionBase(name)' /\ ~Describe!WriteOnlyBase(name)'
      BY <1>2 DEF Describe!Rewritten
    <3> QED
      BY <2>2, <3>3, <3>4, Zenon DEF SoFar, Describe!Rewritten, Describe!Suffix
  <2> QED
    BY <2>1, <2>2
<1> QED
  BY <1>2, <1>3, <1>5 DEF BlockInv, DescribedSoFar


LEMMA BlockStep == BlockInv /\ [Next]_vars => BlockInv'
<1> SUFFICES ASSUME BlockInv, [Next]_vars
             PROVE  BlockInv'
  OBVIOUS
<1>1. CASE UNCHANGED block
  <2>1. /\ attributes' = attributes /\ upstream' = upstream
        /\ description' = description /\ attrTodo' = attrTodo
    BY <1>1 DEF block
  <2>2. ASSUME NEW n
        PROVE  SoFar(n)' <=> SoFar(n)
    BY <2>1 DEF SoFar, Describe!Rewritten, Describe!WriteOnlyVersionBase,
       Describe!WriteOnlyBase, Describe!HasBase, Describe!CutSuffix, Describe!Suffix,
       Describe!VersionSuffix, Describe!WriteOnlyDescription,
       Describe!WriteOnlyVersionDescription
  <2> QED
    BY <2>1, <2>2 DEF BlockInv, BlockTyped, DescribedSoFar
<1>2. CASE NoBlock
  BY <1>2 DEF NoBlock, BlockInv, BlockTyped, DescribedSoFar
<1>3. CASE LoadBlock
  <2>1. BlockTyped'
    BY <1>3, NamesAreWords DEF LoadBlock, BlockTyped
  <2>2. \A n \in attributes' : n \in attrTodo' /\ description'[n] = upstream'[n]
    BY <1>3 DEF LoadBlock
  <2>3. ASSUME NEW n \in attributes'
        PROVE  SoFar(n)'
    <3>1. ~(n \o Describe!Suffix \in attributes' \ attrTodo')
      BY <2>2
    <3> QED
      BY <2>2, <3>1 DEF SoFar, Describe!Suffix
  <2> QED
    BY <2>1, <2>3 DEF BlockInv, DescribedSoFar
<1>4. CASE Describe!Next
  <2>1. PICK name \in Names : \/ Describe!DescribeVersion(name)
                              \/ Describe!DescribeWriteOnly(name)
                              \/ Describe!Skip(name)
    BY <1>4 DEF Describe!Next
  <2> QED
    BY <2>1, VersionKeeps, WriteOnlyKeeps, SkipKeeps
<1>5. UNCHANGED block \/ NoBlock \/ LoadBlock \/ Describe!Next
  BY DEF Next, vars, StartGenerate, RemoveTypes, DescribeStep, RunPipeline,
     WriteGeneratedList, WriteCRDs, Include, Emit, Fail, EditTables
<1> QED
  BY <1>1, <1>2, <1>3, <1>4, <1>5

LEMMA BlockAlways == Spec => []BlockInv
<1>1. Init => BlockInv
  BY DEF Init, BlockInv, BlockTyped, DescribedSoFar
<1> QED
  BY <1>1, BlockStep, PTL DEF Spec

(* What the generator makes of the descriptions of a block, whatever its   *)
(* attributes are and whatever upstream says of them, is the same in every *)
(* order the attributes are visited.                                       *)
THEOREM OrderIndependentAlways == Spec => []OrderIndependent
<1>1. BlockInv => OrderIndependent
  BY DEF BlockInv, BlockTyped, DescribedSoFar, SoFar, OrderIndependent,
     Describe!OrderIndependent, Describe!Rewritten
<1> QED
  BY <1>1, BlockAlways, PTL

(* At any time an attribute that keeps its own description has lost only   *)
(* what named its write-only form.                                         *)
THEOREM RestIsKeptAlways == Spec => []RestIsKept
<1>1. ASSUME BlockInv, NEW name \in attributes, ~Describe!Rewritten(name),
             NEW i \in DOMAIN upstream[name]
      PROVE  LET sentence == upstream[name][i]
                 form == name \o Describe!Suffix
             IN  \/ sentence \in Range(description[name])
                 \/ /\ Describe!Naming(sentence, form)
                    /\ \/ <<sentence[1]>> \in Range(description[name])
                       \/ Len(sentence) = 1
                       \/ form \in sentence[1].names
  <2> DEFINE sentence == upstream[name][i]
             form == name \o Describe!Suffix
  <2>1. upstream[name] \in Text /\ sentence \in Seq(Clause)
    <3>1. upstream[name] \in Text
      BY <1>1, NamesAreWords DEF BlockInv, BlockTyped
    <3> QED
      BY <1>1, <3>1, LenProperties, ElementOfSeq DEF Text
  <2>2. CASE description[name] = upstream[name]
    BY <2>2 DEF Range
  <2>3. CASE description[name] = Describe!WithoutSentencesNaming(upstream[name], form)
    <3> HIDE DEF form
    <3>1. \A x \in Range(Describe!Kept(sentence, form)) : x \in Range(description[name])
      BY <2>1, <2>3, WithoutIs
    <3> HIDE DEF sentence
    <3>2. ~Describe!Naming(sentence, form) => sentence \in Range(description[name])
      <4>1. sentence \in Range(<<sentence>>)
        BY DEF Range
      <4> QED
        BY <2>1, <3>1, <4>1, KeptIs
    <3> QED
      BY <2>1, <3>1, <3>2, KeptIs DEF sentence, form
  <2> QED
    BY <1>1, <2>2, <2>3 DEF BlockInv, DescribedSoFar, SoFar
<1>2. BlockInv => RestIsKept
  BY <1>1 DEF RestIsKept, Describe!RestIsKept, Describe!ToSet, Range
<1> QED
  BY <1>2, BlockAlways, PTL

(* In the end no attribute sends its reader to its own write-only form.    *)
THEOREM AdviceIsGoneAlways == Spec => []AdviceIsGone
<1>1. ASSUME BlockInv, attrTodo = {}, NEW name \in attributes,
             name \o Describe!Suffix \in attributes
      PROVE  \A x \in Range(description[name]) :
                 ~Describe!Naming(x, name \o Describe!Suffix)
  <2>1. CASE Describe!Rewritten(name)
    BY <1>1, <2>1, RewrittenStays
  <2>2. CASE ~Describe!Rewritten(name)
    <3>1. description[name] = Describe!WithoutSentencesNaming(upstream[name],
                                                              name \o Describe!Suffix)
      BY <1>1, <2>2 DEF BlockInv, DescribedSoFar, SoFar
    <3>2. upstream[name] \in Text
      BY <1>1, NamesAreWords DEF BlockInv, BlockTyped
    <3> QED
      BY <3>1, <3>2, WithoutIs
  <2> QED
    BY <2>1, <2>2
<1>2. BlockInv => AdviceIsGone
  BY <1>1 DEF AdviceIsGone, Describe!AdviceIsGone, Range
<1> QED
  BY <1>2, BlockAlways, PTL

=============================================================================
