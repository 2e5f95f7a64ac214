------------------------------ MODULE Generation ------------------------------
(***************************************************************************)
(* `make generate` (apis/generate.go, cmd/generator/main.go): from the     *)
(* maintained tables (config/external_name.go, config/unifi/config.go) and *)
(* the upstream schema to the API types of both scopes, the CRDs and the   *)
(* list of what was generated.  The command may fail anywhere and leaves   *)
(* the tree as it is then; it is run again, on the same tables or on       *)
(* edited ones.                                                            *)
(***************************************************************************)
EXTENDS ReferenceTable, FiniteSets, SequencesExt

CONSTANTS
    Configs,       \* sets of resources the tables may hold
    Described,     \* the resource with write-only attributes
    Names,         \* their names (WriteOnly)
    Descriptions   \* their descriptions upstream (WriteOnly)

VARIABLES
    config,    \* the resources in the tables
    step,      \* "idle", "clean", "provider", "describe", "pipeline", "list", "crds"
    left,      \* what the step has left: resources, or a scope with each
    types,     \* generated API types
    list,      \* config/generated.lst
    crds,      \* package/crds
    fresh,     \* the last run finished, on the tables as they are
    attributes, upstream, description, attrTodo

(* A name has words, a description sentences of clauses.                   *)
Clauses == [text : STRING, names : SUBSET Seq(STRING)]

ASSUME BlockAssumption ==
    /\ Names \subseteq Seq(STRING) \ {<<>>}
    /\ Descriptions \subseteq Seq(Seq(Clauses))

Describe == INSTANCE WriteOnly WITH todo <- attrTodo

block == <<attributes, upstream, description, attrTodo>>
vars == <<config, step, left, types, list, crds, fresh, block>>

-----------------------------------------------------------------------------
(* The resources with an external name, each with the words of its name.   *)
ExternalNameConfigs ==
    [unifi_account |-> <<"account">>, unifi_ap_group |-> <<"ap", "group">>,
     unifi_bgp |-> <<"bgp">>, unifi_client |-> <<"client">>,
     unifi_client_qos_rate |-> <<"client", "qos", "rate">>, unifi_device |-> <<"device">>,
     unifi_dns_record |-> <<"dns", "record">>, unifi_dynamic_dns |-> <<"dynamic", "dns">>,
     unifi_firewall_group |-> <<"firewall", "group">>,
     unifi_firewall_policy |-> <<"firewall", "policy">>,
     unifi_firewall_rule |-> <<"firewall", "rule">>, unifi_firewall_zone |-> <<"firewall", "zone">>,
     unifi_network |-> <<"network">>, unifi_port_forward |-> <<"port", "forward">>,
     unifi_port_profile |-> <<"port", "profile">>,
     unifi_power_supervisor |-> <<"power", "supervisor">>,
     unifi_radius_profile |-> <<"radius", "profile">>, unifi_radius_user |-> <<"radius", "user">>,
     unifi_setting |-> <<"setting">>, unifi_site |-> <<"site">>,
     unifi_site_to_site_vpn |-> <<"site", "to", "site", "vpn">>,
     unifi_static_route |-> <<"static", "route">>, unifi_traffic_route |-> <<"traffic", "route">>,
     unifi_vpn_client |-> <<"vpn", "client">>, unifi_vpn_server |-> <<"vpn", "server">>,
     unifi_wan |-> <<"wan">>, unifi_wireguard_peer |-> <<"wireguard", "peer">>,
     unifi_wlan |-> <<"wlan">>]

Resources == DOMAIN ExternalNameConfigs

ASSUME ConfigsAssumption == \A c \in Configs : c \subseteq Resources

shortGroups ==
    [account |-> {"unifi_account"}, dns |-> {"unifi_dns_record"},
     device |-> {"unifi_device", "unifi_client", "unifi_client_qos_rate",
                 "unifi_power_supervisor"},
     firewall |-> {resFirewallGroup, "unifi_firewall_policy", "unifi_firewall_rule",
                   resFirewallZone},
     network |-> {resNetwork, "unifi_wan", "unifi_bgp"},
     port |-> {"unifi_port_forward", "unifi_port_profile"},
     radius |-> {"unifi_radius_profile", "unifi_radius_user"},
     route |-> {"unifi_static_route", "unifi_traffic_route"},
     setting |-> {"unifi_setting", "unifi_dynamic_dns"}, site |-> {"unifi_site"},
     vpn |-> {"unifi_site_to_site_vpn", resVPNClient, "unifi_vpn_server",
              "unifi_wireguard_peer"},
     wlan |-> {"unifi_wlan", "unifi_ap_group"}]

GroupOf(n) == CHOOSE g \in DOMAIN shortGroups : n \in shortGroups[g]

(* Mutated form: only the generic kind is pinned.                          *)
OverridesOfGeneric == [unifi_ap_group |-> <<"ap", "group">>]

kindOverrides ==
    [unifi_static_route |-> <<"static", "route">>,
     unifi_traffic_route |-> <<"traffic", "route">>,
     unifi_ap_group |-> <<"ap", "group">>]

(* The first word of a name that has several names its default group.      *)
DefaultKind(words) == IF Len(words) = 1 THEN words ELSE Tail(words)

KindOf(n) ==
    IF n \in DOMAIN kindOverrides THEN kindOverrides[n] ELSE DefaultKind(ExternalNameConfigs[n])

ReferencesOf(n) == IF n \in DOMAIN references THEN references[n] ELSE {}

Scopes == {"cluster", "namespaced"}

(* What the configured provider of a scope makes of a resource.            *)
Configure(s, n) ==
    [scope |-> s, group |-> GroupOf(n), kind |-> KindOf(n), resource |-> n,
     references |-> ReferencesOf(n)]

-----------------------------------------------------------------------------
NoBlock ==
    /\ attributes' = {} /\ upstream' = <<>> /\ description' = <<>> /\ attrTodo' = {}

(* The schema is embedded: each run starts from its own copy.              *)
LoadBlock ==
    /\ attributes' \in SUBSET Names
    /\ upstream' \in [attributes' -> Descriptions]
    /\ description' = upstream' /\ attrTodo' = attributes'

Init ==
    /\ config \in Configs
    /\ step = "idle" /\ left = {} /\ fresh = FALSE
    /\ types = {} /\ list = {} /\ crds = {}
    /\ attributes = {} /\ upstream = <<>> /\ description = <<>> /\ attrTodo = {}

(* Mutated form: the CRDs are left to be written over.                     *)
KeepCRDs == UNCHANGED crds

(* What goes first.                                                        *)
RemoveCRDs == crds' = {}

StartGenerate ==
    /\ step = "idle"
    /\ step' = "clean" /\ fresh' = FALSE
    /\ RemoveCRDs
    /\ UNCHANGED <<config, left, types, list, block>>

RemoveTypes ==
    /\ step = "clean"
    /\ step' = "provider" /\ left' = config
    /\ types' = {}
    /\ UNCHANGED <<config, list, crds, fresh, block>>

(* NewProvider comes to the resources in the order of a map, and applies   *)
(* the default options to each.                                            *)
Include(n) ==
    /\ step = "provider" /\ n \in left
    /\ left' = left \ {n}
    /\ IF n = Described THEN step' = "describe" /\ LoadBlock
                        ELSE UNCHANGED <<step, block>>
    /\ UNCHANGED <<config, types, list, crds, fresh>>

DescribeStep ==
    /\ step = "describe"
    /\ \/ Describe!Next /\ UNCHANGED step
       \/ attrTodo = {} /\ NoBlock /\ step' = "provider"
    /\ UNCHANGED <<config, left, types, list, crds, fresh>>

RunPipeline ==
    /\ step = "provider" /\ left = {}
    /\ step' = "pipeline" /\ left' = Scopes \X config
    /\ UNCHANGED <<config, types, list, crds, fresh, block>>

(* The files of a resource go by its scope, group and kind.                *)
SameFile(t, u) == t.scope = u.scope /\ t.group = u.group /\ t.kind = u.kind

(* The cluster's scope first; what is in the files already is lost.        *)
Emit(s, n) ==
    /\ step = "pipeline" /\ <<s, n>> \in left
    /\ s = "namespaced" => \A work \in left : work[1] = s
    /\ left' = left \ {<<s, n>>}
    /\ types' = {t \in types : ~SameFile(t, Configure(s, n))} \cup {Configure(s, n)}
    /\ UNCHANGED <<config, step, list, crds, fresh, block>>

(* The names of what is configured, or nothing when nothing is.            *)
WriteGeneratedList ==
    /\ step = "pipeline" /\ left = {} /\ config # {}
    /\ list' = config /\ step' = "crds"
    /\ UNCHANGED <<config, left, types, crds, fresh, block>>

(* A CRD for each type, and the methods of the types, which nothing here   *)
(* tells apart.                                                            *)
WriteCRDs ==
    /\ step = "crds"
    /\ crds' = types /\ step' = "idle" /\ fresh' = TRUE
    /\ UNCHANGED <<config, left, types, list, block>>

(* Any command may fail, and `make` stops; the CRDs of some scopes may be  *)
(* written by then.                                                        *)
Fail ==
    /\ step # "idle"
    /\ step' = "idle" /\ left' = {} /\ NoBlock
    /\ IF step = "crds" THEN \E s \in SUBSET Scopes : crds' = {t \in types : t.scope \in s}
                        ELSE UNCHANGED crds
    /\ UNCHANGED <<config, types, list, fresh>>

EditTables ==
    /\ step = "idle"
    /\ config' \in Configs \ {config}
    /\ fresh' = FALSE
    /\ UNCHANGED <<step, left, types, list, crds, block>>

Next ==
    \/ StartGenerate \/ RemoveTypes \/ DescribeStep \/ RunPipeline \/ WriteGeneratedList \/ WriteCRDs
    \/ \E n \in Resources : Include(n) \/ \E s \in Scopes : Emit(s, n)
    \/ Fail \/ EditTables

Spec == Init /\ [][Next]_vars

-----------------------------------------------------------------------------
(* A resource in a scope with the fields its generated resolver resolves.  *)
Wired(s, n) ==
    [Configure(s, n) EXCEPT !.references = {<<r.field, r.to>> : r \in ToSet(ResolverOf(n))}]

(* What the API of the tables is: each resource once in each scope.        *)
API == {Wired(s, n) : s \in Scopes, n \in config}

(* After a run that finished the tree is the API of the tables, whatever   *)
(* an earlier run left in it, where that failed and whatever it was run    *)
(* on, and no resource has lost its files to another.                      *)
TreeIsAPI == fresh => types = API /\ crds = API /\ list = config

(* The list never misses a resource that has a CRD, not even in the tree   *)
(* of a run that failed: the schema report that goes by the list compares  *)
(* whatever is published.                                                  *)
CRDsAreListed == \A c \in crds : c.resource \in list

(* The descriptions of the one block with write-only attributes.           *)
OrderIndependent == Describe!OrderIndependent
RestIsKept == Describe!RestIsKept
AdviceIsGone == Describe!AdviceIsGone

=============================================================================
