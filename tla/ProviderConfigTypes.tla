------------------------- MODULE ProviderConfigTypes -------------------------
(***************************************************************************)
(* The data the provider-config subsystem works on: which object a managed *)
(* resource's providerConfigRef denotes, where its credentials live, and   *)
(* what part of a credentials document reaches Terraform.                  *)
(*                                                                         *)
(* Two API groups are served side by side.  A cluster-scoped ("legacy")    *)
(* managed resource refers to a cluster-scoped ProviderConfig by name; a   *)
(* namespaced one refers by kind and name either to a ProviderConfig of    *)
(* its own namespace or to a ClusterProviderConfig.                        *)
(***************************************************************************)
EXTENDS Functions

CONSTANTS
    MRs,         \* managed resources (identities: one UID each)
    LegacyMRs,   \* the cluster-scoped ones among them
    Namespaces,  \* Kubernetes namespaces
    NamespaceOf, \* the namespace of each managed resource that has one
    Names,       \* names a ProviderConfig may have
    Configs,     \* the ProviderConfig objects that may exist
    SecretNames, \* names a credentials Secret may have
    KnownKeys,   \* the credential keys unifi.go recognises
    Payloads,    \* credentials documents that parse as a JSON string map
    Document     \* the map each of them parses to

NoNamespace == "(cluster)"      \* the namespace of a cluster-scoped object
NoRef       == [kind |-> "", name |-> ""]
NoSecretRef == [ns |-> "", name |-> ""]     \* spec.credentials without a secretRef
Missing     == "(missing)"      \* no such Secret or key
Malformed   == "(malformed)"    \* not a JSON object of strings
Contents    == Payloads \cup {Missing, Malformed}

LegacyKind  == "LegacyProviderConfig"   \* ProviderConfig of unifi.crossplane.io
ClusterKind == "ClusterProviderConfig"  \* of unifi.m.crossplane.io
LocalKind   == "ProviderConfig"         \* of unifi.m.crossplane.io, namespaced
OtherKind   == "(other kind)"           \* any kind that is not a provider config

(* What spec.providerConfigRef may hold; a legacy reference has only a     *)
(* name, so its kind is LegacyKind.                                        *)
Refs == [kind : {LegacyKind, ClusterKind, LocalKind, OtherKind}, name : Names]
            \cup {NoRef}

RefsOf(m) ==
    {r \in Refs : r = NoRef \/ (r.kind = LegacyKind <=> m \in LegacyMRs)}

AllConfigs ==
    [kind : {LegacyKind, ClusterKind}, ns : {NoNamespace}, name : Names]
        \cup [kind : {LocalKind}, ns : Namespaces, name : Names]

Secrets == [ns : Namespaces, name : SecretNames]
Locations == Secrets \cup {NoSecretRef}

(* The object a reference denotes for managed resource m.  The namespace   *)
(* passed to Get is ignored for a cluster-scoped kind.                     *)
ConfigOf(m, ref) ==
    IF m \in LegacyMRs
    THEN [kind |-> LegacyKind, ns |-> NoNamespace, name |-> ref.name]
    ELSE [kind |-> ref.kind,
          ns   |-> IF ref.kind = LocalKind THEN NamespaceOf[m] ELSE NoNamespace,
          name |-> ref.name]

(* Mutated form: the secretRef of a namespaced ProviderConfig is taken as  *)
(* written.                                                                *)
SecretAsWritten(m, c, loc) == loc

(* The Secret the credentials are read from once m has resolved c: for a   *)
(* namespaced ProviderConfig always one of m's own namespace, whatever the *)
(* secretRef says; a spec without a secretRef is left as it is.            *)
SecretOf(m, c, loc) ==
    IF c.kind = LocalKind /\ loc # NoSecretRef
    THEN [loc EXCEPT !.ns = NamespaceOf[m]]
    ELSE loc

(* The Terraform configuration built from a credentials document: the      *)
(* recognised keys that are present and not empty.                         *)
Forwarded(doc) == Restrict(doc, {k \in DOMAIN doc \cap KnownKeys : doc[k] # ""})

ASSUME ScopeAssumption ==
    /\ LegacyMRs \subseteq MRs
    /\ NamespaceOf \in [MRs \ LegacyMRs -> Namespaces]
    /\ NoNamespace \notin Namespaces
    /\ "" \notin Namespaces
    /\ {Missing, Malformed} \cap Payloads = {}

ASSUME ConfigsAssumption == Configs \subseteq AllConfigs

=============================================================================
