-------------------------- MODULE MCProviderConfig --------------------------
(***************************************************************************)
(* Values for model checking ProviderConfigSystem.  Credentials documents  *)
(* are c1 (usable) and c2 (an empty and an unknown key).                   *)
(***************************************************************************)
EXTENDS ProviderConfigSystem, TLC

CONSTANTS m1, m2, c1, c2

MCKnownKeys == {"api_key", "username"}
MCDocument ==
    (c1 :> ("api_key" :> "k")) @@ (c2 :> ("username" :> "" @@ "note" :> "x"))

(* No namespaced resource, or m1 in n1.                                    *)
NoNamespaces == <<>>
OwnNamespaceOne == m1 :> "n1"

LegacyConfigs(names) == {[kind |-> LegacyKind, ns |-> NoNamespace, name |-> n] : n \in names}
LocalConfigs(nss) == {[kind |-> LocalKind, ns |-> n, name |-> "p"] : n \in nss}
SharedConfig == [kind |-> ClusterKind, ns |-> NoNamespace, name |-> "p"]

OneLegacyConfig == LegacyConfigs({"p"})
OneOfEach == LocalConfigs({"n1"}) \cup {SharedConfig}

=============================================================================
