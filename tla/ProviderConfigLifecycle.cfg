\* Two legacy managed resources share one ProviderConfig.
SPECIFICATION Spec
CONSTANTS
    m1 = m1
    m2 = m2
    c1 = c1
    c2 = c2
    MRs = {m1, m2}
    LegacyMRs = {m1, m2}
    Namespaces = {"n1"}
    NamespaceOf <- NoNamespaces
    Names = {"p"}
    Configs <- OneLegacyConfig
    SecretNames = {"s"}
    KnownKeys <- MCKnownKeys
    Payloads = {c1}
    Document <- MCDocument
    MaxEdits = 2
    MaxFaults = 1
INVARIANTS
    ListCoversUse
    ManagedIsCounted
PROPERTIES
    NoRemovalUnderUse
    KeepsPromise
CHECK_DEADLOCK FALSE
