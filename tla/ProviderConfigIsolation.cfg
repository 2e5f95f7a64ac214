\* A namespaced managed resource, Secrets in two namespaces, a ProviderConfig of its namespace and a shared one of the same name.
SPECIFICATION Spec
CONSTANTS
    m1 = m1
    m2 = m2
    c1 = c1
    c2 = c2
    MRs = {m1}
    LegacyMRs = {}
    Namespaces = {"n1", "n2"}
    NamespaceOf <- OwnNamespaceOne
    Names = {"p"}
    Configs <- OneOfEach
    SecretNames = {"s"}
    KnownKeys <- MCKnownKeys
    Payloads = {c1}
    Document <- MCDocument
    MaxEdits = 2
    MaxFaults = 1
INVARIANTS
    SecretConfined
    UsedIsTracked
CHECK_DEADLOCK FALSE
