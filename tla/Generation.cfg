\* Four resources, one of them dropped from the tables and taken back.
SPECIFICATION Spec
CONSTANTS
    Configs <- MCConfigs
    Described = "unifi_wlan"
    Names <- MCNames
    Descriptions <- MCDescriptions
INVARIANTS
    TreeIsAPI
    CRDsAreListed
    OrderIndependent
    RestIsKept
    AdviceIsGone
