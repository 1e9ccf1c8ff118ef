SPECIFICATION Spec
CONSTANTS
    HereApps = {"notes", "mail"}
    ThereApps = {"peer"}
    Sessions <- AllSessions
    Versions = {"VERSION_FOUR", "VERSION_FIVE", "VERSION_SIX"}
    NoDfs = {"nodfs"}
    Sizes = {0, 9}
    MaxRemoteDocUris = 3
    MaxSteps = 5
    Pictures = {"own", "secret", "doc", "nodfs", "lost"}
    Readable = {"own", "doc", "nodfs", "lost"}
    Writable = {"own"}
    NoRealPath = {"lost"}
    Persistable = TRUE
    ByteValues = 5
INVARIANTS
    PastedAsCopied
    ReaderMayOpen
    EncodeFits
    TypesAsCopied
CHECK_DEADLOCK FALSE
