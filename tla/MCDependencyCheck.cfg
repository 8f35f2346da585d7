CONSTANTS
    None = None
    Malformed = Malformed
    NoTag = NoTag
    Tags = {"rc", "dev", "wildcard", "range", "local", "epoch"}
    Packages = {"left", "right", "sampled"}
    Roots <- MCRoots
    Registry <- MCRegistry
SPECIFICATION Spec
INVARIANTS
    PlainPinsAreReported
    RightRegistry
    OutdatedIsWorthLess
