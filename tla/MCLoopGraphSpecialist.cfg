CONSTANTS
    None = None
    Malformed = Malformed
    f1 = f1
    f2 = f2
    FindingLists <- MCFindingLists
    Calls <- SpecialistCalls
    Turns <- SpecialistTurns
    ToolNames <- SpecialistTools
    MaxIterations = 6
    Costs = {1}
SPECIFICATION Spec
INVARIANTS
    RecursionLimitNeverFires
    OnlyOwnToolsRun
PROPERTIES
    ImplementsContract
