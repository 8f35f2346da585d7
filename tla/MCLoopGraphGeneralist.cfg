CONSTANTS
    None = None
    Malformed = Malformed
    f1 = f1
    f2 = f2
    FindingLists <- MCFindingLists
    Calls <- GeneralistCalls
    Turns <- GeneralistTurns
    ToolNames <- TOOL_EXECUTORS
    MaxIterations = 3
    Costs = {1, 2}
SPECIFICATION Spec
INVARIANTS
    TypeOK
    OutcomeEndsRun
PROPERTIES
    ImplementsLoop
    ReviewEnds
