CONSTANTS
    None = None
    Malformed = Malformed
    f1 = f1
    f2 = f2
    FindingLists <- MCFindingLists
    Calls <- MCCallSet
    Turns <- MCTurns
    MaxIterations = 3
    Costs = {1, 2}
SPECIFICATION SafetySpec
INVARIANTS
    WholeBudgetReturnsReview
