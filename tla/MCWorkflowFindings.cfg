CONSTANTS
    None = None
    PullRequests <- MCCodeOnly
    MaxIterations <- MCOneIteration
    NormalizedCategory <- MCNormalizedCategory
    Submissions <- MCFindingLists
    Costs = {1}
    MaxFindings = 2
SPECIFICATION Spec
INVARIANTS
    MergeMeetsReference
    CapKeepsMostSevere
