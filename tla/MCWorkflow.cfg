CONSTANTS
    None = None
    PullRequests <- MCPullRequests
    MaxIterations <- MCMaxIterations
    NormalizedCategory <- MCNormalizedCategory
    Submissions <- MCSubmissions
    Costs = {1, 2}
    MaxFindings = 2
SPECIFICATION Spec
INVARIANTS
    TypeOK
    UsageAccountsForBilling
    SurvivorsAreReported
    CleanReviewIsEarned
    NothingToReadCostsNothing
PROPERTIES
    SpecialistsKeepContract
    ReviewEnds
