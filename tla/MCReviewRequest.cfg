CONSTANTS
    None = None
    Requests = {"r1", "r2"}
    Engines = {"loop", "workflow"}
    MaxIterations <- MCMaxIterations
    Costs = {1}
    MaxPushes = 2
SPECIFICATION Spec
INVARIANTS
    TypeOK
    ReadsOneCommit
    CostIsTold
PROPERTIES
    RequestsKeepContract
    AnsweredDespiteOthers
