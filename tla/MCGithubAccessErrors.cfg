CONSTANTS
    None = None
    Requests = {"r1", "r2"}
    Scenarios <- MCScenarios
    MaxAttempts = 2
    Margin = 2
    JwtLife = 3
    TokenLife = 4
    Timeout = 1
    Waits = 2
    Reads = 1
    Backoffs = {0, 1}
    Resets = {1, 4}
SPECIFICATION SafetySpec
PROPERTIES
    RateLimitsAreTyped
