CONSTANTS
    None = None
    Agents = {"first", "second"}
    Turn <- MCTurn
SPECIFICATION Spec
INVARIANTS
    TypeOK
    AnswersAreAboutTheFile
    NothingLeftBehind
PROPERTIES
    TurnsEnd
