SPECIFICATION MCSpec
CONSTANTS
    Written <- MCWritten
    Environs <- MCEnvirons
    MaxMoves = 2
    Names <- MCNames
    domain <- MCDomain
    clean <- MCClean
    patterns <- MCPatterns
    Guesses <- MCGuesses
    ByHand <- MCByHand
    Commands = {c1, c2, c3}
    None = None
    Lost = Lost
    Late = c3
    MaxEdits = 1
    BaseRules <- MCBaseRules
    Principles <- MCPrinciples
    Shows <- MCShows
    conditions <- MCConditions
    Blank = Blank
CHECK_DEADLOCK FALSE
SYMMETRY Terminals
INVARIANTS AskedOnce SameNextTime ReportAccounts HintAgrees
