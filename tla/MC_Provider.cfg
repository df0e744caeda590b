SPECIFICATION ProviderSpec
CONSTANTS
    Written <- MCWritten
    Environs <- MCEnvirons
    None = None
    MaxMoves = 2
INVARIANTS UsableKeyAuthenticates
