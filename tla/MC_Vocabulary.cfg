SPECIFICATION Spec
CONSTANTS
    drums = drums
    band = band
    stage = stage
    sheetTerm = sheetTerm
    kick = kick
    vocal = vocal
    misspelt = misspelt
    None = None
    Deleted = Deleted
    Malformed = Malformed
    SetKeys <- TheSets
    TermKeys <- OneTerm
    Kinds <- KnownKinds
    Words <- TheWords
    Releases <- TheReleases
    HandWritten <- TheHandWritten
    Offered <- OfferedEntries
    Proposals <- TheProposals
    Remembered <- OneRemembered
CONSTRAINT Apart
INVARIANTS ExpansionIsReachability DeletedStaysDeleted
PROPERTIES PutClosesNoCycle OnlyItsOwnEntry
