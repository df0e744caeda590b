SPECIFICATION SpecFromFactory
CONSTANTS
    sceneA = sceneA
    level = level
    switch = switch
    tooLoud = tooLoud
    inverted = inverted
    show1 = show1
    None = None
    Scenes <- OneScene
    Pulled <- OlderFirmware
    Leaves <- BothLeaves
    Values <- ZeroTwo
    Rules <- TwoRules
    rule <- TheRules
    Shows <- OneShow
    Clamps <- Twos
    Held <- Zero
    MaxJournal = 3
    MaxWrites = 1
    MaxEntries = 2
CONSTRAINT SavesApart
CHECK_DEADLOCK FALSE
INVARIANTS JournalIsTruthful ShownIsCurrent HeardIsAccounted
