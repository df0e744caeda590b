SPECIFICATION MCSpec
CONSTANTS
    Addresses <- SixAddresses
    Requests <- Lists
    Batches <- Sizes
    Rounds = 3
    Names <- TheNames
    Hidden <- HiddenNames
    CtlRoot = "$ctl"
    Shapes <- TheShapes
    Oversized <- TooLarge
    Families <- OneFamily
    watched <- TheKeys
    Values <- ZeroOne
    MaxRounds = 3
    Switches <- TwoState
    highest = 10
    lowest <- Silence
    Settings <- Asked
    initially <- AtFirst
    Serials <- TwoDesks
    Pins <- OnePin
    Addressed <- Three
    None = None
    MaxCommands = 2
    MaxTouches = 1
CHECK_DEADLOCK FALSE
INVARIANTS Accounted FreshPort ChangesAddUp SilenceIsComplete PinHolds
PROPERTIES FileIsOfTheDesk ZeroMeansHeld
