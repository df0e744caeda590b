CONSTANTS
    None = None  Scalar = Scalar  Unreadable = Unreadable  Torn = Torn
    No = No  Title = Title  Perf = Perf  Tech = Tech
    Words <- mcWords  folded <- mcFolded  Spelled <- mcSpelled  Patterns <- mcPatterns  Lowered <- mcLowered
    KNOWN_ACTIONS <- mcActions  identified <- mcIdentified  respelled <- mcRespelled  named <- mcNamed
    Workbooks = {"one", "two", "three"}  sheetOf <- mcSheetOf  Proposals <- mcProposals  Grids <- mcGrids
    Taught <- mcTaught  Initial <- mcInitial  Elsewhere <- mcElsewhere
    Scenes <- mcScenes  Documents <- mcDocuments
    MaxMoves = 1
SPECIFICATION Spec
CHECK_DEADLOCK FALSE
INVARIANTS TaughtIsImported SavedLoads
PROPERTIES NothingLost TableIsEmitted FixKeepsMeaning
