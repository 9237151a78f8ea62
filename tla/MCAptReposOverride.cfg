SPECIFICATION AptReposSpec
CONSTANTS
    Paths <- TwoPaths
    Deb822 <- SourcesFormat
    MaxWrites = 2
    MaxReads = 1
INVARIANTS
    OverrideIsForThis
