SPECIFICATION EngineSpec
CONSTANTS
    Patterns <- MCPatterns
    Core <- MCCore
    Contents <- MCContents
    Width <- MCWidth
    MaxMatch = 2
    MaxFound = 3
    TypeOf <- MCTypeOf
    Outputs <- MCOutputs
    Sensitive <- MCSensitive
    MaxItems = 2
INVARIANTS
    SelectedDisjoint
    SelectionMaximal
    HeadsMasked
    SpanCoversMatch
    ReadyMeansNoCandidate
    RoundTrip
    ReplacementsDistinct
