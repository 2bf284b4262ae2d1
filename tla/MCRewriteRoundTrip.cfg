SPECIFICATION EngineSpec
CONSTANTS
    Patterns <- MCPatterns
    Core <- MCCore
    Contents <- MCRewriteContents
    Width <- MCWidth
    MaxMatch = 2
    MaxFound = 3
    TypeOf <- MCTypeOf
    Outputs <- MCOutputs
    Sensitive <- MCSensitive
    MaxItems = 2
INVARIANT RewriteRoundTrip
