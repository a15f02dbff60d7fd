SPECIFICATION Spec
CONSTANTS
    MaxCalls = 8
    SkipLimit = 3
    FieldIds <- MCFieldIds
    ValuesOf <- MCValuesOf
    FieldTypes <- MCFieldTypes
    Collections <- MCCollections
    Maps <- MCMaps
INVARIANTS
    NestingMatches
    HeardIsTold
    WholeOrThrown
