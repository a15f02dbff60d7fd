SPECIFICATION Spec
CONSTANTS
    Spans = {1, 2}
    TagLists <- MCTagLists
    LogSizes = {1}
    MaxLogs = 1
    Uris <- MCUris
    Inis <- MCInis
INVARIANTS
    ExternalAsListed
    TagsAsGiven
    StuckOnlyAfterThrow
CHECK_DEADLOCK FALSE
