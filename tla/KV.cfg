SPECIFICATION Spec
CONSTANTS
    EntryPointLists <- MCEntryPointLists
    ServerLists <- MCServerLists
    Index <- MCIndex
    Missing = Missing
INVARIANTS
    RoundTrip
    KeysFollowNames
CHECK_DEADLOCK FALSE
