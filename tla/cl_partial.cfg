\* ConfigLoad: a rejected uart Set is dumped by the next device's Set.
CONSTANTS
    Docs <- DocsPartial
    Edits <- EditsPartial
    MaxSets = 2
SPECIFICATION Spec
INVARIANT PersistedOnlyAccepted
