\* ConfigLoad: Load, Set and restart round trips over rcc, uart0, eeprom0 and timer0.
CONSTANTS
    Docs <- DocsRoundTrip
    Edits <- EditsRoundTrip
    MaxSets = 4
SPECIFICATION Spec
INVARIANTS TypeOK ReloadAgrees
