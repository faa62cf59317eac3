\* The configuration server on the POSTs it accepts or rejects for a TX
\* pin: start-up, POSTs on rcc, uart0, eeprom0, timer0 and the gz035
\* display, restarts, and set_devices_pin after every start and every dump.
CONSTANTS
    Docs <- ServerDocs
    Edits <- ServerEdits
    Gate <- ServerGate
    MaxSets = 4
SPECIFICATION ServerSpec
INVARIANTS ReloadAgrees PinPageShowsFile
