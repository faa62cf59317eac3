\* The compiler completes on valid input.  Expected violated: save_cfile
\* raises ValueError when no device is emitted.
CONSTANTS
    Chips = {"W800", "W806"}
    Malformed = Malformed
    NoChip = NoChip
    NoFile = NoFile
    MaxDevices = 2
    DevNames = {"uart0", "uart5", "timer0", "pmu", "gpio"}
    Prios = {0, 1}
    Descriptions <- MCDescriptions
    Files <- MCFilesChip
SPECIFICATION Spec
\* The compiler is a batch process: it stops after save_cfile or a fatal error.
CHECK_DEADLOCK FALSE
INVARIANT CompletesOnValidInput
