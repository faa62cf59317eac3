\* The stepwise compiler over every description of at most two entries and
\* every kconfig file: every class generator and save_cfile, on every path.
CONSTANTS
    Chips = {"W800", "W806"}
    Malformed = Malformed
    NoChip = NoChip
    NoFile = NoFile
    MaxDevices = 2
    DevNames = {"uart0", "uart5", "timer0", "pmu", "gpio"}
    Prios = {0, 1}
    Descriptions <- MCDescriptions
    Files <- MCFilesAll
SPECIFICATION Spec
\* The compiler is a batch process: it stops after save_cfile or a fatal error.
CHECK_DEADLOCK FALSE
INVARIANT TypeOK
