\* Generation-time strictness (spec 7).  Expected violated: gpio (and rcc,
\* seg_lcd, tftlcd) translate unknown values to defaults with dict.get.
CONSTANTS
    Chips = {"W800", "W806"}
    Malformed = Malformed
    NoChip = NoChip
    NoFile = NoFile
    MaxDevices = 2
    DevNames = {"uart0", "uart5", "timer0", "pmu", "gpio"}
    Prios = {0, 1}
    Descriptions <- MCDescriptions
    Files <- MCFilesChip
SPECIFICATION Spec
\* The compiler is a batch process: it stops after save_cfile or a fatal error.
CHECK_DEADLOCK FALSE
INVARIANT StrictGeneration
