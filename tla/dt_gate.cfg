\* Feature-gate exclusion (spec 8), for a W800 file that does not enable
\* PMU and for no kconfig file (spec 4.1: every feature disabled).
\* Expected violated: generate_pmu has no kconfig test, and without a file
\* wmdt.py enables every feature.
CONSTANTS
    Chips = {"W800", "W806"}
    Malformed = Malformed
    NoChip = NoChip
    NoFile = NoFile
    MaxDevices = 2
    DevNames = {"uart0", "uart5", "timer0", "pmu", "gpio"}
    Prios = {0, 1}
    Descriptions <- MCDescriptions
    Files <- MCFilesGate
SPECIFICATION Spec
\* The compiler is a batch process: it stops after save_cfile or a fatal error.
CHECK_DEADLOCK FALSE
INVARIANT FeatureGateExclusion
