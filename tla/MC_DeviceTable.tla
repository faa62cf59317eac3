---------------------------- MODULE MC_DeviceTable ----------------------------
(***************************************************************************)
(* Model-checking instances of the Device Table Compiler.  A description  *)
(* is a sequence of at most MaxDevices entries with distinct names drawn  *)
(* from a small set that covers an indexed class (uart, timer), the uart5 *)
(* chip rule, an ungated class (pmu) and a lenient one (gpio).            *)
(***************************************************************************)
EXTENDS DeviceTable

CONSTANTS MaxDevices, DevNames, Prios

Entries == [name : DevNames, level : {"system", "app", "bogus"}, prio : Prios,
            ok : BOOLEAN]

DistinctNames(s) == \A i, j \in 1..Len(s) : i # j => s[i].name # s[j].name

MCDescriptions == {s \in BoundedSeq(Entries, MaxDevices) : DistinctNames(s)}

(* kconfig files: a W800 build with uart and timer; a file without a      *)
(* CONFIG_CHIP_NAME line; a W806 build with gpio and PMU enabled.         *)
UartTimerW800 == <<OtherLine, ChipLine("W800"),
                   EnableLine("DRIVER_UART_ENABLED=y"),
                   EnableLine("DRIVER_TIMER_ENABLED=y")>>
UartNoChip    == <<EnableLine("DRIVER_UART_ENABLED=y"), ChipLine(Malformed)>>
GpioPmuW806   == <<ChipLine("W806"), EnableLine("DRIVER_GPIO_ENABLED=y"),
                   EnableLine("DRIVER_PMU_ENABLED=y"),
                   EnableLine("DRIVER_UART_ENABLED=y")>>

MCFilesAll      == {UartTimerW800, UartNoChip, GpioPmuW806, NoFile}
MCFilesChip     == {UartTimerW800, GpioPmuW806}
MCFilesNoFile   == {NoFile}
MCFilesNoChip   == {UartNoChip}
MCFilesW800     == {UartTimerW800}

(* The two gate disagreements together: a W800 file without PMU, and no  *)
(* file.  The two completion failures together: the well-formed files     *)
(* (an empty table) and the file without a chip line (uart5).             *)
MCFilesGate      == {UartTimerW800, NoFile}
MCFilesCompletes == {UartTimerW800, GpioPmuW806, UartNoChip}

====
