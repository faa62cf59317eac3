# TLA+ models of the WM IoT SDK device-table tools

These modules model the device-table tool chain in `src/tools`:

- `wm/wmdt.py` is the **Device Table Compiler**. It turns a TOML device description and a kconfig file into `wm_dt_hw.c`, `wm_dt_hw.h` and `wm_dt_dev_name.h`.
- `devconf/config_helper.py` and `devconf/devconf.py` are the **Device Config Model** and its web front end. This is a waitress server with eight threads that edits the same description.

The checks are invariants over small instances, run with TLC.

## The system's parts and how they interact

| Part | Source | What it does |
|---|---|---|
| Feature Gate | `wmdt.py` `check_and_load_kconfig` and `__init__`; `config_helper.py` `ConfigHelper.__init__` (kconfig block) | Turns a kconfig file into a set of enabled features and a chip name. There are **two** parsers, with different key tables and different no-file defaults. |
| Device Table Compiler | `wmdt.py` `generate_file`, 30 `generate_<class>` methods, `update_dt_*`, `save_cfile` | Visits the description once per class, in a fixed class order. Each class is behind its gate, and each entry is emitted, skipped, fatal (`sys.exit`) or crashes. Ends with the three files. |
| Device Config Model | `config_helper.py` `get_*_config` / `set_*_config`, `update_config_file`; `devconf.py` `wmdt_index` | Holds one record dict per device. A POST handler writes the form into that dict and then calls `set_*_config`, which edits the TOML document and dumps it to the file. |
| Pin-Mux Resolver | `config_helper.py` `set_devices_pin`, `get_devices_pin`; `devconf.py` `wmdt_chip` | Rebuilds the 46-entry pin table after every Set. A GET serves it. |

The two tools share the description file. The web tool writes it, and the compiler reads it at build time.

## Modules

- **`FeatureGate`**
  - A kconfig file is a sequence of abstract lines: `EnableLine(key)`, `ChipLine(chip)` and `OtherLine`.
  - `WmdtGate` and `HelperGate` are folds of the two parsers' `if line == ...` chains over that sequence. Each returns `[features, chip]`.
  - A file is either such a sequence or `NoFile`.
- **`DeviceClasses`**
  - Each `generate_<class>` method becomes a record `Cls(base, match, needAll, needAny, enum, ops)`:
    - `needAll` / `needAny` are its kconfig test;
    - `match` is how it recognises its entries (a prefix with digits, `startswith`, or a fixed name list);
    - `enum` is how strictly it translates enumerated fields;
    - `ops` is the ops symbol it writes.
  - `Gens` is the call order of `generate_file`. `seg_lcd` calls `gdc0689`, and `i2c` calls `eeprom`, so those come right after them.
  - `Outcome` is what one entry does: `emit`, `skip`, `fatal` or `crash`.
  - A description entry is `[name, level, prio, ok]`. `ok` says whether its enumerated fields are translatable.
- **`DeviceTable`**: the compiler, one step per `generate_<class>` call (`GenerateClass`), then `save_cfile`.
  - State: `tbl` is `self.wm_dt_hw_table`, `gate` is `self.kconfig` / `self.chip_type`, `g` is the class index, and `phase` is gen / written / failed.
- **`ConfigModel`**: the web server.
  - `Threads` are waitress threads, each with a `pc`.
  - The shared state is:
    - `rec`: `uart0_config_data`;
    - `trec`: `timer0_config_data`;
    - `doc`: the tomlkit document's uart0 item;
    - `file`: the file on disk;
    - `pinmux`: `self.pinmux`.
  - The Uart0 POST is split at every point where another thread can run:
    - `StartUart`: `get_uart_config`;
    - `UFormBaud` and `UFormPintx`: the form writes into the shared dict;
    - `USetBaud`, `USetPin` and `USetFun`/`USetFunFail`: `set_uart_config` writing baudrate, pin, then function, or raising ValueError;
    - `Dump`: `update_config_file`;
    - `PinReset` and `PinFill`: `set_devices_pin`.
  - The Timer0 POST is `StartTimer`, `TForm` and `TSet`, followed by the same dump and pin-table steps.
  - `ReadPins` is `GET /wmdt/chip`.
  - `posted`, `before` and `failed` are history variables used by the properties.
- **`PinMux`**: `set_devices_pin`, one loop iteration per step.
  - State: `devs` is `self.config["dev"]`, `kc` is the kconfig gate, `pinmux` is the table, `k` is the loop position, and `phase` is fill / done / error.
  - `Claims(d)` is the `<<pin, role>>` writes of every class branch, in code order. `Feature(d)` is the branch's kconfig guard.
  - A pin is a Python list index: -46..-1 wraps around, and anything else raises IndexError with the table half filled.
  - `SpecView` is the pin view of spec 4.3, which the resolver's table is compared with.
- **`ConfigLoad`**: the Load loop of `ConfigHelper.__init__` and the `set_<class>_config` translations, for rcc, uart0..5, timer0..5, the four external flashes, sdmmc, gz035_spi, eeprom0 and psram.
  - A record is a Python dict, modelled as a function with `@@`.
  - `LoadItem` selects the record by name. An unlisted `uart6`, `timer6` or `flash_mx25l` reuses the previous record, or raises NameError. A missing `pin_cfg` entry raises IndexError.
  - `hex()` and `int(s, 16)` are modelled over character sequences.
  - `Set(k, e)` is a POST: the form (`FormFill` gives the handler's defaults for missing fields), the translation (which keeps the writes made before a ValueError), and the dump if nothing raised.
  - `Restart` reloads the file.
- **`ConfigServer`**: the server as one process, composing `ConfigLoad` with `PinMux` (`PM == INSTANCE PinMux WITH devs <- Devices(config), ...`).
  - `Post` is a `Set`, then `update_config_file`'s `set_devices_pin` if the Set did not raise.
  - `Boot` is a restart: `__init__` loads the file and runs `set_devices_pin`. The code runs `set_devices_pin` only when a kconfig file is given (`config_helper.py:946`). The model always has one; it is the constant `Gate`.
  - `Resolve` and `Resolved` are the resolver's steps. The server is `up` once `__init__` has returned.
  - An exception in `__init__` leaves the server down. An exception after a dump fails only that request.
- **`MC_DeviceTable`**, **`MC_ConfigModel`**, **`MC_PinMux`**, **`MC_ConfigLoad`** and **`MC_ConfigServer`** hold the model-checking instances.

## Runs

| Run | Expect | Shows |
|---|---|---|
| `dt_compile` | pass | `TypeOK`: every class generator and `save_cfile`, on every description of up to two entries and every kconfig file, build rows of the table's types. |
| `dt_order` | violation | `InitOrder`: the master table is written in class order, not in (init level, priority) order. The sort at `wmdt.py:139` is commented out. |
| `dt_gate` | violation | `FeatureGateExclusion`: `generate_pmu` has no kconfig test, so pmu is emitted on a build without PMU; and with no kconfig file the compiler enables 28 features, where the spec says none. |
| `dt_completes` | violation | `CompletesOnValidInput`: an empty table makes `max()` raise in `save_cfile`; and without a chip line, `uart5` reads an unassigned `chip_type`. |
| `dt_lenient` | violation | `StrictGeneration`: gpio (and rcc, seg_lcd, tftlcd) write defaults for untranslatable values. |
| `cm_agree` | pass | `QuiescentAgreement`: when no request is in flight and no Set failed, file, document, record, TX function and pin table agree, under every interleaving of two threads and five requests. |
| `cm_torn` | violation | `NoTornRecord`: two Uart0 POSTs leave a record mixing both forms. |
| `cm_failed_set` | violation | `FailedSetLeavesModel`: a Set rejected for its TX pin has already changed the document. |
| `cm_reader` | violation | `ReaderSeesClaims`: a GET during `set_devices_pin` is served an empty pin table. |
| `cs_session` | pass | The server as one process (`ConfigServer`): start-up, up to four POSTs over rcc, uart0, eeprom0, timer0 and a gz035 display, restarts, and `set_devices_pin` after each. `ReloadAgrees`: while no Set has failed, a reload shows what the server showed. `PinPageShowsFile`: once `set_devices_pin` has finished, the chip page is the pin view of the file. |
| `cs_restart` | violation | `ServerRestartable`: a uart0 POST with an rts pin outside the table writes `flow_ctrl` and raises; the rejected pin stays in the shared form record, a second uart0 POST fails on it the same way, and a timer0 POST dumps the item. The file then has a flow-control line without its pin, and `ConfigHelper()` raises IndexError on a restart (`devconf.py:27`). |
| `cl_reload` | violation | `ReloadAgrees` (spec 8, round trip), on three setters that do not write back what they accept: the rcc form forces a system-level rcc to app (`config_helper.py:1443`); the gz035 TE pin cannot be cleared (`:1999`); uart3's cts moved to its fun4 pin is not written (`:1570`). |

Each property of a passing run has a mutant in `PROJECT.json`. The mutant is a plausible bug in the code it models, and TLC finds it:

- `RowPrioShifted` (the priority written one below `init_priority`) breaks `TypeOK` on `dt_compile`;
- `UFormPintxSwapped` (the baud field copied into `pintx`) breaks `TypeOK` on `cm_agree`;
- `USetFunStale` (`set_uart_config` leaves the TX function as it was after writing a new pin) breaks `QuiescentAgreement`;
- `PyIntDecimal` (eeprom addresses read in base 10) breaks `ReloadAgrees` on `cs_session`;
- `UpdateConfigFileNoPins` (the dump without `set_devices_pin`) breaks `PinPageShowsFile`.

### Further disagreements, reproduced by configs kept beside the runs

These configs are in the directory but not among the runs in `PROJECT.json`. `PROJECT.json` lists each disagreement as a hazard or a finding.

- `dt_pmu_gate.cfg` and `dt_nofile_gate.cfg` each reproduce one half of `dt_gate`; `dt_empty_table.cfg` and `dt_missing_chip.cfg` each reproduce one half of `dt_completes`.
- `pm_view.cfg` passes: `MC_PinMux`, where `set_devices_pin` alone gives the pin view of spec 4.3 on descriptions the table fits.
- `pm_resolve.cfg` violates `ResolvesToView` in two ways. A gz035 with `pin_lcd_te = -1` claims pin 45 (`config_helper.py:1146`). A psram pin of 46 or 47, which `set_psram_config` offers, raises IndexError (`:1244`).
- `cl_roundtrip.cfg` passes: `TypeOK` and `ReloadAgrees` over the Load/Set/restart round trips of `MC_ConfigLoad` without the resolver.
- `cl_partial.cfg` violates `PersistedOnlyAccepted`. A uart Set rejected for its TX pin is dumped into the file by the next device's Set (`:1253`).

## Bounds

- **Compiler runs:** the description names are `uart0`, `uart5`, `timer0`, `pmu` and `gpio`. These cover:
  - the digit-suffix classes;
  - the uart5 chip rule;
  - an ungated class;
  - a lenient class.
- **Descriptions:** up to two entries with distinct names, levels system / app / an invalid one, priorities 0..1, and `ok` both ways. Two entries are enough for an ordering violation and for class-order effects.
- **kconfig files:** W800 with uart and timer; W806 with gpio, PMU and uart; a file with a malformed chip line; and no file.
- **Config-model runs:** two threads (symmetric), one or two baud rates, and TX pins from the table (2, 5) and outside it (7).
  - `MaxRequests` bounds the total number of requests, including GETs.
  - With 5 requests, both POST kinds, a failed Set and a GET can all overlap.
  - The pass run reaches about 1.6 million distinct states.
- **`cs_session`:** one description with rcc, uart0, eeprom0, timer0 and gz035_spi, with uart0 using rts flow control. There are up to four Sets (`MaxSets = 4`). The edits add and drop flow pins, write eeprom addresses as `0X51`, as `5a` with no prefix, and as a bare `0x`, give a TX pin outside the table, submit the unchanged rcc form, and set the gz035 led pin. The gate enables uart, i2c, gz035 and psram, so some devices resolve and timer0 is gated off. Four Sets are enough for a failed Set, a later Set that dumps it, and a restart on the result. The run reaches about 40,000 distinct states in about 15 seconds.
  - The only TX pin outside the table is 7, and every flow-control pin the session posts is in the rts/cts tables. An rts pin outside the table is the `cs_restart` case, which breaks `ServerRestartable`. So `cs_session` checks the server on the POSTs it handles without that crash.
  - The rcc entry is already app/0 and the TE pin stays at 29. The round-trip failures on those fields are `cl_reload`'s.
- **`cs_restart`:** the same description and gate, the session's edits plus a uart0 POST of rts flow with rts pin 7, and three Sets.
- **`cl_reload`:** three one-entry descriptions (a system-level rcc, a gz035 with TE pin 29, a uart3 with rts_cts flow and four pins), each with the one POST that shows its disagreement.
- **Clocks:** the modelled rcc clocks divide 480, so Load's float division `480/clock` is exact.

## Fairness

- The compiler is a batch process that ends after `save_cfile` or a fatal exit. `ConfigModel`'s server waits for requests that may never come, and `MaxRequests` bounds them. Their runs check safety only and set `CHECK_DEADLOCK FALSE`.
- `ServerSpec` states weak fairness on `Resolve \/ Resolved`. The reason is that `set_devices_pin` is a loop without waits in the thread that called it (`__init__` or `update_config_file`): once started, it keeps taking steps. POSTs and restarts belong to the environment and get no fairness. No run checks a liveness property yet. On the descriptions the server runs use, no resolution can raise, so whether every resolution finishes would hold trivially. The resolutions that do raise (psram pins 46 and 47) are `pm_resolve.cfg`'s.

## Not modelled yet

- **Device Config Model:** the setters of the remaining classes (i2c, spi, sdmmc, adc, pwm, touch, seg_lcd, rtc, pmu and others). Only the uart, rcc, flash, eeprom, timer, gz035 and psram Load and Set branches are modelled. Floating-point rounding of rcc clocks is not modelled (see above).
- **Pin-Mux Resolver:** the i2s, touch and adc claim rows are modelled but not exercised by `cs_session`.
- **Compiler:**
  - the text of each emitted field;
  - the three output files as separate writes, with a crash between them.
- **The document write:** the document is dumped as one atomic step, so two concurrent `tomlkit.dump` calls are not interleaved. `ConfigServer` serves POSTs one at a time; their races are `ConfigModel`'s.
- **Other tools:** `wm.py`, `autoconf.py`, flashing, serial and image tools, `autobuild` and the docs build. These are I/O and format conversion with no shared state. `PROJECT.json` lists each with its reason.

## Plan for later work

1. `save_cfile` as three writes, with a crash in between.
2. `tomlkit.dump` as a sequence of writes that two threads can interleave.
3. A composition of the config model's persisted file with the compiler, checking that every Set the tool accepts compiles. This also checks the gating disagreements between the two parsers.
4. The setters of the remaining device classes in `ConfigLoad`.
