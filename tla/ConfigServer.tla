---------------------------- MODULE ConfigServer ----------------------------
(***************************************************************************)
(* The web configuration server as one process: the Device Config Model's *)
(* Load and Set translations (ConfigLoad) composed with the Pin-Mux        *)
(* Resolver (PinMux).  ConfigHelper.__init__ loads the description and     *)
(* then runs set_devices_pin; update_config_file dumps the document and    *)
(* then runs set_devices_pin again on the in-memory document.  The chip    *)
(* page (devconf.py, /wmdt/chip) renders self.pinmux as it stands.         *)
(*                                                                          *)
(* A POST is served while no set_devices_pin is in progress; the threads  *)
(* of the server and their races are ConfigModel's.  An exception out of   *)
(* __init__ (a Load IndexError or NameError, a resolver IndexError) means  *)
(* the server does not come up; one out of update_config_file fails only   *)
(* the request.                                                            *)
(***************************************************************************)
EXTENDS ConfigLoad

CONSTANT Gate   \* clock_config_data["kconfig"]: the enabled features

VARIABLES
    pinmux,  \* self.pinmux["pinmux"]
    pk,      \* set_devices_pin's position in config["dev"]
    phase,   \* "fill" while set_devices_pin runs, then "done" or "error"
    up       \* __init__ returned: the server serves requests

srvVars == <<pinmux, pk, phase, up>>
allVars == <<vars, srvVars>>

(* The fields of a description entry set_devices_pin reads: pin_cfg, the  *)
(* uart flow_ctrl, spi_cfg.pin_cs, the lcd pins in the order the gz035     *)
(* branch writes them (reset, dcx, led, te) and the eeprom wp pin.         *)
Field(it, f, dflt) == IF f \in DOMAIN it THEN it[f] ELSE dflt

PinDev(it) ==
    [name  |-> it.dev_name,
     pins  |-> Field(it, "pins", <<>>),
     flow  |-> Field(it, "flow", "none"),
     cs    |-> Field(it, "cs", 0),
     lcd   |-> IF it.dev_name = "gz035_spi" THEN <<it.reset, it.dcx, it.led, it.te>> ELSE <<>>,
     chans |-> <<>>, tb |-> <<>>, wp |-> Field(it, "wp", <<>>), i2s |-> <<>>]

Devices(doc) == [i \in 1..Len(doc) |-> PinDev(doc[i])]

PM == INSTANCE PinMux WITH Docs <- {}, Gates <- {}, devs <- Devices(config), kc <- Gate, k <- pk

(* The first lines of set_devices_pin: a fresh table, the loop at the     *)
(* first entry.                                                            *)
StartPins ==
    /\ pinmux' = PM!EmptyTable
    /\ pk' = 1
    /\ phase' = "fill"

(* Mutant of UpdateConfigFile: the dump without set_devices_pin. *)
UpdateConfigFileNoPins(ok) == UNCHANGED <<pinmux, pk, phase>>

(* update_config_file: reached only when set_<class>_config did not      *)
(* raise; after the dump it runs set_devices_pin.                         *)
UpdateConfigFile(ok) ==
    IF ok THEN StartPins ELSE UNCHANGED <<pinmux, pk, phase>>

ServerInit ==
    /\ Init
    /\ pinmux = PM!EmptyTable
    /\ pk = 1
    /\ phase = "fill"
    /\ up = FALSE

(* A POST to the running server: the handler's Set, then the resolver.   *)
Post(key, e) ==
    /\ up
    /\ phase # "fill"
    /\ Set(key, e)
    /\ UpdateConfigFile(last'.ok)
    /\ UNCHANGED up

(* The process is restarted (between requests): __init__ loads the file, *)
(* and runs set_devices_pin unless the Load raised.                       *)
Boot ==
    /\ phase # "fill"
    /\ Restart
    /\ up' = FALSE
    /\ IF LoadDoc(toml_file).err
       THEN phase' = "error" /\ UNCHANGED <<pinmux, pk>>
       ELSE StartPins

(* One iteration of set_devices_pin's loop. *)
Resolve == UNCHANGED <<vars, up>> /\ PM!ResolveItem

(* set_devices_pin returns: __init__ completes and the server is up. *)
Resolved == UNCHANGED vars /\ up' = TRUE /\ PM!Finish

ServerNext ==
    \/ Boot
    \/ Resolve
    \/ Resolved
    \/ \E p \in Edits : Post(p[1], p[2])

(* set_devices_pin is a loop without waits in the thread that called it: *)
(* once started, its steps keep being taken.  POSTs and restarts are the  *)
(* environment's and need not happen.                                      *)
ServerSpec == ServerInit /\ [][ServerNext]_allVars /\ WF_allVars(Resolve \/ Resolved)

----------------------------------------------------------------------------
(* The resolver raises on the entries of doc: an enabled device claims a *)
(* pin that has no slot in the 46-entry table.                             *)
ResolveRaises(doc) ==
    \E i \in 1..Len(doc) :
        LET d == PinDev(doc[i])
        IN  PM!Feature(d) \in Gate /\ \E c \in ToSet(PM!Claims(d)) : ~PM!InTable(c[1])

(* Restartability: while the server is up, the file it has written is one *)
(* __init__ can load and resolve, so a restart brings the server up again. *)
(* A Set that raises after writing part of an entry, and a later Set that  *)
(* dumps it, must not leave a file on which ConfigHelper() raises (spec 7: *)
(* loading falls back to defaults and never aborts).                        *)
ServerRestartable ==
    up => ~LoadDoc(toml_file).err /\ ~ResolveRaises(toml_file)

(* The chip page: whenever set_devices_pin has finished on the running     *)
(* server, the table the page renders is the pin view (spec 4.3) of the   *)
(* description file, also after a Set that raised and after a restart.     *)
PinPageShowsFile ==
    up /\ phase = "done" => pinmux = PM!SpecView(Devices(toml_file), Gate)

====
