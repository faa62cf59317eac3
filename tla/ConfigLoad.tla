----------------------------- MODULE ConfigLoad -----------------------------
(***************************************************************************)
(* The Device Config Model's Load and Set translations                      *)
(* (tools/devconf/config_helper.py).  ConfigHelper.__init__ walks           *)
(* config["dev"] and, per entry, selects a config_data dict by dev_name and *)
(* runs the class's normaliser on it; set_<class>_config writes a record    *)
(* back into the entry, and update_config_file dumps the whole document.    *)
(*                                                                          *)
(* A record (config_data) is a Python dict: a function from key strings to  *)
(* values.  An entry of the description is a record of the fields the two   *)
(* translations touch: dev_name, init level and priority, and the class's   *)
(* fields; pin function codes ("fun"), which Set derives and Load ignores,  *)
(* are left out, but the table lookups that derive them, and that raise     *)
(* ValueError, are kept.  Classes: rcc, uart0..uart5, timer0..timer5, the   *)
(* four external flashes, sdmmc, gz035_spi, eeprom0 and psram.              *)
(***************************************************************************)
EXTENDS Integers, Sequences, SequencesExt

EmptyDict == [k \in {} |-> 0]

UartKeys  == {"uart0", "uart1", "uart2", "uart3", "uart4", "uart5"}
TimerKeys == {"timer0", "timer1", "timer2", "timer3", "timer4", "timer5"}
FlashKeys == {"flash_w25q", "flash_gd25q", "flash_xt25f", "flash_th25q"}
OneKeys   == {"rcc", "sdmmc", "gz035_spi", "eeprom0", "psram"}
RecKeys   == UartKeys \cup TimerKeys \cup FlashKeys \cup OneKeys

(* The names of the descriptions the startswith("uart"), ("timer") and   *)
(* ("flash_") tests of the Load loop accept: the record names and a       *)
(* seventh uart or timer, a flash type the tool does not list.            *)
UartLike  == {"uart0", "uart1", "uart2", "uart3", "uart4", "uart5", "uart6"}
TimerLike == {"timer0", "timer1", "timer2", "timer3", "timer4", "timer5", "timer6"}
FlashLike == {"flash_w25q", "flash_gd25q", "flash_xt25f", "flash_th25q", "flash_mx25l"}

(* The branch of the Load loop an entry takes. *)
Branch(n) ==
    CASE n \in UartLike  -> "uart"
      [] n \in TimerLike -> "timer"
      [] n \in FlashLike -> "flash"
      [] n \in OneKeys   -> n
      [] OTHER           -> "none"

(* The records of ConfigHelper.__init__, with the keys the translations   *)
(* read or write.                                                          *)
InitDefaults == ("initlevel" :> 0) @@ ("initpriority" :> 0)
Defaults ==
    [k \in RecKeys |->
        CASE k = "rcc"       -> ("clk_div_cpu" :> 2) @@ ("clk_div_wlan" :> 3) @@ InitDefaults
          [] k \in UartKeys  -> ("baud" :> 115200) @@ ("parity" :> 0) @@ ("stopbits" :> 0)
                                @@ ("databits" :> 3) @@ ("flowctrl" :> 0) @@ InitDefaults
          [] k \in FlashKeys -> ("quad_spi" :> 0) @@ ("freq" :> 2000000) @@ InitDefaults
          [] k = "sdmmc"     -> ("clock" :> 40000000) @@ InitDefaults
          [] k = "gz035_spi" -> ("freq" :> 60000000) @@ InitDefaults
          [] k = "eeprom0"   -> ("i2c_addr" :> <<"0", "x", "5", "0">>) @@ ("read_only" :> 0) @@ InitDefaults
          [] k = "psram"     -> ("mode" :> 1) @@ ("clock" :> 80000000) @@ InitDefaults
          [] OTHER           -> InitDefaults]

----------------------------------------------------------------------------
(* hex() and int(s, 16): strings as sequences of characters. *)
HexChars == <<"0", "1", "2", "3", "4", "5", "6", "7", "8", "9", "a", "b", "c", "d", "e", "f">>
UpperHex == <<"A", "B", "C", "D", "E", "F">>

RECURSIVE HexDigits(_)
HexDigits(n) == IF n < 16 THEN <<HexChars[n + 1]>> ELSE HexDigits(n \div 16) \o <<HexChars[(n % 16) + 1]>>

PyHex(n) == <<"0", "x">> \o HexDigits(n)

DigitValue(c) ==
    IF \E i \in 1..16 : HexChars[i] = c
    THEN CHOOSE v \in 0..15 : HexChars[v + 1] = c
    ELSE CHOOSE v \in 10..15 : UpperHex[v - 9] = c

IsHexDigit(c) == (\E i \in 1..16 : HexChars[i] = c) \/ (\E i \in 1..6 : UpperHex[i] = c)

(* Mutant of PyIntHex: the digits read in base 10. *)
PyIntDecimal(s) ==
    IF Len(s) = 0 \/ \E i \in 1..Len(s) : ~(\E j \in 1..10 : HexChars[j] = s[i]) THEN -1
    ELSE FoldLeft(LAMBDA acc, c : 10 * acc + DigitValue(c), 0, s)

(* int(s, 16): ValueError (here -1) on an empty string or a non-hex digit. *)
PyIntHex(s) ==
    IF Len(s) = 0 \/ \E i \in 1..Len(s) : ~IsHexDigit(s[i]) THEN -1
    ELSE FoldLeft(LAMBDA acc, c : 16 * acc + DigitValue(c), 0, s)

----------------------------------------------------------------------------
(* load_init_cfg *)
LoadInit(it) ==
    ("initlevel" :> IF it.level = "system" THEN 1 ELSE 0) @@ ("initpriority" :> it.prio)

ParityCode(p) == CASE p = "even" -> 1 [] p = "odd" -> 2 [] OTHER -> 0
FlowCode(f)   == CASE f = "rts" -> 1 [] f = "cts" -> 2 [] f = "rts_cts" -> 3 [] OTHER -> 0

(* The pin_cfg entries a uart's flow control reads: pin_cfg[2] and, for  *)
(* rts_cts, pin_cfg[3].                                                    *)
FlowPinCount(f) == CASE f \in {"rts", "cts"} -> 1 [] f = "rts_cts" -> 2 [] OTHER -> 0

(* A pin_cfg subscript the branch makes past the end of the list: the    *)
(* uart flow-control and tx/rx pins, the six sdmmc and psram pins.  The   *)
(* IndexError is not caught and ends ConfigHelper.__init__.               *)
LoadMissingPin(b, it) ==
    \/ b = "uart" /\ Len(it.pins) < 2 + FlowPinCount(it.flow)
    \/ b \in {"sdmmc", "psram"} /\ Len(it.pins) < 6

(* The normaliser of each branch: the keys it writes into config_data. *)
(* pll / clock: Python's true division; the descriptions' clocks divide   *)
(* 480, where it and \div agree.                                           *)
LoadRcc(it) ==
    LET last(t) == SelectLastInSeq(it.clocks, LAMBDA c : c[1] = t)
    IN  (IF last("cpu") = 0 THEN EmptyDict ELSE "clk_div_cpu" :> 480 \div it.clocks[last("cpu")][2])
        @@ (IF last("wlan") = 0 THEN EmptyDict ELSE "clk_div_wlan" :> 480 \div it.clocks[last("wlan")][2])
        @@ LoadInit(it)

LoadUart(it) ==
    (CASE it.flow = "rts"     -> ("pinrts" :> it.pins[3])
       [] it.flow = "cts"     -> ("pincts" :> it.pins[3])
       [] it.flow = "rts_cts" -> ("pinrts" :> it.pins[3]) @@ ("pincts" :> it.pins[4])
       [] OTHER               -> EmptyDict)
    @@ (IF it.dma THEN "enable_dma" :> 1 ELSE EmptyDict)
    @@ ("baud" :> it.baud) @@ ("parity" :> ParityCode(it.parity))
    @@ ("stopbits" :> it.stop_bits - 1) @@ ("databits" :> 3) @@ ("flowctrl" :> FlowCode(it.flow))
    @@ ("pintx" :> it.pins[1]) @@ ("pinrx" :> it.pins[2]) @@ LoadInit(it)

LoadFlash(it) ==
    ("quad_spi" :> IF it.quad THEN 1 ELSE 0) @@ ("mode" :> it.mode) @@ ("freq" :> it.freq)
    @@ ("cspinnum" :> it.cs) @@ LoadInit(it)

LoadSdmmc(it) ==
    ("clock" :> it.clock) @@ ("bus_width" :> IF it.bus_width = 4 THEN 1 ELSE 0)
    @@ [k \in {"clkpinnum", "cmdpinnum", "dat0pinnum", "dat1pinnum", "dat2pinnum", "dat3pinnum"} |->
           it.pins[CASE k = "clkpinnum" -> 1 [] k = "cmdpinnum" -> 2 [] k = "dat0pinnum" -> 3
                     [] k = "dat1pinnum" -> 4 [] k = "dat2pinnum" -> 5 [] OTHER -> 6]]
    @@ LoadInit(it)

LoadGz035(it) ==
    ("mode" :> it.mode) @@ ("freq" :> it.freq) @@ ("cspinnum" :> it.cs)
    @@ ("resetpinnum" :> it.reset) @@ ("ledpinnum" :> it.led) @@ ("dcxpinnum" :> it.dcx)
    @@ ("tepinnum" :> it.te) @@ LoadInit(it)

LoadEeprom(it) ==
    ("i2c_addr" :> PyHex(it.addr)) @@ ("read_only" :> IF it.read_only THEN 1 ELSE 0)
    @@ (IF Len(it.wp) > 0 THEN ("enable" :> 1) @@ ("wppinnum" :> it.wp[1]) ELSE ("enable" :> 0))
    @@ LoadInit(it)

PsramPinKeys == <<"ckpinnum", "cspinnum", "d0pinnum", "d1pinnum", "d2pinnum", "d3pinnum">>

LoadPsram(it) ==
    ("mode" :> IF it.qspi THEN 1 ELSE 0) @@ ("clock" :> it.clock)
    @@ [k \in ToSet(PsramPinKeys) |-> it.pins[SelectInSeq(PsramPinKeys, LAMBDA x : x = k)]]
    @@ LoadInit(it)

LoadKeys(b, it) ==
    CASE b = "rcc"       -> LoadRcc(it)
      [] b = "uart"      -> LoadUart(it)
      [] b = "flash"     -> LoadFlash(it)
      [] b = "sdmmc"     -> LoadSdmmc(it)
      [] b = "gz035_spi" -> LoadGz035(it)
      [] b = "eeprom0"   -> LoadEeprom(it)
      [] b = "psram"     -> LoadPsram(it)
      [] OTHER           -> LoadInit(it)

(* One iteration of the Load loop.  config_data is the record the branch  *)
(* selects by name; a name the branch's elif chain does not list leaves   *)
(* config_data as the previous iteration set it (NameError when there is  *)
(* none), and the normaliser writes into that record.                     *)
LoadItem(st, it) ==
    LET b   == Branch(it.dev_name)
        key == IF it.dev_name \in RecKeys THEN it.dev_name ELSE st.prev
    IN  IF st.err \/ b = "none" THEN st
        ELSE IF key = "none" \/ LoadMissingPin(b, it) THEN [st EXCEPT !.err = TRUE]
        ELSE [recs |-> [st.recs EXCEPT ![key] = LoadKeys(b, it) @@ @],
              prev |-> key, err |-> FALSE]

LoadDoc(doc) == FoldLeft(LoadItem, [recs |-> Defaults, prev |-> "none", err |-> FALSE], doc)

----------------------------------------------------------------------------
(* The set_<class>_config translations.  Each returns [ok, item]: the entry *)
(* as the method leaves it, and whether it got as far as                    *)
(* update_config_file.  A ValueError (list.index, int(s, 16)) stops the     *)
(* method with the writes before it already made.                           *)

(* update_init_cfg *)
UpdateInit(d, it) ==
    [it EXCEPT !.level = IF d["initlevel"] = 1 THEN "system" ELSE "app", !.prio = d["initpriority"]]

(* Mutant of ParityName: the codes of even and odd swapped. *)
ParityNameSwapped(c) == CASE c = 1 -> "odd" [] c = 2 -> "even" [] OTHER -> "none"

ParityName(c) == CASE c = 1 -> "even" [] c = 2 -> "odd" [] OTHER -> "none"

(* The pin tables of set_uart_config, and the fun4 exceptions of uart3 and *)
(* uart4.                                                                   *)
RtsTable == {0, 2, 5, 10, 15, 20, 29, 35, 37}
CtsTable == {0, 3, 6, 11, 14, 21, 28, 36, 38}
TxTable  == {2, 5, 8, 12, 16, 18, 20, 22, 34, 35, 43}
RxTable  == {3, 6, 9, 17, 19, 21, 23, 29, 32, 33, 36}
Fun4Rts(n, p) == (n = "uart3" /\ p = 2) \/ (n = "uart4" /\ p = 5)
Fun4Cts(n, p) == (n = "uart3" /\ p = 3) \/ (n = "uart4" /\ p = 6)

(* Mutant of FlowPin: the append branch lost; a short list keeps its     *)
(* length.                                                                 *)
FlowPinNoAppend(pins, i, p, fun4, tbl) ==
    [ok |-> fun4 \/ p \in tbl, pins |-> IF Len(pins) < i THEN pins ELSE [pins EXCEPT ![i] = p]]

(* A flow-control pin for slot i of pin_cfg: appended when the list is     *)
(* shorter, and then only once its function is found; otherwise written   *)
(* before the function is looked up.                                        *)
FlowPin(pins, i, p, fun4, tbl) ==
    LET found == fun4 \/ p \in tbl
    IN  [ok   |-> found,
         pins |-> IF Len(pins) < i THEN (IF found THEN Append(pins, p) ELSE pins)
                  ELSE [pins EXCEPT ![i] = p]]

(* The cts pin of rts_cts: when slot 4 exists and the pin is a fun4 pin of *)
(* uart3 or uart4, only its function is written, not the pin.             *)
CtsSlot4(pins, p, n) ==
    IF Len(pins) >= 4 /\ Fun4Cts(n, p) THEN [ok |-> TRUE, pins |-> pins]
    ELSE FlowPin(pins, 4, p, Fun4Cts(n, p), CtsTable)

(* Mutant of FlowOff: a single pop. *)
FlowOffOnce(pins) == IF Len(pins) > 2 THEN RemoveAt(pins, 3) ELSE pins

(* Flow control off: pin_cfg[3] and pin_cfg[2] popped, or pin_cfg[2]. *)
FlowOff(pins) ==
    IF Len(pins) > 3 THEN RemoveAt(RemoveAt(pins, 4), 3)
    ELSE IF Len(pins) > 2 THEN RemoveAt(pins, 3)
    ELSE pins

UartFlow(it, d) ==
    LET n   == it.dev_name
        rts == FlowPin(it.pins, 3, d["pinrts"], Fun4Rts(n, d["pinrts"]), RtsTable)
        cts == FlowPin(it.pins, 3, d["pincts"], Fun4Cts(n, d["pincts"]), CtsTable)
        both == IF rts.ok THEN CtsSlot4(rts.pins, d["pincts"], n) ELSE rts
        fl(f, r) == [ok |-> r.ok, item |-> [it EXCEPT !.flow = f, !.pins = r.pins]]
    IN  CASE d["flowctrl"] = 1 -> fl("rts", rts)
          [] d["flowctrl"] = 2 -> fl("cts", cts)
          [] d["flowctrl"] = 3 -> fl("rts_cts", both)
          [] OTHER -> fl("none", [ok |-> TRUE, pins |-> FlowOff(it.pins)])

SetUart(it, d) ==
    LET fields == [it EXCEPT !.baud = d["baud"], !.parity = ParityName(d["parity"]),
                             !.stop_bits = d["stopbits"] + 1, !.data_bits = 8]
        f    == UartFlow(fields, d)
        tx   == [f.item EXCEPT !.pins[1] = d["pintx"]]
        rx   == [tx EXCEPT !.pins[2] = d["pinrx"]]
        txOk == d["pintx"] \in TxTable \/ (it.dev_name = "uart5" /\ d["pintx"] = 8)
        rxOk == d["pinrx"] \in RxTable \/ (it.dev_name = "uart5" /\ d["pinrx"] = 9)
    IN  CASE ~f.ok -> f
          [] ~txOk -> [ok |-> FALSE, item |-> tx]
          [] ~rxOk -> [ok |-> FALSE, item |-> rx]
          [] OTHER -> [ok |-> TRUE, item |-> UpdateInit(d, [rx EXCEPT !.dma = d["enable_dma"] # 0])]

(* set_clock_config: init_cfg forced to app/0, rcc_cfg rebuilt from the   *)
(* two divisors; update_init_cfg is not called.                           *)
SetRcc(it, d) ==
    [ok |-> TRUE,
     item |-> [it EXCEPT !.level = "app", !.prio = 0,
                         !.clocks = << <<"cpu", 480 \div d["clk_div_cpu"]>>,
                                       <<"wlan", 480 \div d["clk_div_wlan"]>> >>]]

SetFlash(it, d) ==
    [ok |-> TRUE,
     item |-> UpdateInit(d, [it EXCEPT !.quad = d["quad_spi"] # 0, !.mode = d["mode"],
                                       !.freq = d["freq"], !.cs = d["cspinnum"]])]

SdmmcPinKeys == <<"clkpinnum", "cmdpinnum", "dat0pinnum", "dat1pinnum", "dat2pinnum", "dat3pinnum">>

SetSdmmc(it, d) ==
    [ok |-> TRUE,
     item |-> UpdateInit(d, [it EXCEPT !.clock = d["clock"],
                                       !.bus_width = IF d["bus_width"] # 0 THEN 4 ELSE 1,
                                       !.pins = [i \in 1..6 |-> d[SdmmcPinKeys[i]]]])]

(* set_gz035_config: pin_lcd_te is written only when tepinnum is not -1. *)
SetGz035(it, d) ==
    [ok |-> TRUE,
     item |-> UpdateInit(d, [it EXCEPT !.mode = d["mode"], !.freq = d["freq"], !.cs = d["cspinnum"],
                                       !.reset = d["resetpinnum"], !.dcx = d["dcxpinnum"],
                                       !.led = d["ledpinnum"],
                                       !.te = IF d["tepinnum"] # -1 THEN d["tepinnum"] ELSE @])]

(* set_eeprom0_config: i2c_addr loses a leading 0x or 0X and is read as   *)
(* hex; int() raising ValueError ends the method.                         *)
StripHexPrefix(s) == IF Len(s) >= 2 /\ s[1] = "0" /\ s[2] \in {"x", "X"} THEN SubSeq(s, 3, Len(s)) ELSE s

SetEeprom(it, d) ==
    LET v == PyIntHex(StripHexPrefix(d["i2c_addr"]))
    IN  IF v < 0 THEN [ok |-> FALSE, item |-> it]
        ELSE [ok |-> TRUE,
              item |-> UpdateInit(d, [it EXCEPT !.addr = v, !.read_only = d["read_only"] # 0,
                                                !.wp = IF d["enable"] # 0 THEN <<d["wppinnum"]>> ELSE <<>>])]

SetPsram(it, d) ==
    [ok |-> TRUE,
     item |-> UpdateInit(d, [it EXCEPT !.qspi = d["mode"] # 0, !.clock = d["clock"],
                                       !.pins = [i \in 1..6 |-> d[PsramPinKeys[i]]]])]

Translate(b, it, d) ==
    CASE b = "rcc"       -> SetRcc(it, d)
      [] b = "uart"      -> SetUart(it, d)
      [] b = "flash"     -> SetFlash(it, d)
      [] b = "sdmmc"     -> SetSdmmc(it, d)
      [] b = "gz035_spi" -> SetGz035(it, d)
      [] b = "eeprom0"   -> SetEeprom(it, d)
      [] b = "psram"     -> SetPsram(it, d)
      [] OTHER           -> [ok |-> TRUE, item |-> UpdateInit(d, it)]

----------------------------------------------------------------------------
(* The server: one ConfigHelper over the description file.  A POST       *)
(* handler of devconf.py takes the device's record from get_*_config,      *)
(* writes the form into it (FormFill gives what a lacking field defaults *)
(* to) and calls set_<class>_config, which stores the record, edits the    *)
(* entry of the in-memory document and, if it does not raise, dumps the    *)
(* document.                                                               *)
(* A restart of the server loads the file again.                           *)
CONSTANTS
    Docs,      \* description files the server can be started on
    Edits,     \* <<device, form fields changed>> pairs a POST can carry
    MaxSets    \* bound on the number of POSTs

VARIABLES
    toml_file,    \* the description file
    config,       \* self.config["dev"]: the in-memory document
    config_data,  \* the self.<device>_config_data records, by device
    accepted,     \* each entry as the last Set that did not raise (or the load) left it
    failed,       \* a Set raised since the server started
    last,         \* the last POST: [key, edit, ok]
    sets          \* POSTs so far

vars == <<toml_file, config, config_data, accepted, failed, last, sets>>

(* The values wmdt_index's except TypeError branches give the fields a    *)
(* form lacks, per branch; the clock form has none.                        *)
InitForm   == ("initlevel" :> 0) @@ ("initpriority" :> 0)
UartForm   == ("pinrts" :> 0) @@ ("pincts" :> 0) @@ ("enable_dma" :> 0) @@ InitForm
FlashForm  == ("quad_spi" :> 0) @@ InitForm
Gz035Form  == ("tepinnum" :> -1) @@ InitForm
EepromForm == ("read_only" :> 0) @@ ("enable" :> 0) @@ ("wppinnum" :> 0) @@ InitForm

FormFill(b) ==
    CASE b = "uart"      -> UartForm
      [] b = "flash"     -> FlashForm
      [] b = "gz035_spi" -> Gz035Form
      [] b = "eeprom0"   -> EepromForm
      [] b = "rcc"       -> EmptyDict
      [] OTHER           -> InitForm

(* Entries keep their names, levels are app or system, and the records    *)
(* hold the keys of the Load branches.                                     *)
TypeOK ==
    /\ Len(config) = Len(toml_file)
    /\ \A i \in 1..Len(config) :
          /\ config[i].dev_name = toml_file[i].dev_name
          /\ config[i].level \in {"system", "app"}
          /\ config[i].prio \in Int
    /\ DOMAIN config_data = RecKeys
    /\ failed \in BOOLEAN
    /\ sets \in 0..MaxSets

(* ConfigHelper.__init__ on a file it can load. *)
Init ==
    /\ toml_file \in {f \in Docs : ~LoadDoc(f).err}
    /\ config = toml_file
    /\ config_data = LoadDoc(toml_file).recs
    /\ accepted = toml_file
    /\ failed = FALSE
    /\ last = [key |-> "none", edit |-> EmptyDict, ok |-> TRUE]
    /\ sets = 0

(* A POST for device k: the form, then set_<class>_config on the first    *)
(* entry named k, then update_config_file if nothing raised.              *)
Set(k, e) ==
    LET i == SelectInSeq(config, LAMBDA it : it.dev_name = k)
        d == e @@ config_data[k] @@ FormFill(Branch(k))
        r == Translate(Branch(k), config[i], d)
    IN  /\ sets < MaxSets
        /\ i # 0
        /\ config_data' = [config_data EXCEPT ![k] = d]
        /\ config' = [config EXCEPT ![i] = r.item]
        /\ toml_file' = IF r.ok THEN config' ELSE toml_file
        /\ accepted' = IF r.ok THEN [accepted EXCEPT ![i] = r.item] ELSE accepted
        /\ failed' = (failed \/ ~r.ok)
        /\ last' = [key |-> k, edit |-> e, ok |-> r.ok]
        /\ sets' = sets + 1

(* The server is restarted: ConfigHelper.__init__ reads the file again. *)
Restart ==
    /\ config' = toml_file
    /\ config_data' = LoadDoc(toml_file).recs
    /\ accepted' = toml_file
    /\ failed' = FALSE
    /\ UNCHANGED <<toml_file, last, sets>>

Next == Restart \/ \E p \in Edits : Set(p[1], p[2])

Spec == Init /\ [][Next]_vars

----------------------------------------------------------------------------
(* Two readings of a field agree; an i2c_addr string is read as Set reads *)
(* it.                                                                     *)
SameField(f, a, b) ==
    IF f = "i2c_addr" THEN PyIntHex(StripHexPrefix(a)) = PyIntHex(StripHexPrefix(b)) ELSE a = b

(* Round trip (spec 8): while every Set since the server started was    *)
(* accepted, each field the server would show after a restart is the       *)
(* field it shows now: what set_<class>_config writes, the Load            *)
(* normaliser reads back.                                                  *)
ReloadAgrees ==
    ~failed =>
        LET L == LoadDoc(toml_file).recs
        IN  \A i \in 1..Len(toml_file) :
              LET k == toml_file[i].dev_name
              IN  k \in RecKeys =>
                    \A f \in DOMAIN L[k] : f \in DOMAIN config_data[k] /\ SameField(f, config_data[k][f], L[k][f])

(* A Set that raised is not persisted: every entry of the file is as the  *)
(* load or the last accepted Set of that entry made it, also after another *)
(* device's Set dumps the document.                                        *)
PersistedOnlyAccepted == toml_file = accepted

====
