------------------------------- MODULE PinMux -------------------------------
(***************************************************************************)
(* The Pin-Mux Resolver: ConfigHelper.set_devices_pin                       *)
(* (tools/devconf/config_helper.py).  It replaces self.pinmux by a table of *)
(* 46 empty dicts and then, for every device of the description whose      *)
(* kconfig feature is on, writes {dev_name: role} into the dict of every    *)
(* pin the device's branch names.  A pin is a Python list index: -46..-1    *)
(* wrap around to the end of the table, anything else raises IndexError    *)
(* and leaves the table as far as it was filled.                            *)
(*                                                                          *)
(* A device is a record of the fields the branches read: its pin_cfg pins  *)
(* in order, the uart flow_ctrl, the spi_cfg pin_cs pin, the tft lcd pins  *)
(* (reset, dcx, led and, for gz035, te), the adc channels, the touch       *)
(* button cfgs, the eeprom write-protect pin (a sequence of 0 or 1 pins)    *)
(* and the i2s_config_data mclk/di/do pins (0 or 1 pins each).  A pin_cfg   *)
(* entry the code reads and the list does not have is the pin NoPin, which *)
(* raises IndexError like an out-of-table pin.                              *)
(***************************************************************************)
EXTENDS Integers, Sequences, SequencesExt

CONSTANTS
    Docs,   \* descriptions: sequences of devices
    Gates   \* sets of enabled kconfig features (HelperGate's features)

(* range(46) in set_devices_pin *)
PinmuxSize == 46

NoPin == -1000

(* The table index a Python list subscript p denotes, and whether it has  *)
(* one.                                                                    *)
InTable(p) == -PinmuxSize <= p /\ p < PinmuxSize
PyIndex(p) == IF p < 0 THEN PinmuxSize + p ELSE p

(* dev_name.startswith("flash_"): the flash types of the descriptions. *)
IsFlash(n) == n \in {"flash_w25q", "flash_gd25q", "flash_xt25f", "flash_th25q"}

(* pin_cfg[i], or NoPin past the end of a short list. *)
Pin(d, i) == IF i <= Len(d.pins) THEN d.pins[i] ELSE NoPin

UartPrefix == [uart0 |-> "UART0", uart1 |-> "UART1", uart2 |-> "UART2",
               uart3 |-> "UART3", uart4 |-> "UART4", uart5 |-> "UART5"]

(* The pwm branch: the channel lists, in the order the elif chain tests   *)
(* them.                                                                   *)
PwmChannels == << <<"PWM0", {2, 10, 16, 28, 35}>>, <<"PWM1", {3, 11, 17, 29, 36}>>,
                  <<"PWM2", {0, 12, 18, 30, 40}>>, <<"PWM3", {1, 13, 19, 31, 41}>>,
                  <<"PWM4", {4, 7, 14, 32, 42}>>, <<"PWM_BREAK", {5, 8, 15, 24, 33}>> >>

PwmClaim(p) ==
    LET i == SelectInSeq(PwmChannels, LAMBDA c : p \in c[2])
    IN  IF i = 0 THEN <<>> ELSE << <<p, PwmChannels[i][1]>> >>

(* The adc branch: channels 0..3 claim the pin at index, the differential *)
(* channels 8 and 9 the pins at index and index + 1 and advance index once *)
(* more; other channels claim nothing.                                     *)
RECURSIVE AdcClaims(_, _, _)
AdcClaims(d, chans, idx) ==
    IF Len(chans) = 0 THEN <<>>
    ELSE LET c    == Head(chans)
             here == CASE c \in 0..3 -> << <<Pin(d, idx), "ADC" \o ToString(c)>> >>
                       [] c = 8     -> << <<Pin(d, idx), "ADC0">>, <<Pin(d, idx + 1), "ADC1">> >>
                       [] c = 9     -> << <<Pin(d, idx), "ADC2">>, <<Pin(d, idx + 1), "ADC3">> >>
                       [] OTHER     -> <<>>
             next == IF c \in {8, 9} THEN idx + 2 ELSE idx + 1
         IN  here \o AdcClaims(d, Tail(chans), next)

(* The touch_button branch: the cfg's position is looked up with          *)
(* list.index, the first cfg equal to it.                                  *)
TouchClaims(d) ==
    [k \in 1..Len(d.tb) |->
        <<Pin(d, SelectInSeq(d.tb, LAMBDA c : c = d.tb[k])), "TOUCH" \o ToString(d.tb[k])>>]

Roles(d, names) == [k \in 1..Len(names) |-> <<Pin(d, k), names[k]>>]
Gpio(pins) == [k \in 1..Len(pins) |-> <<pins[k], "GPIO">>]

(* The <<pin, role>> writes of one device's branch, in code order, and the *)
(* kconfig feature that guards the branch.                                 *)
Claims(d) ==
    CASE d.name \in DOMAIN UartPrefix ->
            LET u == UartPrefix[d.name]
            IN  Roles(d, <<u \o "_TX", u \o "_RX">>)
                \o (CASE d.flow = "rts"     -> << <<Pin(d, 3), u \o "_RTS">> >>
                      [] d.flow = "cts"     -> << <<Pin(d, 3), u \o "_CTS">> >>
                      [] d.flow = "rts_cts" -> << <<Pin(d, 3), u \o "_RTS">>, <<Pin(d, 4), u \o "_CTS">> >>
                      [] OTHER              -> <<>>)
      [] IsFlash(d.name) -> Gpio(<<d.cs>>)
      [] d.name = "sdmmc"      -> Roles(d, <<"MMC_CLK", "MMC_CMD", "MMC_DAT0", "MMC_DAT1", "MMC_DAT2", "MMC_DAT3">>)
      [] d.name = "sdspi"      -> Roles(d, <<"MMC_CLK", "MMC_CMD">>)
      [] d.name \in {"nv3041a_spi", "st7735_spi", "gz035_spi"} -> Gpio(<<d.cs>> \o d.lcd)
      [] d.name = "sdio_slave" -> Roles(d, <<"MMC_CLK", "MMC_CMD", "MMC_DAT0", "MMC_DAT1", "MMC_DAT2", "MMC_DAT3">>)
      [] d.name = "i2c"        -> Roles(d, <<"I2C_SCL", "I2C_SDA">>)
      [] d.name \in {"eeprom0", "eeprom1"} -> Gpio(d.wp)
      [] d.name = "spim"       -> Roles(d, <<"LSPI_CK", "LSPI_MISO", "LSPI_MOSI">>)
      [] d.name = "touch_sensor" -> Roles(d, <<"CMOD", "CDC">>)
      [] d.name = "touch_button" -> TouchClaims(d)
      [] d.name = "pwm"        -> FlattenSeq([k \in 1..Len(d.pins) |-> PwmClaim(d.pins[k])])
      [] d.name = "i2s"        -> Roles(d, <<"I2S_BCLK", "I2S_LRCLK">>)
                                  \o [k \in 1..Len(d.i2s) |-> d.i2s[k]]
      [] d.name = "adc"        -> AdcClaims(d, d.chans, 1)
      [] d.name = "gpio"       -> Gpio(d.pins)
      [] d.name = "psram"      -> Roles(d, <<"PSRAM_CK", "PSRAM_CS", "PSRAM_DAT0", "PSRAM_DAT1", "PSRAM_DAT2", "PSRAM_DAT3">>)
      [] OTHER                 -> <<>>

Feature(d) ==
    CASE d.name \in DOMAIN UartPrefix -> "uart"
      [] IsFlash(d.name) -> "eflash"
      [] d.name = "nv3041a_spi" -> "nv3041a"
      [] d.name = "st7735_spi"  -> "st7735"
      [] d.name = "gz035_spi"   -> "gz035"
      [] d.name \in {"eeprom0", "eeprom1"} -> "i2c"
      [] d.name = "touch_button" -> "touch_sensor"
      [] OTHER                  -> d.name

EmptyDict == [n \in {} |-> ""]
EmptyTable == [p \in 0..PinmuxSize - 1 |-> EmptyDict]

VARIABLES
    devs,    \* self.config["dev"]
    kc,      \* clock_config_data["kconfig"]: the enabled features
    pinmux,  \* self.pinmux["pinmux"]
    k,       \* the loop's position in devs
    phase    \* "fill", then "done", or "error" after an IndexError

vars == <<devs, kc, pinmux, k, phase>>

TypeOK ==
    /\ DOMAIN pinmux = 0..PinmuxSize - 1
    /\ \A p \in 0..PinmuxSize - 1 :
          /\ DOMAIN pinmux[p] \subseteq {devs[i].name : i \in 1..Len(devs)}
          /\ \A n \in DOMAIN pinmux[p] : pinmux[p][n] \in STRING
    /\ k \in 1..Len(devs) + 1
    /\ phase \in {"fill", "done", "error"}

(* The first lines of set_devices_pin: a fresh table of empty dicts. *)
Init ==
    /\ devs \in Docs
    /\ kc \in Gates
    /\ pinmux = EmptyTable
    /\ k = 1
    /\ phase = "fill"

(* Mutant of Claim: the pin's dict replaced instead of extended. *)
ClaimReplacing(tbl, n, c) ==
    [tbl EXCEPT ![PyIndex(c[1])] = (n :> c[2])]

(* Mutant of Claim: the role written as the key and the name as the value. *)
ClaimSwapped(tbl, n, c) ==
    [tbl EXCEPT ![PyIndex(c[1])] = (c[2] :> n) @@ @]

(* pinmux[p][n] = r: the dict of pin p gains (or rewrites) the key n. *)
Claim(tbl, n, c) ==
    [tbl EXCEPT ![PyIndex(c[1])] = (n :> c[2]) @@ @]

(* One iteration of the loop: the branch of devs[k], if its feature is    *)
(* on, writes its claims until the first pin without a table entry raises *)
(* IndexError.                                                             *)
ResolveItem ==
    LET d      == devs[k]
        writes == IF Feature(d) \in kc THEN Claims(d) ELSE <<>>
        bad    == SelectInSeq(writes, LAMBDA c : ~InTable(c[1]))
        done   == IF bad = 0 THEN writes ELSE SubSeq(writes, 1, bad - 1)
    IN  /\ phase = "fill"
        /\ k <= Len(devs)
        /\ pinmux' = FoldLeft(LAMBDA t, c : Claim(t, d.name, c), pinmux, done)
        /\ k' = k + 1
        /\ phase' = IF bad = 0 THEN "fill" ELSE "error"
        /\ UNCHANGED <<devs, kc>>

(* The loop ends and set_devices_pin returns. *)
Finish ==
    /\ phase = "fill"
    /\ k = Len(devs) + 1
    /\ phase' = "done"
    /\ UNCHANGED <<devs, kc, pinmux, k>>

Next == ResolveItem \/ Finish

Spec == Init /\ [][Next]_vars

----------------------------------------------------------------------------
(* The pin view of spec 4.3: for every enabled device of the description, *)
(* each pin it declares, taken as a physical pin index, carries the       *)
(* device's name with the role of that pin; devices sharing a pin all     *)
(* appear in its entry.                                                    *)
Declared(d) == {c \in ToSet(Claims(d)) : c[1] \in 0..PinmuxSize - 1}

Enabled(ds, gate) == {ds[i] : i \in {j \in 1..Len(ds) : Feature(ds[j]) \in gate}}

SpecView(ds, gate) ==
    [p \in 0..PinmuxSize - 1 |->
        LET on == {d \in Enabled(ds, gate) : \E c \in Declared(d) : c[1] = p}
        IN  [n \in {d.name : d \in on} |->
                CHOOSE r \in {c[2] : c \in UNION {Declared(d) : d \in {e \in on : e.name = n}}} :
                    \E d \in on : d.name = n /\ <<p, r>> \in Declared(d)]]

(* Resolution: set_devices_pin returns, without an IndexError, for every *)
(* description whose pins the config model's Set operations write, and    *)
(* the table it leaves behind is the pin view of the description under    *)
(* the kconfig gate.                                                        *)
ResolvesToView ==
    /\ phase # "error"
    /\ phase = "done" => pinmux = SpecView(devs, kc)

====
