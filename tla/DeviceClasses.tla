---------------------------- MODULE DeviceClasses ----------------------------
(***************************************************************************)
(* The device classes of the Device Table Compiler (tools/wm/wmdt.py):     *)
(* one record per generate_<class> method, in the order generate_file      *)
(* calls them (the nested generate_gdc0689, generate_eeprom,               *)
(* generate_touch_button and generate_es8374 follow the method that calls  *)
(* them, behind its gate).  A description entry is abstracted to its name, *)
(* its init_cfg (init_level, init_priority) and one flag ok: whether every *)
(* enumerated field the class translates (parity, flow_ctrl, pin dir and   *)
(* pupd, clk_src, gpio modes, seg_lcd modes) holds a value the compiler    *)
(* knows.                                                                  *)
(***************************************************************************)
EXTENDS FeatureGate

(* Suffixes accepted by is_extra_part_all_digits: one or two digits. *)
Digit == {"0", "1", "2", "3", "4", "5", "6", "7", "8", "9"}
DigitStrings == Digit \cup {a \o b : a, b \in Digit}

(* generate_eflash: names starting with "flash" and longer than six       *)
(* characters; the flash types of the board descriptions stand for them.  *)
FlashDevices == {"flash_w25q", "flash_gd25q", "flash_xt25f", "flash_th25q"}

TftDevices == {"nv3041a_spi", "st7735_spi", "gz035_spi"}
TftOps == ("nv3041a_spi" :> "tft_lcd_nv3041a") @@ ("st7735_spi" :> "tft_lcd_st7735")
          @@ ("gz035_spi" :> "tft_lcd_gz035")
SdhOps == ("sdmmc" :> "sdh_sdmmc") @@ ("sdspi" :> "sdh_spi")

(* How a class picks its entries: "exact" base == dev_name; "digits" base *)
(* in dev_name and is_extra_part_all_digits; "flash", "tft", "sdh" the    *)
(* name lists of generate_eflash, generate_tftlcd and generate_sdh.       *)
(* needAll: features that must all be in the gate (nested calls inherit   *)
(* the caller's); needAny: at least one of them (generate_sdh).  enum:    *)
(* "strict" when an untranslatable field exits (sys.exit in uart and in   *)
(* update_dt_hw_c_pin_cfg, UnboundLocalError for pmu clk_src), "lenient"  *)
(* when it falls back to a default (dict.get), "none" when there is none. *)
(* ops is the ops symbol update_dt_table_ex records ("" for None).        *)
Cls(b, m, all, any, en, o) ==
    [base |-> b, match |-> m, needAll |-> all, needAny |-> any, enum |-> en, ops |-> o]

generate_rcc          == Cls("rcc", "exact", {}, {},
                         "lenient", "rcc")
generate_dma          == Cls("dma", "exact", {}, {},
                         "none", "dma")
generate_gpio         == Cls("gpio", "exact", {"gpio"}, {},
                         "lenient", "gpio")
generate_timer        == Cls("timer", "digits", {"timer"}, {},
                         "none", "timer")
generate_uart         == Cls("uart", "digits", {"uart"}, {},
                         "strict", "uart")
generate_pwm          == Cls("pwm", "exact", {"pwm"}, {},
                         "strict", "pwm")
generate_iflash       == Cls("iflash", "exact", {"iflash"}, {},
                         "none", "internal_flash")
generate_seg_lcd      == Cls("seg_lcd", "exact", {"seg_lcd"}, {},
                         "lenient", "seg_lcd")
generate_gdc0689      == Cls("gdc0689", "exact", {"seg_lcd"}, {},
                         "strict", "")
generate_i2c          == Cls("i2c", "exact", {"i2c"}, {},
                         "strict", "i2c")
generate_eeprom       == Cls("eeprom", "digits", {"i2c"}, {},
                         "strict", "eeprom_nv24c0x")
generate_spim         == Cls("spim", "exact", {"spim"}, {},
                         "strict", "spim")
generate_rtc          == Cls("rtc", "exact", {"rtc"}, {},
                         "none", "rtc")
generate_pmu          == Cls("pmu", "exact", {}, {},
                         "strict", "pmu")
generate_touch_sensor == Cls("touch_sensor", "exact", {"touch_sensor"}, {},
                         "strict", "touch_sensor")
generate_touch_button == Cls("touch_button", "exact", {"touch_sensor"}, {},
                         "strict", "touch_button")
generate_adc          == Cls("adc", "exact", {"adc"}, {},
                         "strict", "adc")
generate_eflash       == Cls("flash", "flash", {"eflash"}, {},
                         "none", "external_flash")
generate_i2s          == Cls("i2s", "exact", {"i2s"}, {},
                         "strict", "i2s")
generate_es8374       == Cls("es8374", "exact", {"i2s", "es8374"}, {},
                         "none", "codec_i2s_es8374")
generate_sdh          == Cls("sdh", "sdh", {}, {"sdmmc", "sdspi"},
                         "strict", "sdh")
generate_sdio_slave   == Cls("sdio_slave", "exact", {"sdio_slave"}, {},
                         "strict", "sdio_slave")
generate_tftlcd       == Cls("tft_lcd", "tft", {"tftlcd"}, {},
                         "lenient", "tft_lcd")
generate_wdt          == Cls("wdt", "exact", {"wdt"}, {},
                         "none", "wdt")
generate_psram        == Cls("psram", "exact", {"psram"}, {},
                         "strict", "psram")
generate_crc          == Cls("crc", "exact", {"crc"}, {},
                         "none", "crc")
generate_crypto       == Cls("crypto", "exact", {"crypto"}, {},
                         "none", "crypto")
generate_hash         == Cls("hash", "exact", {"hash"}, {},
                         "none", "hash")
generate_rng          == Cls("rng", "exact", {"rng"}, {},
                         "none", "rng")
generate_rsa          == Cls("rsa", "exact", {"rsa"}, {},
                         "none", "rsa")

(* generate_file: the class-processing order (nested generators follow *)
(* the method that calls them).                                         *)
Gens == <<generate_rcc, generate_dma, generate_gpio, generate_timer,
    generate_uart, generate_pwm, generate_iflash, generate_seg_lcd,
    generate_gdc0689, generate_i2c, generate_eeprom, generate_spim,
    generate_rtc, generate_pmu, generate_touch_sensor, generate_touch_button,
    generate_adc, generate_eflash, generate_i2s, generate_es8374, generate_sdh,
    generate_sdio_slave, generate_tftlcd, generate_wdt, generate_psram,
    generate_crc, generate_crypto, generate_hash, generate_rng, generate_rsa>>

(* The early "if not <feature> in self.kconfig: return" of each method.   *)
Gated(cls, features) ==
    /\ cls.needAll \subseteq features
    /\ cls.needAny # {} => cls.needAny \cap features # {}

(* The dev_name test of the method's loop over self.config. *)
Match(cls, name) ==
    CASE cls.match = "exact"  -> name = cls.base
      [] cls.match = "digits" -> \E d \in DigitStrings : name = cls.base \o d
      [] cls.match = "flash"  -> name \in FlashDevices
      [] cls.match = "tft"    -> name \in TftDevices
      [] cls.match = "sdh"    -> name \in DOMAIN SdhOps

ValidLevels == {"system", "app"}

(* generate_uart: uart5 only exists on these chips. *)
UartFiveChips == {"W801S", "W802", "W806"}

(* What one matched entry does to the compiler run, tested in the order   *)
(* of the code: it is skipped (generate_sdh's per-device kconfig test,    *)
(* uart5 on a chip without it), it crashes on self.chip_type never        *)
(* assigned (AttributeError), or it ends the run (sys.exit in             *)
(* update_dt_hw_c_init_cfg, whose print of the undefined dev_name raises  *)
(* NameError first; or a strict field); otherwise it is emitted.          *)
Outcome(cls, e, gate) ==
    IF cls.match = "sdh" /\ e.name \notin gate.features THEN "skip"
    ELSE IF cls.base = "uart" /\ e.name = "uart5" /\ gate.chip = NoChip THEN "crash"
    ELSE IF cls.base = "uart" /\ e.name = "uart5" /\ gate.chip \notin UartFiveChips THEN "skip"
    ELSE IF e.level \notin ValidLevels \/ (cls.enum = "strict" /\ ~e.ok) THEN "fatal"
    ELSE "emit"

(* Mutant of Row: the priority taken one below init_priority. *)
RowPrioShifted(cls, e) ==
    [name |-> e.name, ops |-> cls.ops,
     level |-> IF e.level = "system" THEN 1 ELSE 0, prio |-> e.prio - 1]

(* The row update_dt_table_ex appends to wm_dt_hw_table, with the init     *)
(* level update_dt_hw_c_init_cfg writes into the device's hw structure.   *)
Row(cls, e) ==
    [name  |-> e.name,
     ops   |-> CASE cls.match = "tft" -> TftOps[e.name]
                 [] cls.match = "sdh" -> SdhOps[e.name]
                 [] OTHER             -> cls.ops,
     level |-> IF e.level = "system" THEN 1 ELSE 0,
     prio  |-> e.prio]

====
