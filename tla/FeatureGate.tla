----------------------------- MODULE FeatureGate -----------------------------
(***************************************************************************)
(* The Feature Gate: the parsers of the build-configuration (kconfig)      *)
(* file.  The repository has two of them, and they differ:                 *)
(*   - wm_device_table.__init__ / check_and_load_kconfig (tools/wm/wmdt.py)*)
(*     feeds the Device Table Compiler;                                    *)
(*   - the kconfig block of ConfigHelper.__init__                          *)
(*     (tools/devconf/config_helper.py) feeds the config model and the     *)
(*     Pin-Mux Resolver.                                                   *)
(* A file is a sequence of lines.  A line is abstracted to what the        *)
(* parsers test: an exact "CONFIG_COMPONENT_<KEY>" line (the key below is  *)
(* the text after "CONFIG_COMPONENT_", "=y" included), a CONFIG_CHIP_NAME  *)
(* line whose quoted value the regex may or may not find, or              *)
(* any other line (comments, "=n", unknown keys).  A missing file is the   *)
(* model value NoFile.                                                     *)
(***************************************************************************)
EXTENDS Sequences, SequencesExt, TLC

CONSTANTS
    Chips,      \* chip names a CONFIG_CHIP_NAME line may carry
    Malformed,  \* a CONFIG_CHIP_NAME line without a quoted value
    NoChip,     \* wmdt.py: chip_type never assigned
    NoFile      \* no kconfig file given on the command line

ASSUME NoChip \notin Chips /\ Malformed \notin Chips

EnableLine(k) == [kind |-> "enable", key |-> k]
ChipLine(c)   == [kind |-> "chip", chip |-> c]
OtherLine     == [kind |-> "other"]

(* wmdt.py check_and_load_kconfig: which exact line appends which feature. *)
WmdtKeyFeature ==
       ("DRIVER_INTERNAL_FLASH_ENABLED=y" :> "iflash")
    @@ ("DRIVER_EXTERNAL_FLASH_ENABLED=y" :> "eflash")
    @@ ("DRIVER_TIMER_ENABLED=y" :> "timer")
    @@ ("DRIVER_UART_ENABLED=y" :> "uart")
    @@ ("DRIVER_GPIO_ENABLED=y" :> "gpio")
    @@ ("DRIVER_PSRAM_ENABLED=y" :> "psram")
    @@ ("DRIVER_PWM_ENABLED=y" :> "pwm")
    @@ ("DRIVER_RTC_ENABLED=y" :> "rtc")
    @@ ("DRIVER_SDMMC_ENABLED=y" :> "sdmmc")
    @@ ("DRIVER_SDSPI_ENABLED=y" :> "sdspi")
    @@ ("DRIVER_SDIO_SLAVE_ENABLED=y" :> "sdio_slave")
    @@ ("DRIVER_SPIM_ENABLED=y" :> "spim")
    @@ ("DRIVER_WDT_ENABLED=y" :> "wdt")
    @@ ("DRIVER_TFT_LCD_ENABLED=y" :> "tftlcd")
    @@ ("DRIVER_LCD_ST7735_SPI=y" :> "st7735")
    @@ ("DRIVER_LCD_NV3041A_SPI=y" :> "nv3041a")
    @@ ("DRIVER_LCD_GZ035_SPI=y" :> "gz035")
    @@ ("DRIVER_ADC_ENABLED=y" :> "adc")
    @@ ("DRIVER_CRC_ENABLED=y" :> "crc")
    @@ ("DRIVER_CRYPTO_ENABLED=y" :> "crypto")
    @@ ("DRIVER_HASH_ENABLED=y" :> "hash")
    @@ ("DRIVER_RNG_ENABLED=y" :> "rng")
    @@ ("DRIVER_RSA_ENABLED=y" :> "rsa")
    @@ ("DRIVER_TOUCH_SENSOR_ENABLED=y" :> "touch_sensor")
    @@ ("DRIVER_I2S_ENABLED=y" :> "i2s")
    @@ ("DRIVER_CODEC_ES8374_ENABLED=y" :> "es8374")
    @@ ("DRIVER_SEG_LCD_ENABLED=y" :> "seg_lcd")
    @@ ("DRIVER_I2C_ENABLED=y" :> "i2c")

(* ConfigHelper.__init__: the same table without ES8374, plus PMU and WIFI. *)
HelperKeyFeature ==
       [k \in DOMAIN WmdtKeyFeature \ {"DRIVER_CODEC_ES8374_ENABLED=y"} |-> WmdtKeyFeature[k]]
    @@ ("WIFI_ENABLED=y" :> "wifi")
    @@ ("DRIVER_PMU_ENABLED=y" :> "pmu")

(* wmdt.py __init__: the feature list assumed when no kconfig file is given. *)
WmdtDefaultFeatures ==
    {"uart", "timer", "iflash", "eflash", "crypto", "crc", "hash", "rng", "rsa",
     "sdmmc", "sdspi", "sdio_slave", "tftlcd", "nv3041a", "st7735", "gz035",
     "i2c", "spim", "touch_sensor", "pwm", "rtc", "pmu", "i2s", "seg_lcd", "adc",
     "gpio", "wdt", "psram"}

(* One line of either parser: a chip line whose regex matches overwrites   *)
(* the chip, an exact enable line adds its feature, anything else is       *)
(* ignored.                                                                *)
ParseLine(keyFeature, acc, line) ==
    [features |-> IF line.kind = "enable" /\ line.key \in DOMAIN keyFeature
                  THEN acc.features \cup {keyFeature[line.key]}
                  ELSE acc.features,
     chip     |-> IF line.kind = "chip" /\ line.chip # Malformed
                  THEN line.chip
                  ELSE acc.chip]

WmdtParseLine(acc, line)   == ParseLine(WmdtKeyFeature, acc, line)
HelperParseLine(acc, line) == ParseLine(HelperKeyFeature, acc, line)

(* The compiler's gate.  With no file, every feature but es8374 is on and  *)
(* the chip is W800; with a file, the chip stays unassigned (NoChip) unless *)
(* a CONFIG_CHIP_NAME line matches.                                         *)
WmdtGate(file) ==
    IF file = NoFile
    THEN [features |-> WmdtDefaultFeatures, chip |-> "W800"]
    ELSE FoldLeft(WmdtParseLine, [features |-> {}, chip |-> NoChip], file)

(* The config model's gate.  Every feature starts disabled and the chip    *)
(* starts as W800, with or without a file.                                  *)
HelperGate(file) ==
    IF file = NoFile
    THEN [features |-> {}, chip |-> "W800"]
    ELSE FoldLeft(HelperParseLine, [features |-> {}, chip |-> "W800"], file)

=============================================================================
