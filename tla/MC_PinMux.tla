------------------------------ MODULE MC_PinMux ------------------------------
(***************************************************************************)
(* Model-checking instances of the Pin-Mux Resolver.  The devices carry    *)
(* pins of the boards' descriptions and of the alternatives the config     *)
(* model's Set operations write; some share pins (spec 8: gpio and pwm on  *)
(* pin 5) and one differential adc channel consumes two pins.              *)
(***************************************************************************)
EXTENDS PinMux

Dev(n, pins) == [name |-> n, pins |-> pins, flow |-> "none", cs |-> 0,
                 lcd |-> <<>>, chans |-> <<>>, tb |-> <<>>, wp |-> <<>>, i2s |-> <<>>]

Uart0      == Dev("uart0", <<2, 3>>)
Uart1Flow  == [Dev("uart1", <<22, 23, 20, 21>>) EXCEPT !.flow = "rts_cts"]
GpioDev    == Dev("gpio", <<5, 7>>)
Pwm        == Dev("pwm", <<5, 2, 9>>)
Adc        == [Dev("adc", <<1, 4, 17>>) EXCEPT !.chans = <<8, 3>>]
I2s        == [Dev("i2s", <<24, 25>>) EXCEPT !.i2s = << <<7, "I2S_MCLK">> >>]
Eeprom0    == [Dev("eeprom0", <<>>) EXCEPT !.wp = <<30>>]
Touch      == [Dev("touch_button", <<9, 10>>) EXCEPT !.tb = <<1, 2>>]
(* gz035_spi with a TE pin, and with pin_lcd_te = -1 (no TE pin). *)
Gz035      == [Dev("gz035_spi", <<>>) EXCEPT !.cs = 14, !.lcd = <<26, 27, 28, 29>>]
Gz035NoTe  == [Dev("gz035_spi", <<>>) EXCEPT !.cs = 14, !.lcd = <<26, 27, 28, -1>>]
(* psram on its first pin group, and on the second one set_psram_config   *)
(* offers (ck 16, cs 43, d0..d3 on 44..47).                               *)
PsramLow   == Dev("psram", <<15, 17, 18, 19, 20, 21>>)
PsramHigh  == Dev("psram", <<16, 43, 44, 45, 46, 47>>)

DistinctNames(s) == \A i, j \in 1..Len(s) : i # j => s[i].name # s[j].name

DocsOf(devices, n) == {s \in BoundedSeq(devices, n) : DistinctNames(s)}

MCDocs      == DocsOf({Uart0, Uart1Flow, GpioDev, Pwm, Adc, I2s, Eeprom0, Touch, Gz035, PsramLow}, 2)
MCDocsResolve == DocsOf({Uart0, Gz035NoTe, PsramHigh}, 2)

AllFeatures == {"uart", "gpio", "pwm", "adc", "i2s", "i2c", "touch_sensor", "gz035", "psram"}
MCGates     == {AllFeatures, {"uart", "gpio", "psram"}}

====
