\* Resolution on the descriptions the config model writes but the pin table
\* does not fit: a gz035_spi without TE pin (pin_lcd_te = -1) and psram on
\* the pins 43..47 set_psram_config offers.  Expected violated.
CONSTANTS
    Docs <- MCDocsResolve
    Gates <- MCGates
SPECIFICATION Spec
\* set_devices_pin is one call: it stops when the loop ends or raises.
CHECK_DEADLOCK FALSE
INVARIANT ResolvesToView
