\* The table set_devices_pin leaves is the pin view of spec 4.3, for every
\* description of up to two devices and two kconfig gates.
CONSTANTS
    Docs <- MCDocs
    Gates <- MCGates
SPECIFICATION Spec
\* set_devices_pin is one call: it stops when the loop ends or raises.
CHECK_DEADLOCK FALSE
INVARIANTS TypeOK ResolvesToView
