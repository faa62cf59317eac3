--------------------------- MODULE MC_ConfigServer ---------------------------
(***************************************************************************)
(* An instance of the configuration server: the round-trip description of *)
(* MC_ConfigLoad with a gz035 display added, the kconfig gate of a build   *)
(* with uart, i2c (eeprom), the display and psram, and POSTs that move     *)
(* pins, add and drop flow-control pins and the eeprom wp pin, and fail.   *)
(***************************************************************************)
EXTENDS ConfigServer, MC_ConfigLoad

ServerDocs == { d \o << Gz035 >> : d \in DocsRoundTrip }

ServerEdits ==
    EditsRoundTrip \cup { <<"rcc", EmptyDict>>, <<"gz035_spi", ("ledpinnum" :> 30)>> }

(* The session's POSTs and one more: uart0 set to rts flow control with an *)
(* rts pin outside RtsTable.                                               *)
ServerEditsRestart ==
    ServerEdits \cup { <<"uart0", ("flowctrl" :> 1) @@ ("pinrts" :> 7)>> }

ServerGate == {"uart", "i2c", "gz035", "psram"}
====
