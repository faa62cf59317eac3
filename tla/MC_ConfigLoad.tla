---------------------------- MODULE MC_ConfigLoad ----------------------------
(***************************************************************************)
(* Instances of ConfigLoad: small descriptions and the POSTs of the web    *)
(* tool's forms on them.                                                   *)
(***************************************************************************)
EXTENDS ConfigLoad

Init0(n, lv) == [dev_name |-> n, level |-> lv, prio |-> 0]

UartItem(n, par, db, fl, pins, dma) ==
    [dev_name |-> n, level |-> "app", prio |-> 0, baud |-> 115200, parity |-> par,
     stop_bits |-> 1, data_bits |-> db, flow |-> fl, pins |-> pins, dma |-> dma]

Rcc(lv) == [dev_name |-> "rcc", level |-> lv, prio |-> 0,
            clocks |-> << <<"cpu", 240>>, <<"wlan", 160>> >>]

Eeprom0 == [dev_name |-> "eeprom0", level |-> "app", prio |-> 0, addr |-> 80,
            read_only |-> FALSE, wp |-> <<>>]

Gz035 == [dev_name |-> "gz035_spi", level |-> "app", prio |-> 0, mode |-> 0, freq |-> 60000000,
          cs |-> 14, reset |-> 26, dcx |-> 27, led |-> 28, te |-> 29]



(* Round trip: uart0 with rts flow control, eeprom0, rcc and timer0. *)
DocsRoundTrip ==
    { << Rcc("app"), UartItem("uart0", "even", 8, "rts", <<22, 23, 20>>, FALSE), Eeprom0, Init0("timer0", "system") >> }

EditsRoundTrip ==
    { <<"uart0", EmptyDict>>,
      <<"uart0", ("flowctrl" :> 3) @@ ("pincts" :> 21)>>,
      <<"uart0", ("flowctrl" :> 0) @@ ("enable_dma" :> 1)>>,
      <<"uart0", ("pintx" :> 7)>>,
      <<"eeprom0", EmptyDict>>,
      <<"eeprom0", ("i2c_addr" :> <<"0", "X", "5", "1">>) @@ ("enable" :> 1) @@ ("wppinnum" :> 30)>>,
      <<"eeprom0", ("i2c_addr" :> <<"5", "a">>)>>,
      <<"eeprom0", ("i2c_addr" :> <<"0", "x">>)>>,
      <<"rcc", ("clk_div_cpu" :> 4)>>,
      <<"timer0", ("initlevel" :> 0) @@ ("initpriority" :> 1)>> }

(* gz035 with a TE pin, and a POST that turns TE off. *)
DocsTe  == { << Gz035 >> }
EditsTe == { <<"gz035_spi", ("tepinnum" :> -1)>> }

(* uart3 with rts and cts, and a POST that moves cts to pin 3 (fun4). *)
DocsCts  == { << UartItem("uart3", "none", 8, "rts_cts", <<12, 3, 20, 21>>, FALSE) >> }
EditsCts == { <<"uart3", ("pincts" :> 3)>> }
(* rcc started at system level, and its form posted unchanged. *)
DocsRcc  == { << Rcc("system") >> }
EditsRcc == { <<"rcc", EmptyDict>> }

(* A uart0 POST with a TX pin outside the table, then a timer0 POST. *)
DocsPartial  == { << UartItem("uart0", "none", 8, "none", <<22, 23>>, FALSE), Init0("timer0", "app") >> }
EditsPartial == { <<"uart0", ("baud" :> 9600) @@ ("pintx" :> 7)>>, <<"timer0", EmptyDict>> }

(* The three round-trip cases together: TE off, uart3 cts moved to 3, rcc *)
(* at system level.                                                        *)
DocsReload  == DocsTe \cup DocsCts \cup DocsRcc
EditsReload == EditsTe \cup EditsCts \cup EditsRcc
====
