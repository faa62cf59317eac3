----------------------------- MODULE ConfigModel -----------------------------
(***************************************************************************)
(* The Device Config Model behind the device-configuration web server     *)
(* (tools/devconf/devconf.py serving a single ConfigHelper of             *)
(* tools/devconf/config_helper.py with waitress, threads=8, no lock).     *)
(* Each server thread handles one request at a time:                      *)
(*   - POST /wmdt/index for Uart0: get_uart_config returns the shared     *)
(*     uart0_config_data dict, the handler writes the form's fields into  *)
(*     it one by one, and set_uart_config copies them into the uart0 item *)
(*     of the document, persists the whole document (update_config_file)  *)
(*     and rebuilds the pin table (set_devices_pin);                      *)
(*   - POST /wmdt/index for Timer0: the same for timer0_config_data and   *)
(*     its init priority;                                                 *)
(*   - GET /wmdt/chip: get_devices_pin, the pin table as it is.           *)
(* A uart record is abstracted to its baud rate and TX pin (the RX pin,   *)
(* parity, stop bits and init level follow the same pattern); flow        *)
(* control is "none".  The kconfig file enables uart.                     *)
(***************************************************************************)
EXTENDS Integers, FiniteSets, TLC

CONSTANTS
    Threads,      \* waitress worker threads
    Bauds,        \* baud rates a form may carry
    FormPins,     \* TX pins a form may carry
    Prios,        \* timer init priorities a form may carry
    MaxRequests   \* bound on the requests served

VARIABLES
    rec,      \* uart0_config_data: [baud, pintx]
    trec,     \* timer0_config_data: the init priority
    doc,      \* self.config: the uart0 and timer0 items of the document
    file,     \* the toml file on disk
    pinmux,   \* self.pinmux: set of <<pin, device, role>> claims
    pc,       \* per thread: the step its request is at
    form,     \* per thread: the form of the request it serves
    before,   \* per thread: the uart0 item when its set_uart_config began
    served,   \* the last pin table GET /wmdt/chip returned
    reqs,     \* number of requests begun
    posted,   \* history: the uart records of the forms posted so far
    failed    \* history: some set_uart_config raised

vars == <<rec, trec, doc, file, pinmux, pc, form, before, served, reqs, posted, failed>>

(* set_uart_config: the TX pins of the chip and their IOMUX functions. *)
TxPinFun ==
    (2 :> "fun2") @@ (5 :> "fun1") @@ (8 :> "fun2") @@ (12 :> "fun2") @@
    (16 :> "fun3") @@ (18 :> "fun3") @@ (20 :> "fun3") @@ (22 :> "fun1") @@
    (34 :> "fun1") @@ (35 :> "fun1") @@ (43 :> "fun2")

NumPins == 46   \* set_devices_pin: range(46)

UartItem == [baud : Bauds, pin : FormPins, fun : {TxPinFun[p] : p \in DOMAIN TxPinFun}]
Doc      == [uart0 : UartItem, timer0 : Prios]
UartForm == [kind : {"uart"}, baud : Bauds, pintx : FormPins]
TimerForm == [kind : {"timer"}, prio : Prios]
NoForm   == [kind |-> "none"]
NoRead   == {<<-1, "none", "none">>}

(* set_devices_pin: the claims of the document's devices (uart enabled). *)
PinTable(d) == {<<d.uart0.pin, "uart0", "UART0_TX">>}

TypeOK ==
    /\ rec \in [baud : Bauds, pintx : FormPins]
    /\ trec \in Prios
    /\ doc \in [uart0 : [baud : Bauds, pin : FormPins, fun : STRING], timer0 : Prios]
    /\ file \in [uart0 : [baud : Bauds, pin : FormPins, fun : STRING], timer0 : Prios]
    /\ pinmux \subseteq (0..NumPins - 1) \X {"uart0"} \X {"UART0_TX"}
    /\ reqs \in 0..MaxRequests
    /\ failed \in BOOLEAN

----------------------------------------------------------------------------
(* ConfigHelper.__init__: the document loaded, the uart0 record copied   *)
(* from it, the pin table built (a kconfig file is given).                *)
Init ==
    /\ doc \in {d \in Doc : d.uart0.pin \in DOMAIN TxPinFun /\ d.uart0.fun = TxPinFun[d.uart0.pin]}
    /\ rec = [baud |-> doc.uart0.baud, pintx |-> doc.uart0.pin]
    /\ trec = doc.timer0
    /\ file = doc
    /\ pinmux = PinTable(doc)
    /\ pc = [t \in Threads |-> "idle"]
    /\ form = [t \in Threads |-> NoForm]
    /\ before = [t \in Threads |-> doc.uart0]
    /\ served = NoRead
    /\ reqs = 0
    /\ posted = {rec}
    /\ failed = FALSE

Goto(t, s) == pc' = [pc EXCEPT ![t] = s]

(* wmdt_index, a Uart0 POST: get_uart_config hands out the shared dict. *)
StartUart(t, f) ==
    /\ pc[t] = "idle" /\ reqs < MaxRequests
    /\ Goto(t, "u_form_baud")
    /\ form' = [form EXCEPT ![t] = f]
    /\ reqs' = reqs + 1
    /\ posted' = posted \cup {[baud |-> f.baud, pintx |-> f.pintx]}
    /\ UNCHANGED <<rec, trec, doc, file, pinmux, before, served, failed>>

(* data['baud'] = int(request.form.get("baud")) *)
UFormBaud(t) ==
    /\ pc[t] = "u_form_baud"
    /\ rec' = [rec EXCEPT !.baud = form[t].baud]
    /\ Goto(t, "u_form_pintx")
    /\ UNCHANGED <<trec, doc, file, pinmux, form, before, served, reqs, posted, failed>>

(* Mutant of UFormPintx: the baud field copied into pintx. *)
UFormPintxSwapped(t) ==
    /\ pc[t] = "u_form_pintx"
    /\ rec' = [rec EXCEPT !.pintx = form[t].baud]
    /\ Goto(t, "u_set_baud")
    /\ UNCHANGED <<trec, doc, file, pinmux, form, before, served, reqs, posted, failed>>

(* data['pintx'] = int(request.form.get("pintx")) *)
UFormPintx(t) ==
    /\ pc[t] = "u_form_pintx"
    /\ rec' = [rec EXCEPT !.pintx = form[t].pintx]
    /\ Goto(t, "u_set_baud")
    /\ UNCHANGED <<trec, doc, file, pinmux, form, before, served, reqs, posted, failed>>

(* set_uart_config: item["uart_cfg"]["baudrate"] = config_data["baud"] *)
USetBaud(t) ==
    /\ pc[t] = "u_set_baud"
    /\ doc' = [doc EXCEPT !.uart0.baud = rec.baud]
    /\ before' = [before EXCEPT ![t] = doc.uart0]
    /\ Goto(t, "u_set_pin")
    /\ UNCHANGED <<rec, trec, file, pinmux, form, served, reqs, posted, failed>>

(* item["pin_cfg"][0]["pin"] = config_data["pintx"] *)
USetPin(t) ==
    /\ pc[t] = "u_set_pin"
    /\ doc' = [doc EXCEPT !.uart0.pin = rec.pintx]
    /\ Goto(t, "u_set_fun")
    /\ UNCHANGED <<rec, trec, file, pinmux, form, before, served, reqs, posted, failed>>

(* Mutant of USetFun: the function left as it was. *)
USetFunStale(t) ==
    /\ pc[t] = "u_set_fun"
    /\ rec.pintx \in DOMAIN TxPinFun
    /\ Goto(t, "dump")
    /\ UNCHANGED <<rec, trec, doc, file, pinmux, form, before, served, reqs, posted, failed>>

(* item["pin_cfg"][0]["fun"] = tx_pin_func[tx_pin_num.index(              *)
(* config_data["pintx"])], which reads the dict again.                    *)
USetFun(t) ==
    /\ pc[t] = "u_set_fun"
    /\ rec.pintx \in DOMAIN TxPinFun
    /\ doc' = [doc EXCEPT !.uart0.fun = TxPinFun[rec.pintx]]
    /\ Goto(t, "dump")
    /\ UNCHANGED <<rec, trec, file, pinmux, form, before, served, reqs, posted, failed>>

(* The same line with a pin outside tx_pin_num: ValueError ends the      *)
(* request with the item half updated and nothing persisted.             *)
USetFunFail(t) ==
    /\ pc[t] = "u_set_fun"
    /\ rec.pintx \notin DOMAIN TxPinFun
    /\ failed' = TRUE
    /\ Goto(t, "idle")
    /\ UNCHANGED <<rec, trec, doc, file, pinmux, form, before, served, reqs, posted>>

(* wmdt_index, a Timer0 POST. *)
StartTimer(t, f) ==
    /\ pc[t] = "idle" /\ reqs < MaxRequests
    /\ Goto(t, "t_form")
    /\ form' = [form EXCEPT ![t] = f]
    /\ reqs' = reqs + 1
    /\ UNCHANGED <<rec, trec, doc, file, pinmux, before, served, posted, failed>>

(* data['initpriority'] = int(request.form.get("initpriority")) *)
TForm(t) ==
    /\ pc[t] = "t_form"
    /\ trec' = form[t].prio
    /\ Goto(t, "t_set")
    /\ UNCHANGED <<rec, doc, file, pinmux, form, before, served, reqs, posted, failed>>

(* set_timer_config: update_init_cfg(config_data, item). *)
TSet(t) ==
    /\ pc[t] = "t_set"
    /\ doc' = [doc EXCEPT !.timer0 = trec]
    /\ Goto(t, "dump")
    /\ UNCHANGED <<rec, trec, file, pinmux, form, before, served, reqs, posted, failed>>

(* update_config_file: tomlkit.dump(self.config, fp) *)
Dump(t) ==
    /\ pc[t] = "dump"
    /\ file' = doc
    /\ Goto(t, "pin_reset")
    /\ UNCHANGED <<rec, trec, doc, pinmux, form, before, served, reqs, posted, failed>>

(* set_devices_pin: self.pinmux = {} and the empty table of 46 pins. *)
PinReset(t) ==
    /\ pc[t] = "pin_reset"
    /\ pinmux' = {}
    /\ Goto(t, "pin_fill")
    /\ UNCHANGED <<rec, trec, doc, file, form, before, served, reqs, posted, failed>>

(* set_devices_pin: the loop over self.config["dev"]. *)
PinFill(t) ==
    /\ pc[t] = "pin_fill"
    /\ pinmux' = PinTable(doc)
    /\ Goto(t, "idle")
    /\ UNCHANGED <<rec, trec, doc, file, form, before, served, reqs, posted, failed>>

(* wmdt_chip: get_devices_pin, rendered as it is. *)
ReadPins(t) ==
    /\ pc[t] = "idle" /\ reqs < MaxRequests
    /\ served' = pinmux
    /\ reqs' = reqs + 1
    /\ UNCHANGED <<rec, trec, doc, file, pinmux, pc, form, before, posted, failed>>

Next ==
    \E t \in Threads :
        \/ \E f \in UartForm : StartUart(t, f)
        \/ \E f \in TimerForm : StartTimer(t, f)
        \/ UFormBaud(t) \/ UFormPintx(t) \/ USetBaud(t) \/ USetPin(t)
        \/ USetFun(t) \/ USetFunFail(t)
        \/ TForm(t) \/ TSet(t)
        \/ Dump(t) \/ PinReset(t) \/ PinFill(t)
        \/ ReadPins(t)

Spec == Init /\ [][Next]_vars

----------------------------------------------------------------------------
Quiescent == \A t \in Threads : pc[t] = "idle"

(* When every request has completed and no set_uart_config raised, the   *)
(* file holds the document, the document's uart0 item holds the record   *)
(* Get returns with the IOMUX function of its TX pin, and the pin table   *)
(* is the one of the document: each handler's own writes are followed by *)
(* its own dump and set_devices_pin, whatever the interleaving.           *)
QuiescentAgreement ==
    Quiescent /\ ~failed =>
        /\ file = doc
        /\ doc.uart0.baud = rec.baud /\ doc.uart0.pin = rec.pintx
        /\ doc.uart0.fun = TxPinFun[doc.uart0.pin]
        /\ pinmux = PinTable(doc)

(* Spec 5: concurrent Set calls are serialized, so when every request has *)
(* completed the uart0 record is the record of one posted form, not a     *)
(* mix of two (the handlers write the shared dict field by field).        *)
NoTornRecord == Quiescent => rec \in posted

(* Spec 7: a Set that fails on an unrecognized value leaves the model as *)
(* it was when the Set began.                                            *)
FailedSetLeavesModel ==
    [][\A t \in Threads : pc[t] = "u_set_fun" /\ pc'[t] = "idle" => doc.uart0 = before[t]]_vars

(* get_devices_pin never serves a pin table without the claims of the    *)
(* devices in the document (uart0 always claims its TX pin).             *)
ReaderSeesClaims == served = NoRead \/ \E c \in served : c[2] = "uart0"

====
