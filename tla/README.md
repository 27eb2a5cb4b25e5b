# A specification of the CST base station

This directory specifies the programs of this repository in TLA+: the firmware of the charging station for
the CST-01 watch, in its first version (`firmware/CST-Base_Station_1454.X`) and in the version with USB
(`firmware/cstbase-hid`), the library and the command line programs that talk to it from a host
(`host/cstbase-lib`), and what they use of the copy of hidapi kept there. TLC checks each module on a small
instance. For all components but the two that face the USB, TLAPS proves their invariants for every value of
the constants.

    tlc -config MCChargeControl.cfg MCChargeControl     # one run
    tlapm ChargeControlProofs.tla                       # the proofs about one module

Paths below are relative to `src/`. `main.c`, `uart_funcs.h` and `usb_device.c` are those of
`firmware/cstbase-hid`, `hidapi/` is `host/cstbase-lib/hidapi/`, unless said otherwise.

## 1. The system

    watch <--2048 baud, one wire each way--> EUSART --- interrupt routine --- main loop --- keys, LED, 5/12 V
                                                            |
                                      USB SIE --- usb_device.c <--- EP0 feature reports ---> hidapi <--- library <--- program
                                     (shared buffer descriptors)                            (or hiddata)         <--- program

The firmware has two contexts and no locks. The *main loop* (`main.c:146`) runs `updateState`, `handleKeys`
and the watchdog. The *interrupt routine* (`ISRCode`, `main.c:269`) calls `USBDeviceTasks`, notes timer
overflows and compares the bytes of the watch. A report of the host is handled (`handleMessage`,
`main.c:511`) inside the interrupt routine, below `USBDeviceTasks`, and may busy-wait there for the UART.
The SIE is a third party, running in hardware at the same time. On the host each program is one thread, but
several run at once, stations are plugged in and out below them, and two of the backends of hidapi start a
read thread for each open device.

| Component | State | Operations | Talks to |
|---|---|---|---|
| UART transmit (`uart_funcs.h`) | TXREG, shift register | `uart_putc`, `uart_puts`, from both contexts | watch; clears `timeOutCounter` |
| UART receive (`main.c:288`) | receive FIFO, `lastRxByte` | one pass of `ISRCode` | charging, host command `R` |
| charging, LED, power-down (`main.c:269-355`) | `timeOutCounter`, `batteryCounter`, `batteryCharged`, `PWM2DCH`, `LEDdirection`, `RC2`, `TMR0IE`, `timeToUpdateState` | timer overflow; `H`, `B`, `N` of the watch; `updateState` | watch (`T`), keys, host |
| key handler (`main.c:358-490`) | `i` (static), `modeButtonPressed`, locals of the counts | `handleKeys`, `countStepsRA3/4` | UART, 5 V supply |
| first firmware (`CST-Base_Station_1454.X/main.c`) | the same, `i` not kept | one interrupt routine that does the update; key loop | watch |
| control endpoint (`usb_device.c`) | buffer descriptors and UOWN bits, ping-pong pointers, `controlTransferState`, pipes, status stage flags and time-out | setup, OUT and IN handlers, frame start, stall, bus reset | SIE and host, `handleMessage` |
| device states (`usb_device.c`, `main.c`) | `USBDeviceState`, `U1ADDR` | attach, reset, suspend, wake-up | control endpoint |
| report commands (`main.c:499-563`) | `CtrlTrfData`, `hid_send_buf` | `T`, `S`, `R`, `b`, `v` | UART, time-out, EP0 |
| host library (`cstbase-lib.c`, `...-hidapi.h`) | `cstbase_infos`, `cstbase_cached_count` | enumerate, open by path/serial/index, close; write, read, one function per command | hidapi |
| library over hiddata (`...-hiddata.h`, `hiddata.c`) | `static_dev` | the same calls, one handle, no slots | libusb-0.1 |
| programs (`cstbase-tool.c`, `cstbase-timeset.c`) | options, `dev`, the loop over the devices to use | parse `--id`; set the time of one or more stations, ask, version | host library |
| hidapi, enumeration (`hidapi/{libusb,mac,linux,windows}/hid.c`) | none | `hid_enumerate`, `hid_open`, `hid_open_path`, `hid_exit` | system |
| hidapi, input reports (the same files) | list of reports, `shutdown_thread`, transfer, run loop, barriers, overlapped read | open, read with and without time-out, close; the read thread and its callbacks | system, device |

What is hard in it, and would hardly be met by a test (`PROJECT.json` lists each at its line):

* **two contexts, no lock.** `uart_putc` waits and then writes; a whole host command can be sent between the
  two. `updateState` tests `timeOutCounter` and acts three statements later, and its increment is two
  instructions.
* **firmware and SIE share descriptors.** Every descriptor handed over can be used before the next
  statement. A new SETUP, a reset or a lost ACK may come in the middle of any transfer, and both sides keep
  a ping-pong pointer of their own.
* **what must happen in the end.** 5 V must go back to 12 V, a station left alone must go to sleep, a status
  stage must not be refused for ever, busy waits must end.
* **state that outlives its use.** The static repeat count, the pending address, the handles in the slots of
  the cache.
* **several processes on the host** between the two halves of an exchange, and calls that fail.
* **stations come and go** between an enumeration and the opening that relies on it, and paths, handles and
  serial numbers outlive the list they came from.
* **a read thread and its caller** meet over a mutex, a condition, a cancelled transfer, a barrier; the
  device may vanish at any of these points.
* **a silent bus.** Suspend, wake-up and reset overlap with each other and with a handler that sends for
  longer than any of them lasts.

What makes each component correct:

* transmit: lossless and in order, host commands in one piece, every call returns;
* charging: sleep only when no `H` was heard and nothing sent for the whole time-out, 5 V only to measure,
  one question a cycle, no LED pulse from a sleeper, a steady LED when full; in the end a measurement and
  the wakefulness end;
* keys: no press invented, never two `M` for one press and one for each press whose start a look sees, steps
  and combinations after the time the code names;
* EP0: always ready for the next SETUP, data whole and in order, each report handled exactly once and from
  its own bytes, only unknown requests stalled, address only by SET_ADDRESS, transfers end;
* device states: awake when the bus is, every reset served, whatever it interrupts;
* host: no dangling handle, a handle's slot names its station, the station opened is the one asked for but
  in two named cases, an answer is that of one's own question, a failure is reported, the programs set the
  stations named and use no dead handle;
* hidapi: reports in order and none twice, a read fails only with a cause (the device is gone, or a call of
  the system failed), close frees what is in use only in the ways named, every call returns.

## 2. The modules

| Module | Models | Abstract or detailed |
|---|---|---|
| `SerialLine` | what the watch may rely on: a lossless line of two bytes | abstract specification |
| `UartTx` | `uart_putc` called by both contexts over TXREG and the shift register | implements `SerialLine` |
| `UartRx` | the receive FIFO and the reads of RCREG in `ISRCode`, beside that | extends `UartTx` |
| `ChargeControl` | `ISRCode`, `updateState`, and the effects of keys and reports on their state | |
| `OriginalStation` | the same in the first firmware, where an update is atomic | abstract update for the next |
| `FaithfulUpdate` | `ChargeControl` beside the first firmware's update | composition |
| `KeyHandler` | `handleKeys`, `countStepsRA3/4`, and the key loop of the first firmware | |
| `Ep0Control` | control transfers: firmware, SIE, wire and host | composition of four parties |
| `UsbDevice` | attach, suspend, wake-up and bus reset around those transfers | extends `Ep0Control` |
| `HidapiEnumerate` | `hid_enumerate`, `hid_open`, `hid_open_path` of four backends, as functions of what the system shows | pure operators |
| `HostCache` | the device cache of the library while stations come and go; any client, crashes and restarts | extends it |
| `HostHiddata` | the library over hiddata: `static_dev` | extends `HostCache` |
| `HostPrograms` | `main` of the two programs over either library, and `hid_exit` | composition of the three |
| `HostExchange` | the exchanges of several processes with one station | composition with `handleMessage` |
| `ReportQueue` | what hidapi promises of input reports: a queue | abstract specification |
| `HidapiDevice` | what the four backends have in common: calls, device, reports | |
| `HidapiLibusb`, `HidapiMac`, `HidapiWindows`, `HidapiLinux` | open, read, close and read thread of each | |
| `HidapiBackends` | one of the four, chosen at the start | implements `ReportQueue` |
| `...Proofs` | theorems about the module of that name | |
| `MC...` | instances for TLC | |

### UartTx and SerialLine
A context is idle or at one of the three steps of `uart_putc`: the wait for `TRMT`, the write of `TXREG`,
and `timeOutCounter=0`. The main loop moves only while the interrupt routine is idle (`Runs`).
`HostCommand(n)` is `handleMessage` with a command of `n` bytes on the wire; `Returns` goes round the loop
of `uart_puts` or of `S`. A byte is where it comes from, context and number of the call. `written` and
`wire` are histories. `ImplementsLine` is the refinement `INSTANCE SerialLine WITH accepted <- written,
delivered <- wire`.

### UartRx
A pass of `ISRCode` that finds `RCIF` set is up to four actions, one for each read of RCREG: `NotesByte`
(`lastRxByte`) and `Compares` with `H`, `B`, `N`. Each read takes a byte from the FIFO if one is there, and
repeats the last if not. While USB, and below it a host command, holds the routine up, bytes of the watch
pile up: two fit, the third sets `OERR`, which nothing clears. A byte may also arrive between two reads.
Both directions have one baud rate, so that `arrived` admits one byte for each that the transmitter shifts
out. `heard` and `alone` are histories. The effect of a letter is in `ChargeControl`, but for the clear of
`timeOutCounter`.

### ChargeControl
One action per statement of `updateState` that reads or writes something the interrupt routine uses too; a
test and the branch it takes are one. The increment of the 16-bit `timeOutCounter` is two actions, low byte
and carry, because the processor has eight bits and the interrupt routine writes zero into it. The test of two
bytes is one action: torn by a reset it can only read a smaller value, as it would after the reset.
`PWM2DCH++` is a single instruction. Interrupt actions are whole passes of `ISRCode` for one event.
`HostSends` and `KeySends` are what a report and a key do to this state. `quiet` counts updates since an `H`
was heard or a byte sent (`HearsFull` and `HearsNotFull` do not start it over, as `B` and `N` leave
`timeOutCounter` alone), `late` says that one came after the test for the time-out, `asked` counts `T` in a
cycle: histories, no guard reads them.

### OriginalStation and FaithfulUpdate
The update of the first firmware is the function `Tick == Count(PowerDown(Battery(Pulse(s))))` of the record
of its registers, since its interrupt routine does it in one go. `putByteUSART`'s clear of the two bytes of
the counter is atomic in the model. `FaithfulUpdate` remembers the state each update of `ChargeControl`
began with and whether an interrupt changed something since, and compares at the end with `Original!Tick`:
`firmware/README.md:29` says the one "tries to be a faithful recreation" of the other.

### KeyHandler
A label is a loop of `handleKeys`; a round of a loop is one action, a millisecond wait a round. Between two
rounds the user presses or releases any key. `CountsRound` pays ten rounds more for a change, as the nested
wait of the debounce does. `KeepsCount` chooses between the static `i` of the firmware with USB and the
`i=0` of the first. `first`, `presses`, `modeWasUp` and `seenUp` are histories: whether the mode key was up
at any time since the last `M`, and whether the last look found it up.

### Ep0Control
A firmware action is the code between two moments at which the SIE can act on what the code wrote, so that
clearing PKTDIS, arming a descriptor and the status stage are separate (`pc` is the place in the interrupt
routine). Bus actions are transactions: SETUP, IN and OUT, answered, stalled or not answered, with their ACK
or without. `ustat` is the FIFO of finished transactions (at most three of its four places are ever used). A
packet's content is the transfer it belongs to (`turn`), its position and its request, not bytes; the model
knows whether a buffer holds the right ones. Requests are a read, a write, SET_CONFIGURATION, SET_ADDRESS
and one that no handler claims. The host may start over at any time, end a write early and reset the bus.
`FrameStarts` is the millisecond that drives the status time-out. The SIE and the host are modelled from how
`usb_device.c` uses the registers (external in the map).

### UsbDevice
The bus falls silent, resumes or is reset whenever the host likes, also while the interrupt routine is busy;
the hardware sets flags of `U1IR`, and the actions of the firmware are the parts of `USBDeviceTasks` in
their order, with the early returns of a suspended and of an unpowered station. A bus reset is two steps:
`BusResets` is what host and SIE do, `ServesReset` what `USBDeviceTasks` does when it gets to it. In between
the station may be sending a command to the watch (`Slow`: 5 ms a byte), so that the host has ended the
reset and begun a new transfer, which serving the reset then wipes out (`erased`). The pass that suspends
goes on and serves what is in the FIFO (`passing`). A host keeps to one repertoire of requests (`Hosts`).

### HidapiEnumerate, HostCache, HostHiddata, HostPrograms
What the system shows is a sequence of nodes, each with its path, serial number and how much of it the process
gets to see (`whole`, `shut`, `nameless`, `partial`); the four backends differ in which of them they list,
with which string, and which they open. `hid_open` enumerates first and opens then: two steps, between which
stations change (`SearchesBySerial`, `OpensBySerial`). `cstbase_infos` has path, serial number and handle of
each slot; enumeration overwrites the first slots and sorts, what is behind stays. On a Mac a station without
transport is listed with an empty path, and the open by it takes the first such station. Paths and handles
(addresses of freed memory) are used again. A crash (a NULL string compared) ends the process; `Restart`
begins the next. In `HostPrograms` each `pc` is a call of the library. `DeviceId` and `NumDevicesToUse` are
the parsing of `--id`: `Strtol` saturates, `Word` is the array of words that `hexread` fills byte by byte.
`orphans` are the handles `hid_exit` has taken the library away from. `current`, `listed`, `done`, `refused`
and `call.undisturbed` (no station has been plugged in at the path found) are histories.

### HostExchange
A question is write, write again (inside `cstbase_read`), read, and any process may be between any two. Each
call of hidapi may fail; a send that fails may have been handled. `Handled` is `handleMessage`: the report
becomes the answer but for the bytes it is about. `owner`, `held` and `outcome` are histories: whose report
came last, what the station held since the call began, how the call ended.

### ReportQueue, HidapiDevice and the backends
Reports are numbered. A label of the application is a place of `hid_open_path`, `hid_read_timeout` or
`hid_close` at which another thread can get in; a critical section of the read thread is one step.

libusb: a transfer is in flight until its callback has been called, and may complete, time out, be cancelled
or lose its device before that. `libusb_handle_events` is called by the read thread and, within the control
transfers that send and ask for feature reports, by the application (`HidFeature`), over the one context;
whichever it is calls the callback of a transfer that is done (`CalledBack`), and the callback is two steps,
between which hid_close may cancel (`queues`, `resubmits`). The call may also return without one
(`EventsReturn`): for a signal, for the event of another device, or because another thread has handled the
transfer. The thread's last call does not look at what it got. A submission may be refused and
`libusb_handle_events` may fail for good with the device there. Mac: the run loop with its two callbacks,
and the two barriers, which wait on their condition without a loop. Windows: the overlapped read that
outlives a call that timed out; `HidClose` asks for its end by `CancelIo`, the system ends it some time later
(`Cancels`), and `CloseFrees` does not wait for that. Linux: `poll` and `read`, either of which may fail for
a signal with the device there. Device and system are the environment: a report, a silence, a plug or an
unplug at any time. The queue of `ReportQueue` is what the library has and then what the system has,
`reports \o os`.

Five histories name what the code does not record, so that the properties say exactly what is left of them.
`failed`: a call of the system failed though the device was there. `missed`: the transfer was done when the
read thread had made its last `libusb_handle_events`. `interrupted`: that last call returned with the
transfer done and its callback not called. `spurious`: `pthread_cond_wait` in a barrier returned with no
signal. `deaf`, of `CallsReturn` only: libusb refused the first transfer, or failed for good.

## 3. The runs

| Run | Checks | Bounds and why they are enough |
|---|---|---|
| `MCUart` | `TypeOK`, `CommandsContiguous`, `HeardUnlessCrowded`, `ImplementsLine`, `AllServed` | three calls, commands up to two bytes: a command falls into every step of a call, and a next call meets both registers full; four bytes of the watch: the FIFO full, overrun, and a byte after it |
| `MCChargeControl` | `TypeOK`, `SleepJustified`, `FiveVoltsOnlyToMeasure`, `OneQuestionPerCycle`, `LedIsTrue`, `RecreatesUpdate`, `EndsByItself` | time-out 5, check 7, wrap 10, bytes of 3 values, LED to 6: the order of 500, 1000, 2000, the time-out behind a carry, the glow inside the pulse; `FaithfulUpdate` runs along, and compares every undisturbed update from every reachable state |
| `MCOriginalStation` | `SleepOnlyAfterTimeOut` | 3, 5, 7 in the same order |
| `MCKeyHandler` | `TypeOK`, `NoPhantomPress`, `OneModePerPress`, `ReturnsWhenReleased` | one repeat at each speed before the last, a hold of three rounds, and a window of seven, in which two debounced presses are counted |
| `MCEp0Control` | `TypeOK`, `ReadyForSetup`, `HandlerReadsItsReport`, `DoneOnBothSides`, `OnlyUnknownStalled`, `DataInOrder` | packets of two, transfers of two and three: one full, one short, one empty packet, as 9 bytes over 8; two frames of time-out, one lost ACK; six requests, each able to break off any other |
| `MCUsbDevice` | `DeviceTypeOK`, `WakesWithTheBus`, `ResetIsServed`, `TransferEnds` | packets of two, one frame of time-out, one lost ACK; three hosts, each with one of the requests that have data or are stalled, which they repeat and break off |
| `MCHostCache` | `ProgramTypeOK`, `NoDanglingHandle`, `SerialForDevRight`, `OpensTheOneAskedFor`, `SetsTheNamed`, `UsesLiveHandle` | two stations in either order, two paths and two handles that are used again, two slots; a serial number beyond a long, lists that make one id of two or name the slot after the last |
| `MCHostExchange` | `TypeOK`, `AnswerInTime` | two processes (symmetric), two bytes, two key states, two failures |
| `MCHidapi` | `TypeOK`, `FailsOnlyForCause`, `CloseSafe`, `ImplementsQueue`, `CallsReturn` | a queue that is full with three reports, four reports: one is dropped; one report in the system; any number of opens, reads, closes, plugs |

Deadlock is checked except in `MCUart`, which stops when its calls and bytes are used up.

What the larger of these properties say. `LedIsTrue`: a sleeping station asks nothing and is dark, or at the
steady glow that a late `B` of the watch has set (`AsleepIsQuiet`), and the glow is steady once the watch said
it is full (`SteadyWhenFull`). `EndsByItself`: wakefulness and measuring both end (`FallsAsleep`,
`MeasuringEnds`). `DoneOnBothSides`: when a host has seen a transfer end, the station has handled its report
exactly once, moved to its address, and sent the data whole. `ImplementsQueue`: the four ways of waiting for a
report are one queue. `TransferEnds`: a host that keeps trying gets to the end of its transfer, unless a reset
or the silence of the bus intervenes. `SetsTheNamed`: `--settime` sets the stations the user named and no
others.

The bounds that are not in the code are named in the modules: `MaxCalls`, `MaxBytes`, `MaxTime` (UartTx),
`MaxReceived` (UartRx), `RepeatBound` (KeyHandler), `Losses` (Ep0Control, UsbDevice), `Hosts` (UsbDevice),
`Failures` (HostExchange), `Reports` and `Pending` (HidapiDevice; `Limit` is the code's 30), `IdLists`
(HostPrograms; `LongMax`, `FullWidth` and `cache_max` are scaled down from the code's).

### Where the code departs from what it says
Each of these runs ends in a counterexample:

| Run | What it shows |
|---|---|
| `MCKeyRepeatKept` | the static count makes a short press step by ten or by an hour, though `main.c:367` says the steps by one last five seconds. With the `i=0` of the first firmware the property holds (theorem `FirstByOne`). The same count is tested for the five seconds of the diagnostic mode (`main.c:431`), which earlier holds shorten too. |
| `MCEp0Abort` | a SET_ADDRESS broken off by another SETUP is completed by the data stage of that one, with its `wValue`, against `usb_device.c:2767` |
| `MCHostReadError` | a failed read is returned as an answer: `rc = (... == -1)`, against `cstbase-lib.c:127` |

Others were met on the way and are in the models as the code has them, without a run of their own; the
properties say what remains true.

* A station goes to sleep although it has just heard a `B` or an `N`: only `H` and bytes it sends start the
  time-out over (`main.c:298-307`). Both firmwares do, and both properties say so.
* `updateState` goes to sleep over an `H` that came between the test of `timeOutCounter` (`main.c:344`) and
  `TMR0IE=0` (`main.c:347`). The first firmware, which this one recreates (`firmware/README.md:29`), never
  does: `SleepOnlyAfterTimeOut`, theorem `SleepsAfterTimeOut`. `SleepJustified` is what remains.
* RCREG is read anew for each comparison (`main.c:289-303`): of two bytes that wait, the first goes to
  `lastRxByte` and the second is compared, so that the first is not heard and the "last byte from watch"
  (`main.c:542`) is not the last. Three bytes during one command overrun the receiver for good
  (`main.c:288`). `HeardUnlessCrowded` is what remains.
* `modeButtonPressed` is cleared only by a look that finds the key up (`main.c:408`): a mode key let go and
  pressed again while another loop of `handleKeys` runs, or the diagnostic mode, sends no second `M`.
* A station whose handler sends a command during a bus reset serves the reset late and loses the transfer
  the host has begun meanwhile (`erased`); the host has to begin again. `TransferEnds` and
  `DoneOnTheBus` except it.
* After another enumeration a slot may hold the handle of another station
  (`cstbase-lib-lowlevel-hidapi.h:23`, against `cstbase-lib.c:28`); `SerialForDevRight` is stated until the
  next one.
* `hid_open` may open another station than the one with the number asked for: one plugged in at the path
  found, between its two steps, and on a Mac, where a station without transport has an empty path
  (`hidapi/mac/hid.c:341`), the first station without transport (`:708`). `OpensTheOneAskedFor` excepts
  these two, and only them.
* `hid_open` compares the string of each listed station with `wcscmp`, and one that cannot be read has NULL
  (`hidapi/libusb/hid.c:621`, `hidapi/windows/hid.c:523`): the process crashes, which ends every obligation.
* `--id 0,1` is the id 256 (`cstbase-tool.c:185`), and a serial number of eight digits is `LONG_MAX` where
  long has 32 bits (`:180`): the first open fails and the program ends. `SetsTheNamed` shows that such an
  option never has a station set that was not named. `--all` sets only the first station, since nothing
  reads `openall` (`:156`, against the usage, `:71` and `:11`).
* Over hiddata an open that fails returns the handle closed last (`cstbase-lib-lowlevel-hiddata.h:158`);
  `UsesLiveHandle` excepts it, and only it.
* A read answers -1 with the device there when `poll` or `read` is interrupted by a signal
  (`hidapi/linux/hid.c:685`, `:698`), and for ever after once libusb has refused a submission
  (`hidapi/libusb/hid.c:700`). `FailsOnlyForCause` names these causes beside the loss of the device.
* `hid_close` of libusb may free the transfer in flight. If it was completed and is no longer cancellable,
  the read thread makes no further `libusb_handle_events` (`hidapi/libusb/hid.c:753`, `missed`); if it is, the
  thread makes exactly one, which may return without the callback (`:755`, `interrupted`). `hid_close` of
  Windows frees the buffer of a read that it has cancelled and not waited for
  (`hidapi/windows/hid.c:792`), if the last read had timed out. On a Mac the barrier may let one side through
  alone (`hidapi/mac/hid.c:88`, `spurious`). `CloseSafe` excepts these, and only these.
* A first submission that libusb refuses, or a fatal error, leaves readers waiting for ever
  (`hidapi/libusb/hid.c:728`, `:746`, `deaf`), which `CallsReturn` excepts.
* The byte 255 of the watch comes back as -1, the error (`cstbase-lib.c:129`, `AsChar`). Over hiddata the
  calls answer 1 or a positive error code where hidapi answers -1.

Hazards known beyond the list of `PROJECT.json`: a tick lost or pending at the end of an update
(`main.c:353`), a `B` between two steps of the pulse (`:300`), the duty cycle of eight bits (`:324`):
`LedIsTrue` and `TypeOK` cover these. The 16-bit repeat count that overflows (`main.c:365`). 5 V cut short
by a `B` or `N` in the diagnostic mode (`main.c:433`), which no text forbids. A control write ended early is
handled with old bytes in `CtrlTrfData` (`usb_device.c:2838`), and a report of nine bytes is received in two
packets over one place (`main.c:1016`). `RemoteWakeup` survives a reset (`usb_device.c:2985`), and nothing
reads it but GET_STATUS. An id equal to `cstbase_max_devices` and a seventeenth station lie outside the
cache (`cstbase-lib-lowlevel-hidapi.h:94`, `:23`): the first is in `CachedPath`, the second excluded by
`CacheAssumption`. `hid_read` of Windows returns more bytes than it copied (`hidapi/windows/hid.c:720`),
that of Linux chops a byte off an empty report (`hidapi/linux/hid.c:707`): the models have no lengths. On a
Mac, a device that is unplugged between the test of `disconnected` and the close (`hidapi/mac/hid.c:999`).

### Fairness
* `UartRx`: the interrupt routine is entered while `RCIF` is set; the shift register shifts (a clock drives
  it) and each context executes. The main loop's steps are disabled in the interrupt routine, so weak
  fairness asks only that it moves when the routine is left for good; that holds as the number of commands
  is bounded.
* `ChargeControl`: `Update` (the processor), the timer while it is on, and that keys are let go and the
  three seconds of the diagnostic mode end. Nothing is assumed of watch and host.
* `KeyHandler`: the processor; the property has the keys let go as its premise.
* `Ep0Control` (the specification of `MCEp0Abort`) and `UsbDevice`: the interrupt routine runs, frames start
  every millisecond of traffic, and a host that waits retries its token. That a host starts something new,
  resumes or ends a reset is never assumed. `ServesReset` is strongly fair, because a pass of
  `USBDeviceTasks` tests the reset flag before it serves at most four transactions: those that keep coming
  cannot put it off for ever.
* `HidapiBackends`: a thread that can go on does, and a call under way goes on. For the read threads of libusb
  and Mac it is strong fairness: a step that needs the mutex is disabled again and again by a caller that
  polls, and a mutex is given to a thread that waits for it. `libusb_handle_events` returns, and called again
  and again it calls the callback of a transfer that is done; that too is strongly fair, because calls that
  return for another reason come in between. In Windows, a report that is there and the loss of the device end
  a read that is under way. Nobody need call, the device need not send, and time-outs need not come.

No run of a safety property depends on fairness.

## 4. The proofs

Each proof module states an inductive invariant (`IInv`; in `UsbProofs` `Transfer` and `Safe`), proves that
it holds at first and is kept by each action, and draws the properties from it. The assumptions are the
`ASSUME` of each module, evaluated by TLC on its instance.

* **UartProofs.** `NoByteLost` (what was written is what came out followed by what is in the registers) is not
  inductive: it needs that a context about to write still finds `TXREG` free. For the interrupt routine the
  shift register is empty, since nobody runs in between. For the main loop only `TXREG` is: a whole command
  may have been sent since its wait, but the routine leaves `uart_putc` only after its own wait and write, and
  that wait ends with both registers empty, so `TXREG` is free after it. `Contiguous` needs that numbers of
  calls are used once and that the command under way is at the end (`Numbers`). Theorems of `Spec`:
  `TypeCorrect`, `NothingLost`, `CommandsStayTogether`, and `LineImplemented`, the refinement. `TxPart` shows
  that a step of the station with its receiver is, for the transmitter, one of its own steps or a stutter, so
  that the same holds of `RxSpec` (`StationTypeCorrect`, of both modules' variables,
  `StationCommandsStayTogether`, `StationLineImplemented`). For the receiver, `HeardUnlessCrowded` speaks of
  the time between two passes; what makes it inductive are three facts about the middle of one: the bytes in
  the FIFO rise above the one RCREG shows (`Ordered`), a pass reads a byte younger than all heard before it
  and ends when it has heard one (`Heard`), and a byte no other came near either waits alone or is what every
  read of the pass returns, and is none of the letters asked for so far (`Lone`). `LoneByteHeard`.
* **ChargeControlProofs.** `Counter`: the counter stays at or below the time-out, and less than one low byte
  ahead of `quiet`, also in the middle of an increment, where a reset leaves a carry behind. `Cycle`: which
  labels of the update know what about `batteryCounter` and the question. `Timer`, `Led`: what a sleeping
  station may show. From these: `SleepIsJustified` (the time-out without an `H` or a byte sent, but for an `H`
  or byte after the test), `SupplyReturns`, `AskedOnce`, `LedTrue`, `TypeCorrect`. For `FaithfulUpdate`,
  `Progress` says, for each label of an undisturbed update, which part of `Tick` of the starting state has
  been made. `UpdateRecreated`: the two firmwares agree on every update, for every time-out, cycle, byte width
  and brightness.
* **OriginalStationProofs.** The counters stay inside their cycles and the time-out is not ahead of `quiet`,
  the updates since an `H` was heard or a byte sent: `SleepsAfterTimeOut`, `AwaitsAnswer`, `SleepsDark`,
  `TypeCorrect`.
* **KeyHandlerProofs.** A count and the press it has yet to see do not exceed the presses of the key; the mode
  flag is down only when the key was up, and is down when the last look found it up; together, never two `M`
  for a press and one for each press whose start a look sees (`OneMode`). `NoneInvented`, `TypeCorrect`, and,
  with `KeepsCount = FALSE`, `FirstByOne`.
* **HostExchangeProofs.** `FromThisCall`: past its first write, a process that still owns the buffer finds
  in it an answer of this call, whether the second send failed or not. `AnsweredInTime`, `TypeCorrect`, for
  any number of processes and failures.
* **HidapiProofs.** The four backends are proved one by one (`LInv`, `MInv`, `WInv`, `XInv`) over what they
  share. `QueueOK`: the reports that wait, in the library and then in the system, have rising numbers above
  that of the report read last. Every step of every backend does one of six things to those two queues
  (`QueueStep`), and each of the six is a step of `ReportQueue` or a stutter; so `QueueImplemented`. A read
  returns the head, a time-out or an error (`Answers`), and the error only if the device is gone or a call of
  the system failed: for libusb and mac that needs the reason why `shutdown_thread`, `disconnected` or a
  cancelled transfer is there (`LReason`, `MReason`), for Windows that a pending read is the one the library
  remembers (`WRead`) and what the buffer holds (`WBuffer`). That no report is lost needs, now that either
  thread may call the callback, that one callback runs at a time and the report it carries is still with the
  system (`Carried`, `OneReport`). `CloseSafe` needs where two threads are relative to each other: at which
  labels of the read thread a transfer can be in flight (`LTransfer`), and that one that is done is yet to be
  called back, or was missed or left (`LSeen`); for Windows, that a read outlives its call only if that timed
  out (`WRead`); for each place of the application, where the thread of mac is and who waits at which barrier
  (`MMeeting`, unless a barrier has leaked). `NoFalseFailure`, `ClosesSafely`, `TypeCorrect`,
  `QueueImplemented`, for any number of reports, limit of the list and number held by the system.
* **HostProofs.** What a backend lists is true: each path and each string belongs to a station plugged in
  (`NodesAreTrue`, `EntriesAreTrue`), a search finds an entry with the number asked for, and what is opened by
  a path is the station there. So the slots that `cstbase_enumerate` filled tell of stations plugged in until
  something is plugged (`SlotsFresh`), which the sort keeps because it moves slots injectively (`SortMoves`);
  the station at the path `hid_open` has found, between its two steps, is the one asked for unless one was
  plugged in at that path since, or the path is empty (`CallOK`); and only one slot has a given handle
  (`NoDanglingHandle` itself), without which a handle opened anew could be found in a slot left from another.
  For the programs, `Holds`: there is at most one open handle at a time and it is `dev`, so that a `hid_exit`
  never finds another to orphan, and `Loops`: the index stays below the number of devices to use, which
  `Numbers` bounds for every value `strtol` and `hexread` can make. `CachePointsAtOpenHandles`,
  `SerialOfTheStation`, `RightStationOpened`, `HandlesLive`, `TypeCorrect`, for any stations, also with equal
  serial numbers, any paths, handles, slots and lists, over each backend. `CacheAssumption` asks that there
  are no more stations than slots, as in the model, and that the value for "none" is none of the others.

  `SetsThoseNamed` needs an invariant of the loop of `--settime` (`AimInv`). `Meant(n)` is the station the
  user means by the number `n`, a slot's or the one with that serial number; `Aimed(k)` is what the number
  in the k-th word means. `Searching`: an open in progress looks for the serial number in the word at hand.
  `AimsRight`: while the slots are those of the last enumeration and no open was refused, the open handle is
  that of `Aimed(i)`, and the stations set are those aimed at before it. `Blank` and `Ways`: what the labels
  leave unset, and which commands come by which label. What remains is about numbers. One serial number
  aims at the station meant (`SingleAim`). In a list, four bytes make a word, and a word that is an index is
  its own first byte, so that either every word aims at a slot of the list, or the loop comes to a word that
  no station answers to, and stops (`AimedAreNamed`, `NamedAreAimed`).

  The hypothesis is `NumbersApart`. An index is a byte: the code has sixteen slots (`cstbase-lib.h:18`). No
  serial number is an index, which no number from `cstbasemk2_serialstart` on (`cstbase-lib.h:24`) is, nor
  what four bytes of a list make: the largest that four indices make is `0F0F0F0F`, which is below it, but a
  user may write larger bytes, for no slot, and these the hypothesis keeps from making a serial number. Two
  stations have two numbers, and what `strtol` makes of one is not another's: where long has 32 bits, no
  station is `LONG_MAX`. Equal numbers would leave it true that only stations named are set, but not that all
  of them are. Numbers with leading zeros need no assumption, because their open is refused. `MCHostCache`
  assumes `NumbersApart` of its instance, so that TLC shows that it can be met.

* **UsbProofs**, about `Ep0Control` and `UsbDevice`. The obvious invariants are far from inductive: that the
  SIE owns the descriptor it uses next rests on where the firmware's pointers will be when it has served
  what waits in the FIFO, and what waits there rests on what was armed, and why. The invariant `Transfer`
  has, besides the types, three parts.
  - `DeviceOK` is about the station alone. `FifoOK`: no transaction waits twice, a SETUP is the last, and
    none but a SETUP follows the status stage of a control write. `InOK`: one IN packet at a time, at
    `inPtr`. `OutOK`: a descriptor of the SIE is there for a SETUP, for the data the pipe still expects
    (`ArmedForData`) or for the status stage of a read; a packet that waits is the next of the write being
    served (`DataOf`) or that status packet (`StatusOf`); PKTDIS is set just while a SETUP waits or the
    routine is on its way to clear it. `Phases`: what holds at each place of the routine.
  - `InStep` relates the two sides while they are at the same transfer: what the IN pipe has left, the
    packet armed, its toggle and contents, and the host's count and toggle (`Sends`, `Reads`); the same for
    the OUT pipe, where the packet that waits may be one whose ACK was lost (`Writes`); the address
    (`Addresses`). Without it `DeviceOK` is not inductive either: that a packet of a write fits what the
    pipe expects is a fact about the host.
  - `Announced` carries the agreement over the time between a SETUP on the wire and the routine that serves
    it, when the host is at a transfer the firmware has not heard of.

  Theorems of `Spec`: `NeverDeaf`, `ReportIsRead`, `BothSidesDone`, `StallsAreLostACKs`, `PacketsInOrder`,
  `TypeCorrect`, for any requests, packet size, time-out and number of lost ACKs. In `UsbDevice` the host may
  have begun a transfer when a late `USBDeviceInit` clears what it had armed, and both sides are not in step
  until the next SETUP; `Fresh` says what the station is like then, and `Safe`, `Transfer` with `Fresh` as an
  alternative, is what suspend and reset keep. `DeviceTypeCorrect`, and `NeverDeafOnTheBus`: `ReadyForSetup`
  and `HandlerReadsItsReport` hold there too, which is more than `MCUsbDevice` checks. Unless the station was
  initialized since the transfer began (`erased`) `Transfer` itself holds (`StepsInStep`), a SETUP restores it,
  and `BothSidesDoneOnTheBus` follows: `DoneOnBothSides` and `OnlyUnknownStalled` for every repertoire.
  `StallRepairIsIdle`: the descriptors are never as `USBStallHandler` (`usb_device.c:2400`) tests for when it is
  called, so that its repair of the OUT descriptor writes nothing, as the comment at its head expects.

Seven theorems state properties that no run checks: `NothingLost` (`NoByteLost`; `ImplementsLine` implies
it), `TypeCorrect`, `SleepsDark` and `AwaitsAnswer` of the first firmware and `StallRepairIsIdle`, which are
plain once proved, and `NeverDeafOnTheBus` and `BothSidesDoneOnTheBus`, which carry over to `UsbDevice` what
`MCEp0Control` checks.

Only model-checked: all liveness (`AllServed`, `CallsReturn` of hidapi, `EndsByItself`,
`ReturnsWhenReleased`, `WakesWithTheBus`, `ResetIsServed`, `TransferEnds`), since the prover does not handle
fairness and ENABLED; and of course that the violations happen. Every other property of a run is the
statement of a theorem.

## 5. What is not modelled

* The bytes of a report: nine over an endpoint of eight. `Ep0Control` has the packets, `HostExchange` the
  two bytes an answer is about.
* Feature requests, GET_STATUS, endpoint halt, interface requests and deferred stages of `usb_device.c`:
  this firmware arms no endpoint but 0 and defers nothing. A request that no handler claims stands for
  those. `USBDeviceDetach` and `USBCBSendResume` are called by nobody.
* `usb_function_hid.c` and the headers of the Microchip library: not in the repository.
* hidapi: `hid_write`, indexed strings and `hid_error`, which the library does not call; `hid_read` is
  modelled although it does not either, because it is what the threads of an open device are for. Lengths of
  reports and strings.
* Programs: printing, and the conversion of the bytes of `--send`, `--sendbytes` and `--settimeto`; a
  command that only asks or writes is one step. A list for `--id` whose text happens to be eight
  characters long, as `0,1,2,10`, and so is read as a serial number (`cstbase-tool.c:180`). The hiddata half
  for Windows, its reports, and the mini tool, which prints what it reads.
* Descriptors, pin set-up, build files: no behaviour over time.

## 6. Plan

Done, in this order: transmitter and its abstract line; charging, with the first firmware beside it; keys;
control endpoint; host exchange; the proofs about them; then the read side of hidapi under one abstract queue,
enumeration, cache and programs, the states of the device around the control endpoint, and the receiver.

Next modules:

1. `HidReport`: `handleMessage` on the bytes of a report that came in two packets into `CtrlTrfData`, with
`hid_send_buf` read by GET_REPORT; composed with `HostExchange` as one exchange from tool to watch. 2. Feature
requests and GET_STATUS in `Ep0Control`. 3. `UartRx` with `ChargeControl`, so that a missed answer is missed
there too. `ChargeControl` already allows the watch never to answer.

Next proofs: that the report `handleMessage` reads is whole, with the bytes of `HidReport`; the packets of
`DataInOrder` on the bus, where a reset changes the host's counts too.
