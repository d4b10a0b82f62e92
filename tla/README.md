# A formal model of USB_Environment

USB_Environment is a thermometer on a USB plug. An ATmega8 running a software-only
USB driver (V-USB) reads a BMP085 (pressure, temperature) and a SI7021 (humidity,
temperature) over I2C and answers vendor requests on endpoint 0. A command line tool
and a Go daemon fetch the readings; the daemon stores them in MySQL and serves averages
to a web page. Two drivers for character displays lie beside the firmware.

This directory holds TLA+ modules that model the parts of the system in which order,
interleaving and failure matter, TLC configurations that check them on small
instances, and proofs, checked by TLAPS, that the most important properties hold
for all values of the constants.

## 1. Inventory

| component | state | operations | what is hard |
|---|---|---|---|
| USB receive interrupt (`usbdrvasm12.inc`, `asmcommon.inc`) | `usbRxBuf` (two halves), `usbInputBufOffset`, `usbRxLen`, `usbRxToken`, `usbCurrentTok`, `usbTxLen`, `usbDeviceAddr` | store a packet; `handleSetupOrOut`, `handleData`, `handleIn`, `handleOtherPid` | runs between any two instructions of the main loop; no locks |
| `usbPoll` and what it calls (`usbdrv.c`) | `usbMsgPtr`, `usbMsgLen`, `usbTxBuf`, `usbNewDeviceAddr`, `usbConfiguration` | `usbProcessRx`, `usbDriverSetup`, `usbBuildTxBlock`, `usbDeviceRead`, `usbHandleResetHook` | shares seven variables with the interrupt |
| Thermometer (`main.c`) | `environment`, `replyBuf`, `led`, `ledon`, `cnt` | `usbFunctionSetup`, `set_led`, the measuring pass of `main` | a pass that measures does not poll for some 60 ms |
| Host and bus (outside the repository, below `app/main.c` and `collector/usb.go`) | the running transfer, the address in use, the data toggle | control transfers with timeouts, enumeration, reset | aborts, resets, lost packets |
| I2C master (`twi.c`) | `TWBR`, the ownership of the bus | START, STOP, byte out, byte in, each with a bounded wait | time-outs in mid transfer |
| BMP085 driver (`atmega_bmp085_lib.c`) | calibration words, error code | read a word, start a conversion and wait for EOC, compensate | some errors abandon a routine before its STOP, some are not seen |
| SI7021 driver (`si7021.c`) | none | one measurement routine | ignores every error |
| Collector (`golang/main.go`, `cron.go`, `collector/usb.go`) | four handles in one global `usbenv` | open, fetch, save, close every five seconds | callbacks may overlap |
| Command line tool (`app/main.c`) | the device handle, a round counter, a buffer on the stack | search the busses, open, `ue_get_version`, `ue_set_led`, `ue_get_environmen`, close | calls that time out or end empty; the collector asks at the same time |
| Database and HTTP API (`golang/models`, `controller`, `router`) | a table of readings | insert, averages per time bucket, extremes | buckets of two hours, days, months or years with one name |
| Configuration (`golang/configs`) | connection settings | environment variable, else file | precedence on malformed values |
| Web page (`webpage/src`) | three charts and a timer; stores of another project | poll every minute, compute axes, draw | answers in another order than their requests; values below zero |
| Display drivers (`lcd.c`, `1602.c`), buildable but not among the Makefile's objects | the display's own state | initialise, command, write text | a display left in mid byte by a reset; a display that is never asked whether it is busy |
| Receivers for other clock rates, debug output | | | not assembled at 12 MHz |

How they interact: the interrupt and the main loop share memory; the driver and the
thermometer call each other (`usbFunctionSetup`, `usbPoll`); the firmware and the
host exchange packets; the main loop drives the two sensors over one I2C bus; the
collector issues control transfers, calls the database model and is called by cron; the tool and
the collector share the device through the kernel's queue; the
page polls the HTTP API. A display driver shares nothing with the rest. `PROJECT.json` lists the components with what is modelled
of each, and under `hazards` what in this code a test would hardly reach, each at
its line.

What makes each part correct:

- *Firmware.* A request the interrupt acknowledged is served once, unchanged; what
  an IN is answered with belongs to the last acknowledged SETUP, is the right slice
  of its answer and comes from one measurement; neither thread touches a buffer the other
  is using.
- *Control transfer.* What `app/main.c` and `usb.go` see of all this is a remote
  procedure call: one request, one atomic effect, one whole answer. Host and device
  agree on the address. A transfer that is not given up ends.
- *Sensors.* No wait is unbounded, no failure makes one quantity pass for another, and one
  undisturbed pass is enough to recover from any disturbance.
- *Collector.* A callback that runs by itself closes what it opened, once and in
  order, wherever opening failed; what overlapping callbacks leave behind does not outlive
  the next one that runs by itself.
- *Callers.* A reading that is printed or saved was measured during its own call; a call
  given up has no late effect on a later one.
- *Arithmetic.* With a calibrated sensor every division and product is defined; a raw value that was
  not read at all shows in the reading, and one of which half was read changes it by a bounded amount.
- *History.* An answer shows the last hour, day, month or year, each point one of its periods, in
  order.
- *Displays.* The first initialisation after a reset brings a display into step from any state; no byte
  is lost or lands in the wrong place.

## 2. Modules

| module | models | extends |
|---|---|---|
| `UsbProtocol` | requests, descriptors, the answer each request is owed | |
| `ControlTransfer` | abstract specification: what a control transfer promises | `UsbProtocol` |
| `UsbDevice` | the firmware: interrupt and main loop, under any environment | `UsbProtocol` |
| `UsbBus` | the firmware composed with a host and a faulty bus; implements `ControlTransfer` | `UsbDevice` |
| `Callers` | the command line tool and the collector's request, at the same time, above `ControlTransfer` | `UsbProtocol`, instance of `ControlTransfer` |
| `SensorBus` | I2C, both sensors, the order in which `main` reads them | |
| `Compensation` | the integer arithmetic of both sensor drivers at the widths of the C types | |
| `Collector` | the daemon's callbacks on their shared handles | |
| `History` | the saved rows, the queries over them, the extremes and the axes | |
| `Hd44780` | the display controller, as both drivers rely on it | |
| `LcdLibrary`, `Lcd1602` | `lcd.c` and `1602.c` | `Hd44780` |
| `Displays` | a board linked with either driver | `LcdLibrary`, instance of `Lcd1602` |
| `UsbProofs`, `UsbTransferProofs`, `CallersProofs`, `SensorProofs`, `CompensationProofs`, `CollectorProofs`, `HistoryProofs`, `DisplaysProofs` | theorems | the modules above |
| `MC...` | instances for TLC | |

A definition called *a faulty variant* is not part of a specification. It states
how the definition after it could have been got wrong, and the properties are tested
against it: each of them fails when its faulty variant takes the definition's place
(`mutants` in `PROJECT.json`).

### Data

A reply is a sequence of four-byte words, each with its source. A measurement is a
member of `Samples`, never a number; so a reply that mixes two measurements shows as
a reply with two samples. Descriptor bytes are flash words with their offsets. A
received packet is the request it carries, or `NoRequest`.

### UsbDevice

The interrupt is one action per kind of packet (`HandleToken`, `HandleData`,
`HandleIn`): the interrupt is not interrupted. The main loop is cut wherever it touches a
variable of the interrupt, and `pc` names the place:

| `pc` | code | action |
|---|---|---|
| `poll` | `usbPoll` reads `usbRxLen` and computes the pointer (`usbdrv.c` 571-575) | `PollRx` |
| `process` | token test and toggle of `usbProcessRx` | `ProcessRx` |
| `abort` | `usbTxLen = USBPID_NAK` | `AbortTransmit` |
| `setup` | the request is read from the buffer and served | `ServeSetup` |
| `free` | `usbRxLen = 0` | `FreeRx` |
| `txCheck` | is there a message and room for a packet | `CheckTx` |
| `build` | `usbBuildTxBlock` up to the assignment of `usbTxLen` | `usbBuildTxBlock` |
| `publish` | `usbTxLen = len` | `PublishTx` |
| `reset` | the loop that looks for SE0 | `CheckReset` |
| `convert`, `measureT2`, `measureH` | the measuring pass of `main` | `Convert`, `MeasureTemperature2`, `MeasureHumidity` |

`ServeSetup` reads the buffer and computes the answer in one action, although
usbPoll does so over many instructions. `usbRxLen` is not 0 there, so the interrupt
can store only into the other half, and `RequestIntact` checks that; it is what
makes the larger step sound. `usbBuildTxBlock` likewise writes a buffer which
`TxBufExclusive` shows the interrupt cannot be sending.

The history variables `acked`, `current` and `answer` record the last acknowledged SETUP, which
stages of the pipeline hold its data, and what it was owed when it was served. No
action reads them to decide what the program does.

Interrupt endpoint 1 is configured but never fed (`usbSetInterrupt` is never called): it
always answers NAK and is left out. Sampling, bit stuffing and cycle counts are
abstracted to whole packets; the CRC of a received packet is not checked by the driver, and
corrupted packets are not modelled.

### UsbBus

The host is not in the repository. It is modelled from what the callers rely on: one
control transfer at a time, each in transactions of token, data and handshake; NAK and
silence make it ask again; a data packet with the wrong toggle is acknowledged
and dropped. At address 0 it asks only for the device descriptor and
assigns an address. `Abort` is the timeout of 1 s (`app/main.c`) or 5 s (`usb.go`);
`BeginReset`/`EndReset` are a bus reset; `ForeignTraffic` is a token for another
device; `Lose...` drop a token, a data packet or a handshake. The constants `Faults` and
`MaxLoss` say which of these may happen.

A reset lasts at least 10 ms, so a polling device sees it; a device that is measuring does not
poll for longer than that, and only then may `EndReset` come before
`CheckReset` has seen SE0.

### SensorBus

A routine is the sequence of its bus operations; one action is one operation with
the wait and the check that follow. A sensor may refuse an address or a byte
(`Refuse`), hold the clock until the program's wait gives up (`Hang`,
`GiveUpWaiting`), or convert for longer than the EOC loop waits (`EocTimeout`). Values
are abstracted to where they came from: `temperature`, `pressure`, `old` (a conversion
of an earlier pass), `zero`, `partial` (the high byte only), `garbage`.

Three facts about the sensors are assumed, from the order of calls in
the driver: a conversion command replaces a conversion that is running, EOC is low
from the command to the end of its conversion, and the result register keeps its
value until a conversion ends. `gap` counts only the delays the code itself makes, so
it is a lower bound of the time between two calls of `usbPoll`.

### Collector

cron starts each callback on a goroutine of its own and does not wait for the last one; a transfer may take
5 s (`ControlTimeout`), which is the period, and opening and saving come on top of it. So callbacks can overlap, and
they share the four pointers of the global `usbenv`. A step of the model ends at every access
to one of these pointers, and `pc` names the place by what the callback does there and to which
kind of handle:

| `pc` | code | action |
|---|---|---|
| `new` | `NewContext` | `NewContext` |
| `open`, `opening` (device, config, iface) | load the pointer and call; store the result | `BeginOpen`, `EndOpen` |
| `check`, `detach`, `reset` | the `if`s after `OpenDeviceWithVIDPID` and `SetAutoDetach`; `Reset` | `CheckDevice`, `SetAutoDetach`, `Reset` |
| `get`, `control`, `transfer`, `save` | the test of `dev`; `Control`; `Save` | `CheckAvailable`, `BeginControl`, `EndControl`, `Save` |
| `close`, `closing`, `clear` (iface, config, device, context) | the test, the call and the assignment of `USB_close` | `CheckOpen`, `CloseHandle`, `ClearPointer` |

A handle is named by the callback that opened it. `open` says which handles are
really open. Between a test of a pointer and its use the compiled code may load the pointer again; `Loaded` allows
both. A call on a nil pointer panics: depending on its version cron recovers, which ends the
callback without `USB_close` (`Panic`), or the process exits and the container runtime starts
it again (`Restart`). What gousb and the database do is external: a call succeeds or fails. A call on a
handle that is closed is recorded in `misused` and otherwise treated like any other.

The history variables say which callbacks ran beside another one (`overlapped`) and which
found pointers that such callbacks had left (`inherited`). The second kind exists because two
overlapping callbacks may leave, say, an interface whose device is already closed; the next
callback closes that interface in its `USB_close`, although it has done nothing wrong.

### Callers

Below the callers is `ControlTransfer` itself, one instance for both programs, with its `GiveUp` for the
timeouts. `EndEmpty` adds the one thing `AllOrNothing` of `UsbBus` leaves open: a `getEnv` that
ends without an error and without a byte. `Search` takes one bus per step, in the order of
libusb's list; a device on it is `other`, a thermometer that `opens`, or one that `refuses`. `found` is
a history variable: the thermometers on the busses looked at, those behind the `break` included.
`ue_get_environmen` prints a buffer on its stack, which nothing initialises: when no byte came it holds what
the last call left there or garbage (`PrintEnvironment`). `commanded` is a history variable: how
the tool set the LED, unless the firmware has blinked since.

### Compensation

`bmp085Convert` step by step: `TemperatureTerm` (b5), `B3`, `B4`, `QuotientB7`, `PressureOf`. Signed
division truncates, a right shift rounds down, `ac4` to `ac6` are read as unsigned, and
the 32-bit unsigned product and quotient are done in halves and bytes (`UnsignedProduct`; `UnsignedQuotient`, a long
division by bytes), since TLC's integers have 32 bits with a sign. A product or divisor that C does not
define ends in `Undefined`. `Ordinary` says which EEPROM contents the properties are about: words near those of the
data sheet's example, such that the least raw pressure at -40 degrees is above zero; `Measurable`, which
raw temperatures are those of -40 to 85 degrees. The state is the stored calibration, a raw temperature and the raw pressure
the sensor has to tell, and how the read of each ended (`Outcomes`): with both bytes, with the high one only, since
`bmp085ReadShort` returns `msb << 8` when the bus gives up behind it, or with none. `Received` is what such a read
returns, for calibration words (`Kept`) as for raw values, and `reading` what `bmp085Convert` makes of it. `Measure` sweeps the
word. Which failures on the bus lead to which outcome is `SensorBus`'s matter, where half a word is `partial`.

### History

`rows` is the table; `Save` is `BeforeCreate` and the insert; the clock jumps by half of what a
point of the query stands for, so every point has two rows. `DATE_SUB` and
`DATE_FORMAT` are MySQL's, month ends included; `Instants` are the dates that exist. The row that a group's `created_at` is
taken from is MySQL's choice (`Picks`). `AxisMax` and `AxisMin` are the page's.

### Displays

`Hd44780` is hardware and external: a nibble is a pulse of the enable line, a busy controller takes
nothing, and in 8-bit mode the lower data lines float. A function of `lcd.c` is the list of what it does
to the lines (`todo`), one action each. Because the processor may be reset between any two pulses while the
displays keep their state, `Init` starts with each display in 4-bit or 8-bit mode, with or without
half a byte, busy or not.

Two things `lcd_init` does are easily taken for others. Its fourth pulse, behind the comment "now configure for 4bit
mode" (`lcd.c:283`), says eight bits again (`Wake`): line 284 clears bit 1 of the port, which carries no data, and not bit 4. The
display switches with the high nibble of the function set that
follows. And it does not set RS and RW before its pulses (`rs`, `rw`): after a reset both are low, but after `lcd_read` RW
is high and the pulses are halves of reads, which an `lcd_init` that returned 0 leaves behind, and after `lcd_data` they would be data. The history variable
`aligned` says which displays can be brought into step regardless: those that are not in the middle of a byte, and those the
running `lcd_init` wakes with true instructions. In 8-bit mode the lower data lines are not connected, so what they
say is unknown (`lines = 0`): after `lcd_init` nothing says whether the display has one row or two.

In `Lcd1602` an action is one character, with all of its delays; `Loop` is the time
of one turn of the delay loop.

## 3. Runs

| run | asks | instance | distinct states |
|---|---|---|---|
| `device_interrupts` | Do the interrupt and the main loop ever disturb each other, under every sequence of packets? | two requests, two addresses, two samples | 1 300 000 |
| `bus_transfers` | Is a transfer an atomic call, though the host may give up and others use the bus? | four requests, abort, foreign traffic | 741 000 |
| `bus_faults` | What is left of this when packets are lost and the bus is reset? Do host and device agree on the address? | three requests, abort, reset, two losses | 6 044 000 |
| `bus_live` | Does every transfer end? | eight requests, foreign traffic, fairness | 344 000 |
| `callers` | What do the tool and the collector print, save and leave behind? | all trees of up to two busses, two rounds, four measurements | 1 048 000 |
| `sensors` | What do failures on the I2C bus do to the readings, to later passes, to the main loop? | three calibration words, three faults | 256 000 |
| `compensation` | Is the arithmetic defined, and which wrong readings show? | two devices, each word lost or half lost, three raw temperatures, every 61st raw word, each read with both bytes, one or none | 1 393 000 |
| `collector` | What do overlapping callbacks do to each other, and how long does it last? | three callbacks, two at a time, panics and restarts | 3 142 000 |
| `history` | Is what the queries answer the history, and do the axes reach around it? | turn of a year, the ends of two Februaries, three years; two climates | 3 600 |
| `displays` | Do displays come into step, do calls return, are blind delays long enough? | any of two displays connected and asked for; any addresses and lines left over from calls before; strings around the row ends | 360 000 |
| `sensors_poll_gap`, `displays_missing` | findings, see section 5 | no fault; as `displays` | |

*Why the bounds are enough.* The firmware treats requests by kind, and each
kind of answer occurs: in `replyBuf`, in flash, in the tail of the transmit buffer, in
`usbConfiguration`, of length 0, of one packet and of several, ending with a short packet, with an empty
one and exactly at wLength. Two samples are the least that can be mixed, and the samples recur, so a third adds
nothing. `CntMax` (240000 in the code, `main.c:106`) only spaces the measurements; with 1,
measurements fall between any two steps of a transfer. Three addresses are the device's two and
a foreign one. Two losses reach every combination of a repeated SETUP with a lost answer, and
three faults every failure in each of a measurement's routines with one in the next; three
calibration words are read by one routine, like the eleven of the code.

The callers' two rounds are the first and the last of the code's thousand, with every
caller's request able to fall into either; a transfer holds one measurement, so four let each round see a change during its
call and one before it. Trees of two busses show a thermometer on the first, on the second, on both,
beside other devices, and one that cannot be opened.

The sweep of `compensation` takes every 61st of the 65 536 raw words, which covers the range, both
sides of the case split at 2^31 and, 61 being odd, low bytes of all kinds; the two devices differ in the sign bit of `ac4`. `Losses`
has every single word with every outcome and the pair that makes a divisor constant. In `displays` strings begin at
either row's start (`Starts`), and one turn of `lcd_waitbusy` stands for a millisecond (`PollTime`), which only makes the
busy times coarser. In `history` the spans contain each kind of
irregular boundary of the calendar, and the time between rows makes every window contain each
of its points. Four string lengths end in the first row, at its end, in the second and behind it.

Two callbacks at a time (`MaxRunning`) are the least that overlap, and each of the four pointers can then be
overwritten, cleared or closed by another between any two steps; the third identity names what
such callbacks have left while a further one runs. An identity is used again only when nothing of its
last callback is left (`Unused`), which bounds the number of leaked handles to three at a time. The
identities are interchangeable, so the run takes them as symmetric.

What the runs show beyond a plain yes:

- On a bus without losses every guarantee of `ControlTransfer` holds, aborts
  included: a request whose host has given up still takes effect, and its answer is never
  given to the next request.
- With losses the driver does not repeat a packet ("assuming that no error occurs",
  `asmcommon.inc`). If the first data packet of a `getEnv` is lost the
  transfer *succeeds* with zero bytes (`AllOrNothing`); if a later one is lost it is never
  completed and times out. Both callers look only for a negative result, so the first case is
  reported as a reading.
- `DoneMeansServed` depends on the callers asking for more than 16 bytes. If they
  asked for exactly 16, the answer would end with a full packet and the driver would keep an empty one
  pending. Two losses are then enough: the last ACK of such a `getEnv`, and after a bus reset the SETUP token of
  `SET_ADDRESS`. The device takes the data of that SETUP for data of an OUT, the empty packet is a DATA1
  and ends the status stage, and the host takes an address for assigned that the device has never
  seen. TLC finds this with such a request added to `bus_faults`; `NoEvenFill` of `UsbTransferProofs` excludes it.
- `AddressAgreement`, `NeverOverrun`, `AllOrNothing` and `DoneMeansServed` hold under losses,
  aborts and resets together, not only under each of them.
- The device keeps its old address if a whole reset falls into a measurement
  (`missed` in `AddressAgreement`): the host then needs another reset.
- The blink of `main` overwrites what a host made of the LED, at the next
  measurement (`Measure` in `ControlTransfer`).
- The BMP085 routines leave the bus owned when they fail and then reject the
  repeated START they have caused; only the SI7021's STOP, which is sent whatever
  happened, frees the bus again. To implement that file's own comment ("exit directly") without a
  STOP would make the BMP085 unreadable until power-up: that is the mutant of
  `RecoversInOnePass`.
- Calibration words are read once, at boot, and a failure there is not noticed: readings are then
  computed from zeros or half words (`uncalibrated`) until the next power-up. Only `ac4` and `md`
  lead to a division by zero, and only if neither byte was read (`ZeroDivisorNeedsLostWord`). With any other lost word the readings
  are wrong, plausible or not, and at large raw values not even defined: with `ac6` lost, for instance, a product overflows.
- A raw temperature that was not read shows in the temperature, but the pressure computed from it is
  plausible; a raw pressure that was not read shows in the pressure (`MissingReadShows`, the first half of `FailedReadBounded`). Of a raw value of which
  half was read this is false: `msb << 8` gives a reading within the sensor's range. `HalfReadLowers`, the second half, bounds what it may be off by,
  less than 12.5 degrees or 1028 Pa, always too low.
- From one raw word to the next the pressure rises by up to 9 Pa, though a word stands for less than 4: where
  `p >> 8` steps, the last lines add up to 5 Pa at once, and above 2^31 the quotient is doubled, so p goes in twos. `PressureContinuous`
  allows 4 Pa for each word of a step and 8 more for both effects; the 4 alone would be exceeded by single words.
- `i2cSetBitrate`, asked for 1000 kHz (`main.c:131`), computes 12, below the minimum of 16 the
  formula is meant for; the bus runs at 300 kHz.
- Overlapping callbacks do use closed handles, leak handles and panic. `AloneLeavesNothing` and
  `OnlyOverlapsMisuse` say together that this ends with the first callback that runs by itself: it may close
  leftovers, but leaves nil pointers and none of its own handles open. Handles whose pointers were
  overwritten stay open until the process exits. No text of the repository says that callbacks may not overlap, so this
  is recorded here and not as a finding.
- An empty transfer misleads both callers: the tool prints what its stack held, possibly the last reading,
  the collector saves zeros (`OnlyEmptyTransfersMislead` says that nothing else does).
- The tool's `break` leaves the loop over one bus only, and does so whether or not the thermometer could be opened. So on one
  bus the first thermometer decides: behind one that refuses, one that would open is not looked at, and the tool reports
  that there is none. Of several busses the last decides, the first handle is leaked, and one that refuses on the
  last bus hides those before it. Hence `OneThermometerServed` promises that a thermometer is found only if it is the only one;
  that handles are closed, if all are on one bus.
- The window of a query is closed at its old end, so its oldest point carries the name of its newest and is
  an average of both periods; it may stand at either end. Around the end of February it is
  even between others. All other points are right and in order (`AnswerIsHistory`).
- Below zero `parseInt` and `%` round towards zero: the axis starts above the least
  point and cuts it off. The page also draws the data of an hour in the element named `daychart` and those of
  a day in `hourchart`.
- After a reset `lcd_init` brings displays into step from any state, although its fourth pulse is wrong: the high
  nibble of 0x28, taken as a byte in 8-bit mode, switches the display to four bits, and the low nibble meets it busy. Only the
  number of lines is lost, and `lcd.c` never sends it again.
- A later `lcd_init` wakes nothing if an `lcd_read` was the last access, so a display that is then in mid byte, because the
  calls since the reset were for the other one, stays so, and `lcd_init` may return 1 for it; TLC finds this when `ReadyInSync` is
  stated without `aligned`, which `CallsReturn` needs for the same reason.
- Asked for two displays of which one is connected `lcd_init` never returns (section 5); `CallsReturn` is stated for displays
  that are all there or all absent.
- The SI7021's routine never reports a failure, so the branch "conversion failed, exit directly" (`si7021.c:95`)
  cannot be taken: after a refused byte `environment.temperature2` is computed from `garbage`, until the next pass.
- `1602.c` works if and only if a turn of the loop in `delay_nus` takes from 1.2 to 12.3 us
  (`LoopAssumption`); compiled for 12 MHz, with a counter that is `volatile`, it takes about 1.5 us. With the
  1 us its name promises (`Loop = 10`) characters would be lost: TLC finds `PutsShown` violated with 11, and
  `Lcd1602Works` with 124. The upper end matters because of the first command: 0x20 relies on its
  second nibble being ignored by a display that is still busy. And `LCD_init` does not bring a display back into step that a
  reset left in mid byte; the initial states of `Lcd1602` are without one. The comment at `1602.c:106`
  says 0x0d, the code sends 0x0c.

*Fairness.* `BusFairSpec` assumes weak fairness of the device's steps (the main loop calls
nothing that blocks) and of the host's steps (a host controller schedules a pending
control transfer in every frame). Nothing is assumed of aborts, resets, losses or foreign
traffic. The interrupt needs none: it is part of the host's step that causes it.
`FairSpec` of `SensorBus` assumes weak fairness of the program, whose loops are
bounded by counters, and nothing of the sensors. `FairSpec` of `Callers` assumes that a program goes on and that its
timeout ends a call (weak fairness of `ToolStep` and `CollectorReturns`), and that a call which is
made again and again while the other program's transfers come and go is let through (strong fairness of
`ToolCalls`: the kernel queues). It assumes nothing of the device. `BoardSpec` assumes that the
processor goes on with a call it has begun.

Deadlock is checked in all runs: none of these systems may stop. The model of `History` stutters (`End`) where the
examined part of the calendar ends.

## 4. Theorems

For every set of requests, addresses and samples and every period, under the
assumptions stated in the modules (`RequestsAssumption`, `SamplesAssumption`,
`AddressesAssumption`, `CntMaxAssumption`; for the bus `HostAssumption`, that
a host assigns addresses that tokens can carry; for the callers `TreesAssumption`, that a bus is a list of
devices; for the displays `MasksAssumption`, `PollTimeAssumption`, `LengthsAssumption` and `LoopAssumption`,
the time a turn of the delay loop may take; for the history `SpansAssumption`, that a clock starts and ends with a date
that exists, and `ClimatesAssumption`; for the arithmetic `CalibrationsAssumption`, that a word has 16 bits, and
`StepAssumption`):

| theorem | says |
|---|---|
| `TypeCorrect`, `ReadsInBounds` | the type invariant; `usbDeviceRead` stays within `replyBuf` |
| `RequestStaysIntact`, `NothingIsDropped` | acknowledged packets are kept until processed |
| `NeverStale` | what could be sent belongs to the last acknowledged SETUP |
| `TransmitExclusive` | the transmit buffer is not written while it could be sent |
| `RepliesCorrect` | what could be sent is the right slice of the right answer |
| `BusImplementsDevice` | `BusSpec => DeviceSpec`: the composition is an instance of the environment assumed above, losses and resets included |
| `RepliesCorrectOnBus`, `RequestsKeptOnBus` | the above on every bus |
| `AddressesAgree` | on a bus that loses nothing, host and device agree on the address through aborts, resets and foreign traffic, unless a reset passed unnoticed |
| `TransfersAreServed` | on a bus that loses nothing, a transfer that ends was served |
| `SetupAcknowledged` | on a bus that loses nothing, with a host that gives nothing up, a SETUP is acknowledged at once |
| `RepliesComplete`, `NothingOverruns` | on a bus that loses nothing, a transfer ends with the whole answer to its own request, and never brings more than was asked for |
| `BusImplementsTransfer` | on a bus that loses nothing, `BusSpec => ImplementsControlTransfer`: a transfer is an atomic call |
| `BusTypeCorrect` | on a bus that loses nothing, the type invariant of the host's side |
| `PlaceholderStays` | on a bus that loses nothing, no host receives what `main()` stored before the first measurement |
| `LossyTransfersAreServed` | whatever the bus loses, a transfer that ends was served, if no host asks for exactly the length of an answer that fills an even number of packets (`NoEvenFill`) |
| `EnvironmentAllOrNothing` | on the same bus a `getEnv` that ends brings all sixteen bytes of one measurement, or none |
| `LossyAddressesAgree`, `LossyNothingOverruns` | on the same bus host and device agree on the address, and no more is sent than was asked for |
| `CallersTypeCorrect` | somebody waits for every running call; the tool calls only with an open handle |
| `ReadingsAreRecent` | what is printed or saved was measured during the call, unless the transfer ended empty |
| `LedStaysAsCommanded` | after `set_led` the LED stays so until the tool sets it again or `main` blinks; no call given up takes effect late |
| `LoneThermometerServed` | a thermometer that is the only one on any busses is found if it can be opened; while all are on one bus, what is opened is closed |
| `SensorTypeCorrect` | the type invariant of sensors and drivers |
| `QuantitiesKept` | while no EOC loop runs out no quantity is taken for another, nor an old value for a new one |
| `OnePassRecovers` | one undisturbed pass reads everything anew, whatever failed before |
| `CollectorTypeCorrect` | the collector's type invariant; a call in progress always has a handle |
| `LoneCallbackLeavesNothing` | a callback that does not overlap ends with nil pointers and none of its handles open |
| `MisuseNeedsOverlap` | wrong use of a handle takes an overlap or its leftovers |
| `MeasurementsAreDefined` | for `DevicesOrdinary`, with everything read, or of the raw pressure at least the high byte, no product overflows and no divisor is zero |
| `DivisorsNeedTheirWords` | for the same devices, however the reads ended, a divisor is zero only if no byte of `ac4` or none of `md` was read |
| `FailedReadsAreBounded` | for the same devices, with the calibration read, a raw value of which no byte was read leads to a value the sensor does not measure (`MissingReadsShow`); half of one lowers the temperature by less than 12.5 degrees, the pressure by at most 1028 Pa, and raises neither (`HalfReadsLower`) |
| `PressureRisesContinuously` | for the same devices, a larger raw pressure never gives a smaller pressure, nor one more than `4 * Step + 8` Pa larger |
| `HumiditySensorNearDatasheet` | for every code, the SI7021's formulas are close to the data sheet's |
| `RowsAreDated` | the rows are finitely many and have dates that exist and are not in the future |
| `AnswersAreHistory` | for any span of the calendar, each answer is the last hour, day, month or year: one point for each period, in order; the first may be of two |
| `ChartReachesItsPoints` | for any rows, the axes reach around every point that is not negative |
| `InitLeavesDisplaysInStep` | from any state the first `lcd_init` after a reset returns 1 for displays that are there, and they are in step, and stay so through all later calls of `lcd.c`; so does any other `lcd_init` for displays not in mid byte |
| `DelaysSuffice` | `1602.c` sets its display up and keeps it working, though it never asks whether it is busy |
| `StringsStandWhereTheyShould` | a string of any length stands in the two rows in order, and nothing else has changed |

*The invariant.* None of these properties is inductive by itself. `IInv`
(first part of `UsbProofs`) adds what the code relies on without saying so: between
`PollRx` and `FreeRx` the arguments of `usbProcessRx` still describe the
receive buffer (`RxArguments`, `RxKept`); from the abort to the publication of the next packet
`usbTxLen` is NAK (`TxIdle`), which is why the buffer may be written; each stage of the pipeline
that claims the last SETUP's data has it (`Fresh`). `Fresh` is the heart of it: an
acknowledged SETUP sets `usbRxLen` and thereby mutes `handleIn` until `usbPoll` frees the buffer, and by
then the abort has withdrawn the old packet and the old message. `ReplyInv` (in the same module) adds the contents: what is left at `usbMsgPtr`
is the rest of the answer owed (`RestCorrect`), what is in `usbTxBuf` the slice before it
(`BlockCorrect`), and outside the measuring steps all four fields of `environment` are one sample
(`OneMeasurement`).

Each proof has one lemma per action; `StepIInv` and `StepReplyInv`
assemble them. The second part of `UsbProofs` first shows that each step of the composition is a step of the device or leaves
it alone; it needs only that the host's address is one that tokens carry (`HostInv`), and then inherits the
device's theorems.

The collector's theorems hold for any number of callbacks, at one time and in all, and need only that
nil is not a handle. Their invariant (`CollectorProofs`) speaks of lone callbacks: all it has opened is what
`usbenv` points to (`Reachable`), because each kind is opened once
(`NotYetOpen`); no pointer it relies on is nil (`Present`), so it does not panic and reaches `USB_close`, which
leaves the pointers nil from the last to the first (`Closed`). `CleanInv` adds, for one that found
nothing, that the pointers are its own and their handles open. Nothing at all is claimed of overlapping callbacks, and
`TickStep` is where this is sound: a callback that begins while another runs makes both of them overlapping, for good.

The other three theorems of `UsbProofs` add the host (`HostIInv`). The host's phase says
which SETUP the device acknowledged last (`AckedOK`); an address to be assigned is
pending in the receive buffer (`Assigning`), then in `usbNewDeviceAddr`, and comes into force with the status packet, and
at every other time all three addresses are equal (`AddressOK`); a reset that was seen leaves
nothing of this behind (`ResetOK`). They assume that nothing is lost.

The second part of `UsbTransferProofs` does without that. With losses the device may not know of the host's SETUP at all, because the
token was lost and the data was taken for an OUT; the host then goes on as if it had been understood. So `LossInv` says for
each phase of the host what the device may be doing instead: it has the request (`Taken`), it has dropped it and has
nothing to say about it (`Swallowed`), or the transfer is over (`Ended`). What keeps a transfer that was
swallowed from ending is the data toggle: the host waits for a DATA1, and a device that is `Drained`, which has sent
all of the last answer but perhaps its closing packet, sends no DATA1 any more. That closing packet is a DATA1 if the answer
fills an even number of packets and was asked for with exactly its length, hence the hypothesis `NoEvenFill`. It is
necessary (section 3) and it holds of the two programs. The device's answers have 18, 25, 4, 14 and 28 bytes (descriptors),
16 (`getEnv`) and at most 2 (the others), so only `getEnv` fills an even number of packets of 8 when it is asked for with its
own length, and `app/main.c` asks for 64 bytes of it, `usb.go` for 256. Of the operating system it is an assumption: that it
does not cut a descriptor off at 16 bytes. `Sent` counts what has left the device;
the host never has more than that, and if it has anything it has everything up to the packet it expects
(`InOrder`), which is `AllOrNothing` for an answer of two packets. Nothing is assumed of the number of losses (`MaxLoss`).

`CallersProofs` rests on one caller at a time holding the pipe (`CallOK`) and on a request that was given up staying
`pending` at most until the next one is taken. So while the tool trusts the LED, no `setLed` is pending (`LedOK`); and
every answer of a running call was measured after it began (`AnswerOK`, with `since`). Rounds, measurements and trees of busses
are unbounded.

The first part of `UsbTransferProofs` adds what the host has received (`TransferInv`). The code keeps no count of what was
sent; that the pieces fit rests on three places that agree: what is left at `usbMsgPtr`, the packet that
waits and what the host has together make up the answer (`InStep`), and the host expects the toggle of that packet.
Only the packet that ends an answer is short (`AnswerOK`), so the host, which stops at a short packet or at
`wLength`, stops when the answer is complete. The refinement then needs no more than to name the
steps: `SendSetupData` that is acknowledged is `Take`, `ServeSetup` is `Serve` (also for a request
whose host has given up), the packet that ends the status stage is `Return`, `Abort` is `GiveUp`,
`MeasureHumidity` is `Measure`, and everything else stutters. It assumes that no host asks the request that
stands for an empty buffer (`NoRequest \notin Requests`), without which "a request is pending" would mean nothing.
`BootInv` is the argument for the placeholder: until the first pass of the main loop publishes a packet no
host has finished `SET_ADDRESS`, and without an address it asks for no measurement; by the next pass there is one. It assumes
that the placeholder is not a number that other words can hold.

`SensorProofs` holds for any number of calibration words, failures and hangs and for any conversion times.
Its invariant says of every place in the script of a routine what bus and sensors are like there: who owns the
bus, which sensor listens, which conversion is running or in the result register. That the
SI7021's routine always ends with a STOP is what frees the bus for the next pass.

`DisplaysProofs` has one invariant for each driver, and `BoardInv` says that the one that is linked keeps its own.
For `1602.c` it is `SimpleInv`: between two bytes the display is in step and will be ready before the first pulse of the
next one (`InStep`, with `Left` for the part of a delay that comes before a byte); `WriteFirst` is the exception, the
command sent to a display in 8-bit mode, whose second nibble must come too early. `Putting` says of every character written so far
where it stands. For `lcd.c` it is `LibraryInv`: of every step of `lcd_init` it says where the display has got to
(`Brought`). A display in mid byte makes an instruction of the first pulse and the half it has, which may be any; after the
second it is in 8-bit mode or has half of a function set; after the third it is in 8-bit mode, where the fourth leaves it; the first
byte after them brings it to 4-bit mode with its high nibble, and the low one is lost. For pulses that are reads or data a display which
is not in mid byte is followed through the same places in either mode. That the busy flag cannot be read before, and that a clear may still be running, are the reasons for the
first two delays. `MasksAssumption` is that callers name the two controllers there are.

`CompensationProofs` is an argument about intervals. The invariant (`CompensationInv`) is short: the reading is what
`bmp085Convert` makes of what was read. What takes the proof is what that function does for every raw value. From the bounds
of `Ordinary` and `Measurable` follow those of b6 (-10400 to 9600), b4 (28387 to 39536), b3 (-4000 to 40000, less than four times
the least raw pressure) and p, line by line, and from these that each product fits its type (`B6ProductsFit`,
`LastProductsFit`). That the halves and bytes the model computes with are what a `uint32_t` would be
is proved too: `LongDivision`, `ProductHalves` (with the wrap-around of a negative difference) and `QuotientSplit`. A raw
temperature of zero makes b6 less than -13000 (`ColdTerm`), and a raw pressure of zero makes b7 wrap around or next to nothing
(`NoPressureRead`); both leave the range of the sensor. Half a word is up to 255 below the whole (`ReceivedBounds`), from which
`HalfTerm` and `PressuresApart` bound the readings. `AnyTerm` and `B4NotZero` are about words that were lost: whatever became of the
others, md keeps one divisor away from zero and ac4 the other, and half of either is enough. `PressureTermRises` is the case split of line 304: the
quotient that is doubled there is up to two lower, and one word more is always worth more than two.

The hypothesis `DevicesOrdinary` of four of these theorems is not empty and not an assumption of the module: the MC module of the run
states it of its two devices, one of them the data sheet's, and TLC evaluates it. It is needed: for arbitrary words the products
overflow and the divisors vanish, and a device whose least raw pressure is near zero could not be told from one that was not read.

`HistoryProofs` has as its invariant (`HistoryInv`) that the rows are finitely many, with dates that exist and none in the
future. The rest is what a query answers about any such table. An instant has a number (`Rank`) that orders it, so the
window `_search2` asks for is an interval, and its rows are in one of two halves, that of now and that of the
window's begin; within either, equal names mean one period, and the two halves share a name only at the window's old end.
That the mean of a point is a number whatever the number of its rows, and that an answer has extremes,
takes induction over finite sets, which the proof gets from the well-foundedness of < on the natural numbers, a set at a time
(`LeastNumber`); the fold that sums the rows is reached through the recursive function that defines it.

Every invariant and every safety property over steps that a passing run checks is stated by one of these theorems. Model-checked only:

- liveness (`TransferCompletes`, `PollsAgain`, `ToolEnds`, `CallsReturn`), which is out of the proof system's reach;
- the two findings, which are counterexamples.

The run of `ControlTransfer` has no resets, to keep it small; the theorem covers them.

## 5. Findings

Two statements of the repository that the code does not keep; each has a run whose
counterexample shows it.

1. `usbdrv.h:201` asks for `usbPoll` every 50 ms. One measurement in which nothing fails and no EOC
   loop runs out (`~eocLate`) delays it by 59.5 ms (`sensors_poll_gap`).
2. `lcd.c:290` announces an answer of 0 if there is no display, and `lcd.c:249` an answer in any case. Called for two
   of which one is missing, `lcd_init` reads both at once, sees the connected one not busy and goes on; `lcd_waitbusy`
   (`lcd.c:178`) then asks each by itself, and the missing one reads as busy for ever (`displays_missing`).

## 6. What is not modelled

- The receive interrupt below whole packets: sampling, bit stuffing, cycle counts.
- Receivers for other clock rates and the debug output: not assembled into this firmware.
- `ue_echo`, `bmp085CalcAltitude`, `SET_SI7021` and `check_busy`: never called.
- The order of the web page's polls. Three polls a minute are answered independently and a chart shows the answer that
  arrived last, which need not be the newest; the page makes no claim about it, and what does hold
  restates one assignment.
- In the HTTP API the router, `/ping` and the empty `data` of a failed query: stateless.
- `ONLY_FULL_GROUP_BY`: with it on, MySQL rejects the four queries; the model is of a
  server that accepts them.
- `configs.go` reads a file and the environment once, before anything else starts.
- The stores of the web page are left over from another project, and no mounted component feeds them. The database image, the udev
  rule and the build scripts hold no logic of the system.

## 7. Plan

1. *Done:* `UsbProtocol`, `UsbDevice`, `ControlTransfer`, `UsbBus` with the theorems of the device, and of
   the host on a lossless bus.
2. *Done:* `SensorBus` with its theorems, `Compensation`.
3. *Done:* `Collector` with its theorems, `Callers`, `History`.
4. *Done:* the display drivers.
5. *Done:* the theorems on a bus with losses, of the callers and of the display drivers.
6. *Done:* the theorems of the arithmetic and of the history.
7. Left: whether an overlap of callbacks is ever followed by one that runs by itself, which depends
   on how long the external calls take; which single failures of a sensor give plausible readings.
