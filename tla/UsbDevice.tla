----------------------------- MODULE UsbDevice -----------------------------
(* The firmware of the thermometer as one program with two threads: the     *)
(* main loop (main.c with usbPoll and everything it calls) and the USB      *)
(* receive interrupt (asmcommon.inc), which may run between any two steps   *)
(* of the main loop.  The interrupt is given here as one action per kind of *)
(* packet, under an environment that may send any packet at any time;       *)
(* module UsbBus replaces that environment by a host.                       *)
(*                                                                          *)
(* A step of the main loop ends wherever it touches a variable that the     *)
(* interrupt shares; what lies between two such accesses is one action.     *)
(*                                                                          *)
(* A definition called a faulty variant is not part of the specification:   *)
(* it says how the definition after it could have been got wrong, and the   *)
(* properties are tested against it.                                        *)
EXTENDS UsbProtocol, Sequences

CONSTANTS Addresses,    \* addresses that tokens on the bus carry
          CntMax        \* CNTMAX: passes of the main loop between measurements

ASSUME AddressesAssumption == Addresses \subseteq 0 .. 127
ASSUME CntMaxAssumption == CntMax \in Nat

USBPID_NAK == 90        \* handshakes have bit 4 set, lengths 4 .. 12 do not
USB_NO_MSG == 255

VARIABLES
  \* Shared by the interrupt and the main loop.
  usbRxBuf,             \* two halves of USB_BUFSIZE bytes: what each holds
  usbInputBufOffset,    \* the half the interrupt receives into
  usbRxLen,             \* bytes received and not yet processed, 0 when free
  usbRxToken,           \* token that announced the received data
  usbTxLen,             \* bytes to send on the next IN, or a handshake
  usbTxBuf,             \* the data packet built for the next IN
  usbDeviceAddr, usbNewDeviceAddr,
  \* The interrupt's own.
  usbCurrentTok,        \* the last token if data may follow it
  \* The main loop's own.
  usbMsgPtr, usbMsgLen, \* the rest of the answer that is not yet packed
  usbConfiguration, replyBuf,
  environment,          \* the four fields a host reads
  led, ledon,           \* the port bit, and what the main loop last made it
  cnt, pc,
  rx,                   \* the arguments of the running usbProcessRx
  \* History: no code reads these.
  acked,                \* the last SETUP payload the interrupt acknowledged
  current,              \* the stages that hold data of that SETUP
  answer                \* the answer that SETUP was owed when it was served

rxVars == <<usbRxBuf, usbInputBufOffset, usbRxLen, usbRxToken, usbCurrentTok>>
txVars == <<usbTxLen, usbTxBuf>>
addrVars == <<usbDeviceAddr, usbNewDeviceAddr>>
msgVars == <<usbMsgPtr, usbMsgLen, usbConfiguration, replyBuf>>
envVars == <<environment, ledon>>
history == <<acked, current, answer>>
deviceVars == <<rxVars, txVars, addrVars, msgVars, envVars, led, cnt, pc, rx,
                history>>

-----------------------------------------------------------------------------
(* State *)

Tokens == {"none", "SETUP", "OUT"}

MainSteps == {"poll", "process", "abort", "setup", "free", "txCheck", "build",
              "publish", "reset", "convert", "measureT2", "measureH"}

Measuring == {"convert", "measureT2", "measureH"}

Uniform(s) == [temperature |-> s, pressure |-> s, temperature2 |-> s,
               humidity |-> s]

\* Faulty variant: the first measurement waits a whole period.
InitialCountZero == 0

\* The first pass of the main loop measures.
InitialCount == CntMax

\* replyBuf's first four words; usbTxBuf's words are the len bytes after the
\* PID, and tail is what its last two bytes hold.
DeviceInit ==
  /\ usbRxBuf = [h \in {0, 1} |-> NoRequest]
  /\ usbInputBufOffset = 0
  /\ usbRxLen = 0
  /\ usbRxToken = "none"
  /\ usbCurrentTok = "none"
  /\ usbTxLen = USBPID_NAK
  /\ usbTxBuf = [pid |-> "none", len |-> 0, words |-> << >>, tail |-> "zero"]
  /\ usbDeviceAddr = 0
  /\ usbNewDeviceAddr = 0
  /\ usbMsgPtr = [buf |-> "null", off |-> 0]
  /\ usbMsgLen = USB_NO_MSG
  /\ usbConfiguration = 0
  /\ replyBuf = [i \in 1 .. 4 |-> Word("zero", 0)]
  /\ environment = Uniform(Placeholder)
  /\ led = 0
  /\ ledon = 0
  /\ cnt = InitialCount
  /\ pc = "poll"
  /\ rx = [half |-> 0, len |-> 0]
  /\ acked = NoRequest
  /\ current = {}
  /\ answer = NoReply

-----------------------------------------------------------------------------
(* The receive interrupt.  Every packet lands in the half the interrupt     *)
(* receives into, whoever it is meant for, before its PID is looked at.     *)

Store(payload) ==
  usbRxBuf' = [usbRxBuf EXCEPT ![usbInputBufOffset] = payload]

\* SETUP and OUT for this device are remembered; a token for another device
\* and any handshake makes the driver ignore the data that follows.
HandleToken(pid, addr) ==
  /\ pid = "IN" => addr # usbDeviceAddr
  /\ Store(NoRequest)
  /\ usbCurrentTok' = IF addr = usbDeviceAddr /\ pid \in {"SETUP", "OUT"}
                      THEN pid ELSE "none"
  /\ UNCHANGED <<usbInputBufOffset, usbRxLen, usbRxToken, txVars, addrVars,
                 msgVars, envVars, led, cnt, pc, rx, history>>

\* Faulty variant: data is accepted while the last packet is unprocessed.
DataHandshakeAlways(n) ==
  IF usbCurrentTok = "none" THEN "silence" ELSE "ACK"

\* The handshake that answers a data packet of n bytes, PID and CRC included.
DataHandshake(n) ==
  IF usbCurrentTok = "none" THEN "silence"
  ELSE IF usbRxLen # 0 THEN "NAK"
  ELSE "ACK"

\* Faulty variant: the packet of a status stage fills the receive buffer.
AcceptsEmpty(n) == DataHandshake(n) = "ACK" /\ n >= 3

\* A packet with no payload is acknowledged but not handed to the main loop.
Accepts(n) == DataHandshake(n) = "ACK" /\ n >= 4

\* Faulty variant: the halves of the receive buffer are not swapped.
HandleDataNoSwap(payload, n) ==
  /\ Store(payload)
  /\ IF Accepts(n) THEN usbRxLen' = n /\ usbRxToken' = usbCurrentTok
                   ELSE UNCHANGED <<usbRxLen, usbRxToken>>
  /\ IF Accepts(n) /\ usbCurrentTok = "SETUP" /\ n = 11
     THEN acked' = payload /\ current' = {"rx"}
     ELSE UNCHANGED <<acked, current>>
  /\ UNCHANGED <<usbInputBufOffset, usbCurrentTok, txVars, addrVars, msgVars,
                 envVars, led, cnt, pc, rx, answer>>

HandleData(payload, n) ==
  /\ Store(payload)
  /\ IF Accepts(n)
     THEN /\ usbRxLen' = n
          /\ usbRxToken' = usbCurrentTok
          /\ usbInputBufOffset' = 1 - usbInputBufOffset
     ELSE UNCHANGED <<usbRxLen, usbRxToken, usbInputBufOffset>>
  /\ IF Accepts(n) /\ usbCurrentTok = "SETUP" /\ n = 11
     THEN acked' = payload /\ current' = {"rx"}
     ELSE UNCHANGED <<acked, current>>
  /\ UNCHANGED <<usbCurrentTok, txVars, addrVars, msgVars, envVars, led, cnt,
                 pc, rx, answer>>

\* Faulty variant: data is sent although a SETUP may be waiting.
InHandshakeEager == IF usbTxLen = USBPID_NAK THEN "NAK" ELSE "DATA"

\* IN is answered with the built packet, once, unless received data is still
\* to be processed.
InHandshake ==
  IF usbRxLen >= 1 \/ usbTxLen = USBPID_NAK THEN "NAK" ELSE "DATA"

\* Sending a data packet also puts a newly assigned address into force.
HandleIn(addr) ==
  /\ addr = usbDeviceAddr
  /\ Store(NoRequest)
  /\ IF InHandshake = "DATA"
     THEN /\ usbTxLen' = USBPID_NAK
          /\ usbDeviceAddr' = usbNewDeviceAddr % 128
     ELSE UNCHANGED <<usbTxLen, usbDeviceAddr>>
  /\ UNCHANGED <<usbInputBufOffset, usbRxLen, usbRxToken, usbCurrentTok,
                 usbTxBuf, usbNewDeviceAddr, msgVars, envVars, led, cnt, pc,
                 rx, history>>

-----------------------------------------------------------------------------
(* usbPoll *)

Goto(step) == pc' = step

PollRx ==
  /\ pc = "poll"
  /\ cnt' = cnt + 1
  /\ IF usbRxLen >= 3
     THEN /\ rx' = [half |-> 1 - usbInputBufOffset, len |-> usbRxLen - 3]
          /\ Goto("process")
     ELSE Goto("txCheck") /\ UNCHANGED rx
  /\ UNCHANGED <<rxVars, txVars, addrVars, msgVars, envVars, led, history>>

\* Faulty variant: the toggle of the last answer goes on.
ProcessRxKeepToggle ==
  /\ pc = "process"
  /\ Goto(IF usbRxToken = "SETUP" /\ rx.len = 8 THEN "abort" ELSE "free")
  /\ UNCHANGED <<rxVars, txVars, addrVars, msgVars, envVars, led, cnt, rx,
                 history>>

\* Data of an OUT transaction, and a SETUP of the wrong size, is dropped.
ProcessRx ==
  /\ pc = "process"
  /\ IF usbRxToken = "SETUP" /\ rx.len = 8
     THEN usbTxBuf' = [usbTxBuf EXCEPT !.pid = "DATA0"] /\ Goto("abort")
     ELSE UNCHANGED usbTxBuf /\ Goto("free")
  /\ UNCHANGED <<rxVars, usbTxLen, addrVars, msgVars, envVars, led, cnt, rx,
                 history>>

\* Faulty variant: the pending packet is not aborted.
AbortTransmitNot ==
  /\ pc = "abort"
  /\ Goto("setup")
  /\ UNCHANGED <<rxVars, txVars, addrVars, msgVars, envVars, led, cnt, rx,
                 history>>

AbortTransmit ==
  /\ pc = "abort"
  /\ usbTxLen' = USBPID_NAK
  /\ Goto("setup")
  /\ UNCHANGED <<rxVars, usbTxBuf, addrVars, msgVars, envVars, led, cnt, rx,
                 history>>

set_led(val) == led' = IF val = 0 THEN 0 ELSE 1

SamplePart(i) == Word(EnvFields[i], environment[EnvFields[i]])

\* Faulty variant: the message pointer goes on where the last answer ended.
usbFunctionSetupKeepOffset(r) ==
  /\ usbMsgPtr' = [usbMsgPtr EXCEPT !.buf = "replyBuf"]
  /\ replyBuf' = IF r.name = "getEnv" THEN [i \in 1 .. 4 |-> SamplePart(i)]
                 ELSE replyBuf
  /\ UNCHANGED <<led, usbTxBuf, usbNewDeviceAddr, usbConfiguration>>

usbFunctionSetup(r) ==
  /\ usbMsgPtr' = [buf |-> "replyBuf", off |-> 0]
  /\ replyBuf' =
       IF r.name = "echo" THEN [replyBuf EXCEPT ![1] = Word("echo", r.value)]
       ELSE IF r.name = "getVersion"
            THEN [replyBuf EXCEPT ![1] = Word("version", 0)]
       ELSE IF r.name = "getEnv" THEN [i \in 1 .. 4 |-> SamplePart(i)]
       ELSE replyBuf
  /\ IF r.name = "setLed" THEN set_led(r.value) ELSE UNCHANGED led
  /\ UNCHANGED <<usbTxBuf, usbNewDeviceAddr, usbConfiguration>>

\* The status and interface replies are built in the last two bytes of the
\* transmit buffer itself.
usbDriverSetup(r) ==
  /\ usbTxBuf' = [usbTxBuf EXCEPT !.tail = "status"]
  /\ usbMsgPtr' = IF r.name = "getDescriptor"
                  THEN IF r.value \in 1 .. 5
                       THEN [buf |-> "rom", off |-> 128 * r.value]
                       ELSE usbMsgPtr
                  ELSE IF r.name = "getConfiguration"
                  THEN [buf |-> "usbConfiguration", off |-> 0]
                  ELSE [buf |-> "txTail", off |-> 0]
  /\ usbNewDeviceAddr' = IF r.name = "setAddress" THEN r.value
                         ELSE usbNewDeviceAddr
  /\ usbConfiguration' = IF r.name = "setConfiguration" THEN r.value
                         ELSE usbConfiguration
  /\ UNCHANGED <<replyBuf, led>>

\* Faulty variant: the request is read from the half being received into.
ServeSetupWrongHalf ==
  LET r == usbRxBuf[1 - rx.half] IN
  /\ pc = "setup"
  /\ IF r.name \in VendorNames THEN usbFunctionSetup(r) ELSE usbDriverSetup(r)
  /\ usbMsgLen' = ReplyLength(r)
  /\ current' = IF "rx" \in current THEN {"rx", "msg"} ELSE {}
  /\ answer' = Reply(acked, environment.temperature, usbConfiguration)
  /\ Goto("free")
  /\ UNCHANGED <<rxVars, usbTxLen, usbDeviceAddr, envVars, cnt, rx, acked>>

\* The request is served from the receive buffer, in place.
ServeSetup ==
  LET r == usbRxBuf[rx.half] IN
  /\ pc = "setup"
  /\ IF r.name \in VendorNames THEN usbFunctionSetup(r) ELSE usbDriverSetup(r)
  /\ usbMsgLen' = ReplyLength(r)
  /\ current' = IF "rx" \in current THEN {"rx", "msg"} ELSE {}
  /\ answer' = Reply(acked, environment.temperature, usbConfiguration)
  /\ Goto("free")
  /\ UNCHANGED <<rxVars, usbTxLen, usbDeviceAddr, envVars, cnt, rx, acked>>

\* Faulty variant: the receive buffer is not marked as available.
FreeRxNot ==
  /\ pc = "free"
  /\ Goto("txCheck")
  /\ UNCHANGED <<rxVars, txVars, addrVars, msgVars, envVars, led, cnt, rx,
                 history>>

FreeRx ==
  /\ pc = "free"
  /\ usbRxLen' = 0
  /\ Goto("txCheck")
  /\ UNCHANGED <<usbRxBuf, usbInputBufOffset, usbRxToken, usbCurrentTok,
                 txVars, addrVars, msgVars, envVars, led, cnt, rx, history>>

\* Faulty variant: the next packet is built although one is waiting.
CheckTxAlways ==
  /\ pc = "txCheck"
  /\ Goto(IF usbMsgLen # USB_NO_MSG THEN "build" ELSE "reset")
  /\ UNCHANGED <<rxVars, txVars, addrVars, msgVars, envVars, led, cnt, rx,
                 history>>

CheckTx ==
  /\ pc = "txCheck"
  /\ Goto(IF usbTxLen = USBPID_NAK /\ usbMsgLen # USB_NO_MSG
          THEN "build" ELSE "reset")
  /\ UNCHANGED <<rxVars, txVars, addrVars, msgVars, envVars, led, cnt, rx,
                 history>>

\* Word i of what the message pointer points to.
MessageWord(i) ==
  LET w == usbMsgPtr.off \div 4 + i IN
  IF usbMsgPtr.buf = "replyBuf" THEN replyBuf[w]
  ELSE IF usbMsgPtr.buf = "rom" THEN RomWord(w)
  ELSE IF usbMsgPtr.buf = "usbConfiguration"
       THEN Word("config", usbConfiguration)
  ELSE Word(usbTxBuf.tail, 0)

Toggle(pid) == IF pid = "DATA0" THEN "DATA1" ELSE "DATA0"

\* A packet of seven or eight bytes puts its CRC into the buffer's tail.  A
\* packet of fewer than eight bytes ends the message.
usbBuildTxBlock ==
  LET wantLen == IF usbMsgLen > 8 THEN 8 ELSE usbMsgLen IN
  /\ pc = "build"
  /\ usbTxBuf' = [pid |-> Toggle(usbTxBuf.pid),
                  len |-> wantLen,
                  words |-> [i \in 1 .. WordCount(wantLen) |-> MessageWord(i)],
                  tail |-> IF wantLen >= 7 THEN "crc" ELSE usbTxBuf.tail]
  /\ usbMsgPtr' = [usbMsgPtr EXCEPT !.off = @ + wantLen]
  /\ usbMsgLen' = IF wantLen < 8 THEN USB_NO_MSG ELSE usbMsgLen - wantLen
  /\ current' = IF "msg" \in current THEN current \cup {"tx"}
                ELSE current \ {"tx"}
  /\ Goto("publish")
  /\ UNCHANGED <<rxVars, usbTxLen, addrVars, usbConfiguration, replyBuf,
                 envVars, led, cnt, rx, acked, answer>>

PublishTx ==
  /\ pc = "publish"
  /\ usbTxLen' = usbTxBuf.len + 4
  /\ Goto("reset")
  /\ UNCHANGED <<rxVars, usbTxBuf, addrVars, msgVars, envVars, led, cnt, rx,
                 history>>

\* Faulty variant: a reset leaves the address to be assigned.
CheckResetKeepNew(se0) ==
  /\ pc = "reset"
  /\ usbDeviceAddr' = IF se0 THEN 0 ELSE usbDeviceAddr
  /\ Goto(IF cnt <= CntMax THEN "poll" ELSE "convert")
  /\ UNCHANGED <<rxVars, txVars, usbNewDeviceAddr, msgVars, envVars, led, cnt,
                 rx, history>>

\* se0: the bus has shown SE0 for all of the loop's samples.  The address is
\* all that a bus reset clears.
CheckReset(se0) ==
  /\ pc = "reset"
  /\ IF se0 THEN usbNewDeviceAddr' = 0 /\ usbDeviceAddr' = 0
            ELSE UNCHANGED addrVars
  /\ Goto(IF cnt <= CntMax THEN "poll" ELSE "convert")
  /\ UNCHANGED <<rxVars, txVars, msgVars, envVars, led, cnt, rx, history>>

-----------------------------------------------------------------------------
(* The rest of the main loop: one measurement. *)

Convert(s) ==
  /\ pc = "convert"
  /\ environment' = [environment EXCEPT !.temperature = s, !.pressure = s]
  /\ Goto("measureT2")
  /\ UNCHANGED <<rxVars, txVars, addrVars, msgVars, ledon, led, cnt, rx,
                 history>>

MeasureTemperature2 ==
  /\ pc = "measureT2"
  /\ environment' = [environment EXCEPT !.temperature2 =
                                           environment.temperature]
  /\ Goto("measureH")
  /\ UNCHANGED <<rxVars, txVars, addrVars, msgVars, ledon, led, cnt, rx,
                 history>>

\* Faulty variant: cnt is not reset after a measurement.
MeasureHumidityNoReset ==
  /\ pc = "measureH"
  /\ environment' = [environment EXCEPT !.humidity = environment.temperature]
  /\ ledon' = 1 - ledon
  /\ set_led(ledon')
  /\ Goto("poll")
  /\ UNCHANGED <<rxVars, txVars, addrVars, msgVars, cnt, rx, history>>

\* The blink overwrites whatever a host made of the LED.
MeasureHumidity ==
  /\ pc = "measureH"
  /\ environment' = [environment EXCEPT !.humidity = environment.temperature]
  /\ cnt' = 0
  /\ ledon' = 1 - ledon
  /\ set_led(ledon')
  /\ Goto("poll")
  /\ UNCHANGED <<rxVars, txVars, addrVars, msgVars, rx, history>>

-----------------------------------------------------------------------------

\* The steps whose effect does not depend on the bus.
MainStep ==
  \/ PollRx \/ ProcessRx \/ AbortTransmit \/ ServeSetup \/ FreeRx
  \/ CheckTx \/ usbBuildTxBlock \/ PublishTx
  \/ \E s \in Samples : Convert(s)
  \/ MeasureTemperature2 \/ MeasureHumidity

\* Sizes of data packets: none, one and eight bytes between PID and CRC.
PacketSizes == {3, 4, 11}

Packet ==
  \/ \E pid \in {"SETUP", "OUT", "IN", "handshake"}, addr \in Addresses :
       HandleToken(pid, addr)
  \/ \E payload \in Payloads, n \in PacketSizes : HandleData(payload, n)
  \/ \E addr \in Addresses : HandleIn(addr)

DeviceNext ==
  \/ MainStep
  \/ \E se0 \in BOOLEAN : CheckReset(se0)
  \/ Packet

DeviceSpec == DeviceInit /\ [][DeviceNext]_deviceVars

-----------------------------------------------------------------------------
(* Properties *)

Words == [src : {"zero", "echo", "version", "rom", "config", "status", "crc"},
          val : Nat]
         \cup [src : {EnvFields[i] : i \in 1 .. 4}, val : Readings]

RxTypeOK ==
  /\ usbRxBuf \in [{0, 1} -> Payloads]
  /\ usbInputBufOffset \in {0, 1}
  /\ usbRxLen \in {0} \cup (4 .. 11)
  /\ usbRxToken \in Tokens
  /\ usbCurrentTok \in Tokens

TxTypeOK ==
  /\ usbTxLen \in (4 .. 12) \cup {USBPID_NAK}
  /\ usbTxBuf \in [pid : {"none", "DATA0", "DATA1"}, len : 0 .. 8,
                   words : Seq(Words), tail : {"zero", "status", "crc"}]

AddrTypeOK == usbDeviceAddr \in 0 .. 127 /\ usbNewDeviceAddr \in 0 .. 255

MsgTypeOK ==
  /\ usbMsgPtr \in [buf : {"null", "replyBuf", "rom", "usbConfiguration",
                           "txTail"}, off : Nat]
  /\ usbMsgLen \in MsgLen \cup {USB_NO_MSG}
  /\ usbConfiguration \in 0 .. 255
  /\ replyBuf \in [1 .. 4 -> Words]

MainTypeOK ==
  /\ environment \in [temperature : Readings, pressure : Readings,
                      temperature2 : Readings, humidity : Readings]
  /\ led \in {0, 1}
  /\ ledon \in {0, 1}
  /\ cnt \in 0 .. CntMax + 1
  /\ pc \in MainSteps
  /\ rx \in [half : {0, 1}, len : 0 .. 8]

HistoryTypeOK ==
  /\ acked \in Payloads
  /\ current \subseteq {"rx", "msg", "tx"}
  /\ answer \in [len : MsgLen, words : Seq(Words)]

\* Every variable stays within what its C type and its use allow.
DeviceTypeOK ==
  RxTypeOK /\ TxTypeOK /\ AddrTypeOK /\ MsgTypeOK /\ MainTypeOK /\ HistoryTypeOK

\* The rest of a message in replyBuf lies within the sixteen bytes that the
\* longest answer fills, and is read in whole packets: usbDeviceRead's loop
\* has no bound of its own.
ReadInBounds ==
  usbMsgPtr.buf = "replyBuf" /\ usbMsgLen \notin {0, USB_NO_MSG} =>
    usbMsgPtr.off % 8 = 0 /\ usbMsgPtr.off + usbMsgLen <= 16

\* The interrupt would send usbTxBuf if an IN arrived now.
CanTransmit == usbRxLen = 0 /\ usbTxLen # USBPID_NAK

\* A SETUP that was acknowledged is still in the half of usbRxBuf the main
\* loop reads, unchanged by the packets received since, until it is served:
\* the swap of the halves (asmcommon.inc) against usbPoll's pointer.
RequestIntact ==
  usbRxLen = 11 /\ usbRxToken = "SETUP" =>
    /\ usbRxBuf[1 - usbInputBufOffset] = acked
    /\ pc \in {"process", "abort", "setup"} => usbRxBuf[rx.half] = acked

\* Whatever the interrupt could send was built from the last SETUP it
\* acknowledged, never from an earlier one the host has given up: the order
\* of usbRxLen, usbTxLen and usbMsgLen in usbPoll against handleIn.
NoStaleReply == CanTransmit => "tx" \in current

\* Bytes of the answer that precede the built packet.
BytesBefore ==
  answer.len - usbTxBuf.len - (IF usbMsgLen = USB_NO_MSG THEN 0 ELSE usbMsgLen)

\* The packet the interrupt could send is the next slice of the answer that
\* SETUP was owed, with the DATA toggle of its place in the answer; for
\* getEnv, all four fields come from one measurement.
ReplyCorrect ==
  CanTransmit =>
    /\ BytesBefore >= 0
    /\ usbTxBuf.words = [i \in 1 .. WordCount(usbTxBuf.len) |->
                            answer.words[BytesBefore \div 4 + i]]
    /\ usbTxBuf.pid = IF BytesBefore % 16 = 0 THEN "DATA1" ELSE "DATA0"

\* The main loop never touches the transmit buffer while the interrupt could
\* send it: there is no lock, only usbTxLen and usbRxLen.
TxBufExclusive == [][CanTransmit => usbTxBuf' = usbTxBuf]_deviceVars

\* The interrupt never overwrites the length of a packet the main loop has
\* received but not freed, and no acknowledged packet is dropped: usbRxLen
\* goes from one packet to the next only through 0, at the step that frees it.
NothingDropped ==
  [][usbRxLen # 0 /\ usbRxLen' # usbRxLen =>
       pc = "free" /\ usbRxLen' = 0 /\ rx.len = usbRxLen - 3]_deviceVars
=============================================================================
