------------------------------- MODULE UsbBus -------------------------------
(* The firmware of UsbDevice on a bus with its host.  The host side stands  *)
(* for the host controller, the kernel and libusb or gousb below            *)
(* app/main.c and collector/usb.go: it is not in the repository and is      *)
(* modelled from what those callers rely on, one control transfer at a      *)
(* time, each transfer in transactions of token, data and handshake.        *)
EXTENDS UsbDevice

CONSTANTS Faults,       \* which of "abort", "reset", "foreign" may happen
          MaxLoss       \* packets the bus may lose

\* A host assigns addresses that tokens can carry.
ASSUME HostAssumption ==
  /\ 0 \in Addresses
  /\ \A r \in Requests : r.name = "setAddress" => r.value \in Addresses

VARIABLES
  phase,                \* what the host does next
  request,              \* the request of the running transfer, or NoRequest
  hostAddr,             \* the address the host uses for the device
  toggle,               \* the PID the host expects on the next data packet
  got, gotLen,          \* what it has received so far
  se0,                  \* the host drives a bus reset
  resetSeen,            \* the main loop has noticed that reset
  missed,               \* history: the last reset passed unnoticed
  lost                  \* history: packets lost so far

transferVars == <<request, toggle, got, gotLen>>
resetVars == <<se0, resetSeen, missed>>
hostVars == <<phase, transferVars, hostAddr, resetVars, lost>>
busVars == <<deviceVars, hostVars>>

BetweenTransactions == {"setup", "dataIn", "statusIn", "statusOut"}

BusInit ==
  /\ DeviceInit
  /\ phase = "idle"
  /\ request = NoRequest
  /\ hostAddr = 0
  /\ toggle = "DATA1"
  /\ got = << >>
  /\ gotLen = 0
  /\ se0 = FALSE
  /\ resetSeen = FALSE
  /\ missed = FALSE
  /\ lost = 0

Turn(next) == phase' = next

-----------------------------------------------------------------------------
(* A transfer without faults *)

\* Before it has an address a device is only asked for its device descriptor
\* and given an address.
MayAsk(r) ==
  IF hostAddr = 0
  THEN r.name = "setAddress" \/ (r.name = "getDescriptor" /\ r.value = 1)
  ELSE r.name # "setAddress"

Ask(r) ==
  /\ phase = "idle"
  /\ MayAsk(r)
  /\ request' = r
  /\ Turn("setup")
  /\ UNCHANGED <<deviceVars, toggle, got, gotLen, hostAddr, resetVars, lost>>

SendSetup ==
  /\ phase = "setup"
  /\ HandleToken("SETUP", hostAddr)
  /\ Turn("setupData")
  /\ UNCHANGED <<transferVars, hostAddr, resetVars, lost>>

AfterSetup == IF request.wLength = 0 THEN "statusIn" ELSE "dataIn"

\* A SETUP that is not acknowledged is sent again.
SendSetupData ==
  /\ phase = "setupData"
  /\ HandleData(request, 11)
  /\ Turn(IF DataHandshake(11) = "ACK" THEN AfterSetup ELSE "setup")
  /\ UNCHANGED <<transferVars, hostAddr, resetVars, lost>>

\* A data packet is the last when it is short or the host has all it wanted.
LastPacket == usbTxBuf.len < 8 \/ gotLen + usbTxBuf.len >= request.wLength

\* A packet with the wrong toggle is taken for a repetition: acknowledged
\* and dropped.
ReceiveData ==
  IF usbTxBuf.pid = toggle
  THEN /\ got' = got \o usbTxBuf.words
       /\ gotLen' = gotLen + usbTxBuf.len
       /\ toggle' = Toggle(toggle)
       /\ Turn(IF LastPacket THEN "ackLast" ELSE "ackMore")
  ELSE Turn("ackMore") /\ UNCHANGED <<got, gotLen, toggle>>

\* NAK and silence both make the host ask again.
SendIn ==
  /\ phase \in {"dataIn", "statusIn"}
  /\ IF hostAddr = usbDeviceAddr THEN HandleIn(hostAddr)
                                 ELSE HandleToken("IN", hostAddr)
  /\ IF hostAddr = usbDeviceAddr /\ InHandshake = "DATA"
     THEN ReceiveData
     ELSE UNCHANGED <<phase, got, gotLen, toggle>>
  /\ UNCHANGED <<request, hostAddr, resetVars, lost>>

AfterAck ==
  IF phase = "ackMore" THEN AfterSetup
  ELSE IF request.wLength = 0 THEN "done" ELSE "statusOut"

SendAck ==
  /\ phase \in {"ackMore", "ackLast"}
  /\ HandleToken("handshake", hostAddr)
  /\ Turn(AfterAck)
  /\ UNCHANGED <<transferVars, hostAddr, resetVars, lost>>

SendStatusOut ==
  /\ phase = "statusOut"
  /\ HandleToken("OUT", hostAddr)
  /\ Turn("statusOutData")
  /\ UNCHANGED <<transferVars, hostAddr, resetVars, lost>>

SendStatusOutData ==
  /\ phase = "statusOutData"
  /\ HandleData(NoRequest, 3)
  /\ Turn(IF DataHandshake(3) = "ACK" THEN "done" ELSE "statusOut")
  /\ UNCHANGED <<transferVars, hostAddr, resetVars, lost>>

ForgetTransfer ==
  /\ request' = NoRequest
  /\ toggle' = "DATA1"
  /\ got' = << >>
  /\ gotLen' = 0

Finish ==
  /\ phase = "done"
  /\ ForgetTransfer
  /\ hostAddr' = IF request.name = "setAddress" THEN request.value
                 ELSE hostAddr
  /\ Turn("idle")
  /\ UNCHANGED <<deviceVars, resetVars, lost>>

HostStep ==
  \/ SendSetup \/ SendSetupData \/ SendIn \/ SendAck
  \/ SendStatusOut \/ SendStatusOutData \/ Finish

-----------------------------------------------------------------------------
(* Faults *)

\* The timeout of the caller ends the transfer between two transactions.  A
\* host that could not assign an address resets the device next.
Abort ==
  /\ "abort" \in Faults
  /\ phase \in BetweenTransactions
  /\ IF request.name = "setAddress"
     THEN Turn("mustReset") /\ UNCHANGED transferVars
     ELSE Turn("idle") /\ ForgetTransfer
  /\ UNCHANGED <<deviceVars, hostAddr, resetVars, lost>>

BeginReset ==
  /\ "reset" \in Faults
  /\ phase \in {"idle", "mustReset"}
  /\ se0' = TRUE
  /\ resetSeen' = FALSE
  /\ ForgetTransfer
  /\ hostAddr' = 0
  /\ Turn("resetting")
  /\ UNCHANGED <<deviceVars, missed, lost>>

\* A reset outlasts many passes of the main loop, so a polling device has
\* emptied its receive buffer and noticed the reset when it ends; only a
\* device that is measuring can miss it.
EndReset ==
  /\ phase = "resetting"
  /\ resetSeen \/ pc \in Measuring
  /\ se0' = FALSE
  /\ missed' = ~resetSeen
  /\ resetSeen' = FALSE
  /\ Turn("idle")
  /\ UNCHANGED <<deviceVars, transferVars, hostAddr, lost>>

\* A transaction with another device passes by between two of ours.
ForeignTraffic ==
  /\ "foreign" \in Faults
  /\ phase \in BetweenTransactions
  /\ \E addr \in Addresses \ {hostAddr, usbDeviceAddr} :
       HandleToken("OUT", addr)
  /\ UNCHANGED hostVars

Lose == lost < MaxLoss /\ lost' = lost + 1

\* SETUP and OUT tokens: the data that follows is sent all the same.
LoseToken ==
  /\ Lose
  /\ \/ phase = "setup" /\ Turn("setupData")
     \/ phase = "statusOut" /\ Turn("statusOutData")
  /\ UNCHANGED <<deviceVars, transferVars, hostAddr, resetVars>>

RepeatTransaction == Turn(IF phase = "setupData" THEN "setup" ELSE "statusOut")

LoseDataOut ==
  /\ Lose
  /\ phase \in {"setupData", "statusOutData"}
  /\ RepeatTransaction
  /\ UNCHANGED <<deviceVars, transferVars, hostAddr, resetVars>>

LoseHandshake ==
  /\ Lose
  /\ \/ phase = "setupData" /\ HandleData(request, 11)
     \/ phase = "statusOutData" /\ HandleData(NoRequest, 3)
  /\ RepeatTransaction
  /\ UNCHANGED <<transferVars, hostAddr, resetVars>>

LoseDataIn ==
  /\ Lose
  /\ phase \in {"dataIn", "statusIn"}
  /\ InHandshake = "DATA"
  /\ HandleIn(hostAddr)
  /\ UNCHANGED <<phase, transferVars, hostAddr, resetVars>>

LoseAck ==
  /\ Lose
  /\ phase \in {"ackMore", "ackLast"}
  /\ Turn(AfterAck)
  /\ UNCHANGED <<deviceVars, transferVars, hostAddr, resetVars>>

Fault ==
  \/ Abort \/ BeginReset \/ EndReset \/ ForeignTraffic
  \/ LoseToken \/ LoseDataOut \/ LoseHandshake \/ LoseDataIn \/ LoseAck

-----------------------------------------------------------------------------

DeviceStep ==
  \/ MainStep /\ UNCHANGED hostVars
  \/ /\ CheckReset(se0)
     /\ resetSeen' = (resetSeen \/ (se0 /\ usbRxLen = 0))
     /\ UNCHANGED <<phase, transferVars, hostAddr, se0, missed, lost>>

BusNext ==
  \/ DeviceStep
  \/ \E r \in Requests : Ask(r)
  \/ HostStep
  \/ Fault

BusSpec == BusInit /\ [][BusNext]_busVars

\* The main loop has no blocking call and the host controller schedules a
\* pending transfer in every frame.
BusFairSpec == BusSpec /\ WF_busVars(DeviceStep) /\ WF_busVars(HostStep)

-----------------------------------------------------------------------------
(* Properties *)

Phases == BetweenTransactions \cup
  {"idle", "setupData", "ackMore", "ackLast", "statusOutData", "done",
   "mustReset", "resetting"}

BusTypeOK ==
  /\ DeviceTypeOK
  /\ phase \in Phases
  /\ request \in Payloads
  /\ hostAddr \in 0 .. 127
  /\ toggle \in {"DATA0", "DATA1"}
  /\ gotLen \in 0 .. 255
  /\ Len(got) <= WordCount(gotLen) + 1
  /\ {se0, resetSeen, missed} \subseteq BOOLEAN
  /\ lost \in 0 .. MaxLoss

Answered == phase = "done" /\ "msg" \in current /\ acked = request

\* On a bus that loses nothing, a transfer ends with the whole answer to its
\* own request, computed in one state, whatever transfers were given up
\* before it and whatever the main loop was doing: set_led has happened when
\* a setLed returns, and a getEnv never mixes two measurements.
CompleteReply ==
  phase = "done" => Answered /\ got = answer.words /\ gotLen = answer.len

\* With lost packets the driver (asmcommon.inc, "assuming that no error
\* occurs") may skip parts of an answer.  A getEnv that ends at all still
\* ends with all sixteen bytes of its own answer or with none.
AllOrNothing ==
  phase = "done" /\ request.name = "getEnv" =>
    Answered /\ (gotLen = 0 \/ got = answer.words)

\* A lost handshake makes the host repeat a SETUP, a lost token may turn it
\* into data of an OUT: a transfer that ends has been served all the same.
DoneMeansServed == phase = "done" => Answered

\* The host is never sent more than it asked for.
NeverOverrun == gotLen <= request.wLength

\* The values main() starts with, which are not a measurement, never reach
\* the host, although the interrupt and usbPoll are active before the first
\* measurement: the first pass of the loop measures, and a host needs more
\* than one pass to give the device an address.
PlaceholderNeverServed ==
  \A i \in 1 .. Len(got) : got[i].val # Placeholder

AddressChanging == request.name = "setAddress" \/ se0

\* Device and host agree on the address except while it changes, and for as
\* long as the last bus reset went unnoticed because the main loop was
\* measuring.
AddressAgreement ==
  ~AddressChanging /\ ~missed =>
    usbDeviceAddr = hostAddr /\ usbNewDeviceAddr = hostAddr

\* Without aborts and losses a SETUP always finds the receive buffer free,
\* however long a measurement has kept the main loop from polling: a host
\* may give up on a device that does not acknowledge SETUP.
SetupNeverNaked == phase = "setupData" => DataHandshake(11) = "ACK"

\* Every transfer the host starts ends, however the host's packets, the
\* passes of the main loop, measurements and other traffic interleave.
TransferCompletes == (phase = "setup") ~> (phase = "done")

-----------------------------------------------------------------------------
(* UsbBus without losses implements ControlTransfer. *)

\* Acknowledged by the interrupt, not yet served by usbPoll.
Unserved == usbRxLen = 11 /\ usbRxToken = "SETUP" /\ pc # "free"

AbstractStage ==
  IF phase \in {"idle", "mustReset", "resetting"} THEN "idle"
  ELSE IF phase \in {"setup", "setupData"} THEN "asked"
  ELSE IF phase = "done" THEN "done"
  ELSE IF "msg" \in current THEN "served" ELSE "taken"

Abstract == INSTANCE ControlTransfer WITH
  stage <- AbstractStage,
  asked <- IF AbstractStage = "idle" THEN NoRequest ELSE request,
  pending <- IF Unserved THEN acked ELSE NoRequest,
  answer <- IF AbstractStage = "served" THEN answer ELSE NoReply,
  result <- IF phase = "done" THEN [len |-> gotLen, words |-> got]
            ELSE NoReply,
  sample <- environment.humidity,
  configuration <- usbConfiguration

\* Serving a request, wherever usbPoll is preempted, is one step between
\* asking and getting the answer, taken exactly once per request.
ImplementsControlTransfer == Abstract!Spec
=============================================================================
