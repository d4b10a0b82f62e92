-------------------------- MODULE UsbTransferProofs --------------------------
(* What a transfer is on a bus, in two parts.                               *)
(*                                                                           *)
(* 1. On a bus that loses nothing, whatever is given up and wherever the bus *)
(*    is reset, a transfer ends with the whole answer to its own request,    *)
(*    never more than was asked for and never the placeholder, and is one    *)
(*    atomic call, in that UsbBus implements ControlTransfer.                *)
(* 2. When the bus loses packets as well, any number of them in any place, a *)
(*    transfer that ends was served, a getEnv ends with all of its answer or *)
(*    with none, the host is never sent more than it asked for, and device   *)
(*    and host agree on the address.                                         *)
EXTENDS UsbProofs

-----------------------------------------------------------------------------
(* Part 1: a bus that loses nothing *)

\* A packet is built and the host has not taken it.
Unsent == usbTxLen # USBPID_NAK \/ pc = "publish"

\* The answer has the length its request is owed, and only the packet that
\* ends it is short.
AnswerOK ==
  "msg" \in current =>
    /\ answer.len = ReplyLength(acked)
    /\ Len(answer.words) = WordCount(answer.len)
    /\ Unsent => (usbTxBuf.len < 8 <=> usbMsgLen = USB_NO_MSG)

Prefix(n) == [i \in 1 .. WordCount(n) |-> answer.words[i]]

NothingReceived == got = << >> /\ gotLen = 0 /\ toggle = "DATA1"

\* The host has what the device has sent: the packet that waits, or else the
\* rest of the message, is what follows.
InStep ==
  /\ gotLen \in Nat
  /\ gotLen % 8 = 0
  /\ gotLen <= answer.len
  /\ toggle = IF gotLen % 16 = 0 THEN "DATA1" ELSE "DATA0"
  /\ got = Prefix(gotLen)
  /\ IF Unsent THEN BytesBefore = gotLen
     ELSE usbMsgLen # USB_NO_MSG /\ Packed = gotLen

Complete == got = answer.words /\ gotLen = answer.len

\* Nothing is received yet, a part of the answer is, all of it is.
Before == {"idle", "setup", "setupData", "resetting"}
During == {"dataIn", "statusIn", "ackMore"}
After == {"ackLast", "statusOut", "statusOutData", "done"}

ReceivedOK ==
  /\ phase \in Before => NothingReceived
  /\ phase \in During => IF "msg" \in current THEN InStep ELSE NothingReceived
  /\ phase \in After => Complete

\* A transfer given up keeps what it received until the bus is reset.
LengthOK == gotLen \in 0 .. request.wLength

AskedOK == phase \notin {"idle", "resetting"} => request \in Requests

TransferInv == AnswerOK /\ ReceivedOK /\ LengthOK /\ AskedOK

USE RequestsAssumption, SamplesAssumption, AddressesAssumption,
    CntMaxAssumption
USE DEF rxVars, txVars, addrVars, msgVars, envVars, history, deviceVars,
        transferVars, resetVars, hostVars, Goto, Turn, USBPID_NAK, USB_NO_MSG,
        MsgLen

-----------------------------------------------------------------------------
(* Lengths and words *)

\* No answer is longer than the host's wLength.
LEMMA ReplyLimit ==
  ASSUME NEW r \in Payloads
  PROVE  /\ r.wLength \in Nat
         /\ ReplyLength(r) \in 0 .. 28
         /\ ReplyLength(r) <= r.wLength
<1>1. r \in RequestType
  BY PayloadType
<1>2. r.wLength \in Nat /\ ReplyLength(r) \in 0 .. 28
  BY <1>1, ReplyLengthBound DEF RequestType
<1>3. r.value \in 0 .. 255
  BY <1>1 DEF RequestType
<1>4. FullLength(r) \in 0 .. 28
  BY <1>3 DEF FullLength, DescriptorLength
<1>5. \A n \in 0 .. 28, w \in Nat : LimitLength(n, w) <= w
  <2> TAKE n \in 0 .. 28, w \in Nat
  <2>1. w = 256 * (w \div 256) + (w % 256) /\ w % 256 \in 0 .. 255
        /\ w \div 256 \in Nat
    OBVIOUS
  <2>2. CASE w \div 256 = 0
    BY <2>1, <2>2 DEF LimitLength
  <2>3. CASE w \div 256 # 0
    <3>1. w >= 256
      BY <2>1, <2>3
    <3> QED
      BY <2>3, <3>1 DEF LimitLength
  <2> QED
    BY <2>2, <2>3
<1> QED
  BY <1>2, <1>4, <1>5 DEF ReplyLength

LEMMA PacketWords ==
  ASSUME NEW n \in Nat, NEW k \in Nat, n % 8 = 0
  PROVE  /\ WordCount(n) = n \div 4 /\ WordCount(n) \in Nat
         /\ WordCount(k) \in Nat
         /\ WordCount(n + k) = n \div 4 + WordCount(k)
<1>1. n = 4 * (n \div 4) /\ n \div 4 \in Nat
  OBVIOUS
<1>2. \A m \in Nat : (n + m) \div 4 = n \div 4 + m \div 4
  BY <1>1
<1>3. WordCount(n) = n \div 4
  BY <1>1 DEF WordCount
<1>4. WordCount(n + k) = (n + (k + 3)) \div 4
  BY DEF WordCount
<1>5. WordCount(n + k) = n \div 4 + (k + 3) \div 4
  BY <1>2, <1>4
<1> QED
  BY <1>1, <1>3, <1>5, WordCounts DEF WordCount

\* A slice appended to the part before it.
LEMMA Appended ==
  ASSUME NEW S, NEW s \in Seq(S), NEW m \in Nat, NEW k \in Nat,
         m + k <= Len(s)
  PROVE  [i \in 1 .. m |-> s[i]] \o [i \in 1 .. k |-> s[m + i]]
           = [i \in 1 .. m + k |-> s[i]]
<1> DEFINE a == [i \in 1 .. m |-> s[i]]
           b == [i \in 1 .. k |-> s[m + i]]
           c == [i \in 1 .. m + k |-> s[i]]
<1>1. a \in Seq(S) /\ Len(a) = m
  OBVIOUS
<1>2. b \in Seq(S) /\ Len(b) = k
  OBVIOUS
<1>3. c \in Seq(S) /\ Len(c) = m + k
  OBVIOUS
<1>4. a \o b \in Seq(S) /\ Len(a \o b) = m + k
  BY <1>1, <1>2
<1>5. ASSUME NEW i \in 1 .. m + k PROVE (a \o b)[i] = c[i]
  <2>1. CASE i \in 1 .. m
    BY <1>1, <1>2, <2>1
  <2>2. CASE i \in m + 1 .. m + k
    <3>1. i - m \in 1 .. k /\ m + (i - m) = i
      BY <2>2
    <3>2. (a \o b)[i] = b[i - m]
      BY <1>1, <1>2, <2>2
    <3> QED
      BY <3>1, <3>2
  <2> QED
    BY <2>1, <2>2
<1> QED
  BY <1>3, <1>4, <1>5

LEMMA WholePrefix ==
  ASSUME NEW S, NEW s \in Seq(S)
  PROVE  [i \in 1 .. Len(s) |-> s[i]] = s
  OBVIOUS

-----------------------------------------------------------------------------
(* Steps that neither serve, build nor take a packet *)

DeviceQuiet ==
  /\ UNCHANGED <<acked, current, answer, usbMsgLen>>
  /\ usbTxBuf'.len = usbTxBuf.len
  /\ "msg" \in current => (Unsent' <=> Unsent)

SamePart ==
  /\ phase' \in Before => phase \in Before
  /\ phase' \in During => phase \in During
  /\ phase' \in After => phase \in After

LEMMA QuietStep ==
  ASSUME TransferInv, DeviceQuiet, SamePart,
         UNCHANGED <<request, toggle, got, gotLen>>,
         phase' \notin {"idle", "resetting"} => request' \in Requests
  PROVE  TransferInv'
<1>1. AnswerOK'
  BY DEF TransferInv, AnswerOK, DeviceQuiet
<1>2. ReceivedOK'
  <2>1. CASE phase' \in Before
    BY <2>1 DEF TransferInv, ReceivedOK, SamePart, NothingReceived, Before,
                During, After
  <2>2. CASE phase' \in During
    <3>1. IF "msg" \in current THEN InStep ELSE NothingReceived
      BY <2>2 DEF TransferInv, ReceivedOK, SamePart
    <3>2. CASE "msg" \in current
      BY <2>2, <3>1, <3>2
         DEF DeviceQuiet, InStep, Prefix, BytesBefore, Packed, ReceivedOK, Before,
             During, After
    <3>3. CASE "msg" \notin current
      BY <2>2, <3>1, <3>3 DEF DeviceQuiet, NothingReceived, ReceivedOK, Before,
                              During, After
    <3> QED
      BY <3>2, <3>3
  <2>3. CASE phase' \in After
    BY <2>3 DEF TransferInv, ReceivedOK, SamePart, Complete, DeviceQuiet, Before,
                During, After
  <2>4. CASE phase' \notin Before \cup During \cup After
    BY <2>4 DEF ReceivedOK
  <2> QED
    BY <2>1, <2>2, <2>3, <2>4
<1>3. LengthOK' /\ AskedOK'
  BY DEF TransferInv, LengthOK, AskedOK
<1> QED
  BY <1>1, <1>2, <1>3 DEF TransferInv

\* All steps of the main loop but the two that handle messages.
LEMMA QuietMainStep ==
  ASSUME IInv,
         \/ PollRx \/ ProcessRx \/ AbortTransmit \/ FreeRx \/ CheckTx
         \/ PublishTx \/ (\E bus \in BOOLEAN : CheckReset(bus))
         \/ (\E s \in Samples : Convert(s))
         \/ MeasureTemperature2 \/ MeasureHumidity
  PROVE  DeviceQuiet
<1>1. CASE PollRx
  BY <1>1 DEF PollRx, DeviceQuiet, Unsent
<1>2. CASE ProcessRx
  BY <1>2 DEF ProcessRx, DeviceQuiet, Unsent, IInv, DeviceTypeOK, TxTypeOK
<1>3. CASE AbortTransmit
  <2>1. Pending
    BY <1>3 DEF AbortTransmit, Pending, IInv, RxArguments
  <2>2. "msg" \notin current
    BY <2>1 DEF IInv, RxKept
  <2> QED
    BY <1>3, <2>2 DEF AbortTransmit, DeviceQuiet
<1>4. CASE FreeRx
  BY <1>4 DEF FreeRx, DeviceQuiet, Unsent
<1>5. CASE CheckTx
  BY <1>5 DEF CheckTx, DeviceQuiet, Unsent
<1>6. CASE PublishTx
  <2>1. usbTxBuf.len \in 0 .. 8
    BY DEF IInv, DeviceTypeOK, TxTypeOK
  <2> QED
    BY <1>6, <2>1 DEF PublishTx, DeviceQuiet, Unsent
<1>7. ASSUME NEW bus \in BOOLEAN, CheckReset(bus) PROVE DeviceQuiet
  BY <1>7 DEF CheckReset, DeviceQuiet, Unsent
<1>8. ASSUME NEW s \in Samples, Convert(s) PROVE DeviceQuiet
  BY <1>8 DEF Convert, DeviceQuiet, Unsent
<1>9. CASE MeasureTemperature2
  BY <1>9 DEF MeasureTemperature2, DeviceQuiet, Unsent
<1>10. CASE MeasureHumidity
  BY <1>10 DEF MeasureHumidity, DeviceQuiet, Unsent
<1> QED
  BY <1>1, <1>2, <1>3, <1>4, <1>5, <1>6, <1>7, <1>8, <1>9, <1>10

-----------------------------------------------------------------------------
(* Serving a request, and packing the next slice of its answer *)

\* usbPoll serves the SETUP acknowledged last, once.
LEMMA ServeMeans ==
  ASSUME IInv, ServeSetup
  PROVE  /\ Pending /\ ~Pending' /\ current = {"rx"}
         /\ usbRxBuf[rx.half] = acked
         /\ UNCHANGED <<acked, usbTxLen>> /\ pc' = "free" /\ pc = "setup"
         /\ current' = {"rx", "msg"}
         /\ usbMsgLen' = ReplyLength(acked)
         /\ answer' = Reply(acked, environment.temperature, usbConfiguration)
<1>1. pc = "setup" /\ pc' = "free" /\ UNCHANGED <<usbRxLen, usbRxToken>>
  BY DEF ServeSetup
<1>2. Pending /\ usbRxBuf[rx.half] = acked
  BY <1>1 DEF IInv, RxArguments, RxKept, Pending
<1>3. current = {"rx"} /\ ~Pending'
  BY <1>1, <1>2 DEF IInv, RxKept, Pending
<1> QED
  BY <1>1, <1>2, <1>3 DEF ServeSetup

\* The answer is what the request is owed, and nothing of it is packed.
LEMMA ServeAnswer ==
  ASSUME IInv, ServeSetup
  PROVE  /\ ReplyLength(acked) \in 0 .. 28
         /\ answer'.len = ReplyLength(acked) /\ ~Unsent' /\ AnswerOK'
<1>1. /\ usbMsgLen' = ReplyLength(acked) /\ acked' = acked
      /\ answer' = Reply(acked, environment.temperature, usbConfiguration)
      /\ UNCHANGED usbTxLen /\ pc = "setup" /\ pc' = "free"
  BY ServeMeans
<1>2. acked \in Payloads
  BY DEF IInv, DeviceTypeOK, HistoryTypeOK
<1>3. ReplyLength(acked) \in 0 .. 28
  BY <1>2, ReplyLimit
<1>4. ~Unsent'
  BY <1>1 DEF Unsent, IInv, TxIdle
<1>5. answer'.len = ReplyLength(acked)
  BY <1>1 DEF Reply
<1>6. Len(answer'.words) = WordCount(ReplyLength(acked))
  <2>1. answer' \in [len : MsgLen, words : Seq(Words)]
    BY <1>1, <1>2, PayloadType, ReplyTyped
       DEF IInv, DeviceTypeOK, MainTypeOK, MsgTypeOK
  <2>2. answer'.words \in Seq(Words)
    BY <2>1
  <2>3. DOMAIN answer'.words = 1 .. WordCount(ReplyLength(acked))
    BY <1>1 DEF Reply
  <2>4. WordCount(ReplyLength(acked)) \in Nat
    BY <1>3, WordCounts
  <2> QED
    BY <2>2, <2>3, <2>4
<1> QED
  BY <1>1, <1>3, <1>4, <1>5, <1>6 DEF AnswerOK

LEMMA ServeTransfer ==
  ASSUME IInv, HostIInv, TransferInv, ServeSetup, UNCHANGED hostVars
  PROVE  TransferInv'
<1>1. /\ current = {"rx"} /\ current' = {"rx", "msg"}
      /\ usbMsgLen' = ReplyLength(acked) /\ acked' = acked
      /\ UNCHANGED <<usbTxLen, phase, request, toggle, got, gotLen>>
  BY ServeMeans
<1>2. /\ ReplyLength(acked) \in 0 .. 28
      /\ answer'.len = ReplyLength(acked) /\ ~Unsent' /\ AnswerOK'
  BY ServeAnswer
<1>3. phase \notin After
  BY <1>1 DEF HostIInv, ServedOK, DataReceived, After
<1>4. CASE phase \in During
  <2>1. NothingReceived
    BY <1>1, <1>4 DEF TransferInv, ReceivedOK
  <2>2. Prefix(0)' = << >>
    BY WordArithmetic DEF Prefix
  <2>3. Packed' = 0 /\ usbMsgLen' # USB_NO_MSG
    BY <1>1, <1>2 DEF Packed
  <2>4. InStep'
    BY <1>1, <1>2, <2>1, <2>2, <2>3 DEF InStep, NothingReceived
  <2>5. ReceivedOK'
    BY <1>1, <1>4, <2>4 DEF ReceivedOK, Before, During, After
  <2> QED
    BY <1>1, <1>2, <2>5 DEF TransferInv, LengthOK, AskedOK
<1>5. CASE phase \notin During
  <2>1. ReceivedOK'
    BY <1>1, <1>3, <1>5 DEF TransferInv, ReceivedOK, NothingReceived
  <2> QED
    BY <1>1, <1>2, <2>1 DEF TransferInv, LengthOK, AskedOK
<1> QED
  BY <1>4, <1>5

\* The built packet begins where the packed part of the answer ended.
LEMMA BuildMeans ==
  ASSUME IInv, usbBuildTxBlock
  PROVE  /\ usbMsgLen \in 0 .. 254 /\ ~Unsent /\ Unsent'
         /\ UNCHANGED <<acked, answer>>
         /\ "msg" \in current' <=> "msg" \in current
         /\ BytesBefore' = Packed
         /\ AnswerOK => AnswerOK'
<1> DEFINE n == usbMsgLen
           w == IF n > 8 THEN 8 ELSE n
<1>1. n \in 0 .. 254 /\ w \in 0 .. 8 /\ w <= n
  <2>1. n # USB_NO_MSG /\ n \in MsgLen \cup {USB_NO_MSG}
    BY DEF IInv, DeviceTypeOK, BuildsMessage, MsgTypeOK, usbBuildTxBlock
  <2> QED
    BY <2>1
<1>2. /\ usbTxBuf'.len = w
      /\ usbMsgLen' = IF w < 8 THEN USB_NO_MSG ELSE n - w
      /\ "msg" \in current' <=> "msg" \in current
      /\ UNCHANGED <<acked, answer, usbTxLen>>
      /\ pc = "build" /\ pc' = "publish"
  BY DEF usbBuildTxBlock
<1>3. Unsent' /\ ~Unsent
  BY <1>2 DEF Unsent, IInv, TxIdle
<1>4. w < 8 <=> usbMsgLen' = USB_NO_MSG
  BY <1>1, <1>2
<1>5. AnswerOK => AnswerOK'
  BY <1>2, <1>4 DEF AnswerOK
<1>6. BytesBefore' = Packed
  <2>1. answer.len \in Nat
    <3>1. answer.len \in MsgLen
      BY DEF IInv, DeviceTypeOK, HistoryTypeOK
    <3> QED
      BY <3>1
  <2>2. BytesBefore' = answer.len - w
                         - (IF usbMsgLen' = USB_NO_MSG THEN 0 ELSE usbMsgLen')
    BY <1>2 DEF BytesBefore
  <2>3. BytesBefore' = answer.len - n
    BY <1>1, <1>2, <1>4, <2>1, <2>2
  <2> QED
    BY <2>3 DEF Packed
<1> QED
  BY <1>1, <1>2, <1>3, <1>5, <1>6

LEMMA BuildTransfer ==
  ASSUME IInv, TransferInv, usbBuildTxBlock, UNCHANGED hostVars
  PROVE  TransferInv'
<1>1. /\ ~Unsent /\ Unsent' /\ UNCHANGED <<acked, answer>>
      /\ "msg" \in current' <=> "msg" \in current
      /\ BytesBefore' = Packed /\ AnswerOK'
  BY BuildMeans DEF TransferInv
<1>2. UNCHANGED <<phase, request, toggle, got, gotLen>>
  OBVIOUS
<1>3. LengthOK' /\ AskedOK'
  BY <1>2 DEF TransferInv, LengthOK, AskedOK
<1>4. ASSUME phase \in During, "msg" \in current PROVE InStep'
  <2>1. InStep /\ Packed = gotLen
    BY <1>1, <1>4 DEF TransferInv, ReceivedOK, InStep
  <2> QED
    BY <1>1, <1>2, <2>1 DEF InStep, Prefix
<1>5. ReceivedOK'
  BY <1>1, <1>2, <1>4 DEF TransferInv, ReceivedOK, NothingReceived, Complete
<1> QED
  BY <1>1, <1>3, <1>5 DEF TransferInv

-----------------------------------------------------------------------------
(* The host takes the packet that waits *)

LEMMA TakePacket ==
  ASSUME IInv, HostIInv, ReplyInv, TransferInv, SendIn,
         hostAddr = usbDeviceAddr, InHandshake = "DATA"
  PROVE  /\ TransferInv'
         /\ "msg" \in current
         /\ gotLen' \in 0 .. answer.len /\ got' = Prefix(gotLen')
<1> DEFINE b == usbTxBuf.len
           L == answer.len
           rest == IF usbMsgLen = USB_NO_MSG THEN 0 ELSE usbMsgLen
<1>1. /\ phase \in {"dataIn", "statusIn"}
      /\ HandleIn(hostAddr) /\ ReceiveData /\ request' = request
  BY DEF SendIn
<1>2. /\ UNCHANGED <<pc, acked, current, usbTxBuf, usbMsgLen, answer>>
      /\ CanTransmit /\ ~Pending /\ usbTxLen' = USBPID_NAK
  BY <1>1, InEffect
<1>3. Unsent /\ ~Unsent' /\ "tx" \in current /\ "msg" \in current
  BY <1>2 DEF CanTransmit, Unsent, IInv, Fresh, TxIdle, HostIInv, ServedOK
<1>4. /\ InStep /\ BytesBefore = gotLen
      /\ L = ReplyLength(acked) /\ Len(answer.words) = WordCount(L)
      /\ b < 8 <=> usbMsgLen = USB_NO_MSG
  BY <1>1, <1>3 DEF TransferInv, ReceivedOK, InStep, AnswerOK, During
<1>5. /\ usbTxBuf.words = [i \in 1 .. WordCount(b) |->
                             answer.words[gotLen \div 4 + i]]
      /\ usbTxBuf.pid = IF gotLen % 16 = 0 THEN "DATA1" ELSE "DATA0"
  BY <1>3, <1>4 DEF ReplyInv, BlockCorrect, Unsent
<1>6. /\ request \in Payloads /\ acked = request
      /\ request \in Requests
      /\ answer.words \in Seq(Words)
  BY <1>1 DEF IInv, DeviceTypeOK, HistoryTypeOK, HostIInv,
              AckedOK, Acknowledged, TransferInv, AskedOK, Payloads
<1>7. /\ b \in 0 .. 8 /\ rest \in 0 .. 255
      /\ L \in 0 .. 28 /\ request.wLength \in Nat /\ L <= request.wLength
  <2>1. b \in 0 .. 8 /\ rest \in 0 .. 255
    BY DEF IInv, DeviceTypeOK, TxTypeOK, MsgTypeOK
  <2> QED
    BY <1>4, <1>6, <2>1, ReplyLimit
<1>8. gotLen \in Nat /\ gotLen % 8 = 0 /\ got = Prefix(gotLen)
  BY <1>4 DEF InStep
<1>9. gotLen = L - b - rest /\ (b < 8 => rest = 0)
  BY <1>4 DEF BytesBefore
<1>10. /\ toggle = usbTxBuf.pid
       /\ got' = got \o usbTxBuf.words /\ gotLen' = gotLen + b
       /\ toggle' = Toggle(toggle)
       /\ phase' = IF LastPacket THEN "ackLast" ELSE "ackMore"
  BY <1>1, <1>4, <1>5 DEF InStep, ReceiveData
<1> HIDE DEF b, L, rest
<1>11. /\ gotLen' \in Nat /\ gotLen' <= L /\ gotLen' = L - rest
       /\ b < 8 => gotLen' = L
       /\ gotLen' >= request.wLength => gotLen' = L
  <2>1. gotLen \in Nat
    BY <1>8
  <2>2. gotLen' = gotLen + b
    BY <1>10
  <2> QED
    BY <1>7, <1>9, <2>1, <2>2
<1>12. got' = Prefix(gotLen')
  <2>1. /\ WordCount(gotLen) = gotLen \div 4 /\ WordCount(gotLen) \in Nat
        /\ WordCount(b) \in Nat
        /\ WordCount(gotLen + b) = WordCount(gotLen) + WordCount(b)
    <3>1. b \in Nat
      BY <1>7
    <3>2. gotLen \in Nat /\ gotLen % 8 = 0
      BY <1>8
    <3> QED
      BY <3>1, <3>2, PacketWords
  <2>2. WordCount(gotLen + b) <= Len(answer.words)
    BY <1>4, <1>7, <1>10, <1>11, WordArithmetic
  <2>3. got' = [i \in 1 .. WordCount(gotLen) |-> answer.words[i]]
               \o [i \in 1 .. WordCount(b) |-> answer.words[WordCount(gotLen) + i]]
    BY <1>5, <1>8, <1>10, <2>1 DEF Prefix, b
  <2>4. got' = [i \in 1 .. WordCount(gotLen) + WordCount(b) |-> answer.words[i]]
    BY <1>6, <2>1, <2>2, <2>3, Appended
  <2> QED
    BY <1>10, <2>1, <2>4 DEF Prefix
<1>13. AnswerOK' /\ LengthOK' /\ AskedOK'
  <2>1. AnswerOK'
    BY <1>2, <1>3 DEF TransferInv, AnswerOK
  <2>2. LengthOK'
    BY <1>1, <1>7, <1>11 DEF LengthOK
  <2>3. AskedOK'
    BY <1>1, <1>6 DEF AskedOK
  <2> QED
    BY <2>1, <2>2, <2>3
<1>14. gotLen' \in 0 .. answer.len
  BY <1>7, <1>11 DEF L
<1>15. CASE LastPacket
  <2>1. gotLen' = L
    BY <1>10, <1>11, <1>15 DEF LastPacket, b
  <2>2. got' = answer.words
    BY <1>4, <1>6, <1>12, <2>1, WholePrefix DEF Prefix
  <2>3. ReceivedOK'
    BY <1>2, <1>10, <1>15, <2>1, <2>2
       DEF L, ReceivedOK, Complete, Before, During, After
  <2> QED
    BY <1>3, <1>12, <1>13, <1>14, <2>3 DEF TransferInv
<1>16. CASE ~LastPacket
  <2>1. b = 8 /\ usbMsgLen # USB_NO_MSG
    <3>1. ~(b < 8)
      BY <1>16 DEF LastPacket, b
    <3> QED
      BY <1>4, <1>7, <3>1 DEF b
  <2>2. gotLen' % 8 = 0 /\ (gotLen' % 16 = 0 <=> gotLen % 16 # 0)
    BY <1>8, <1>10, <2>1, PacketOffsets, ToggleArithmetic
  <2>3. Packed' = gotLen'
    <3>1. rest = usbMsgLen
      BY <2>1 DEF rest
    <3>2. Packed' = L - usbMsgLen
      BY <1>2 DEF L, Packed
    <3> QED
      BY <1>11, <3>1, <3>2
  <2>4. toggle' = IF gotLen' % 16 = 0 THEN "DATA1" ELSE "DATA0"
    BY <1>5, <1>10, <2>2 DEF Toggle
  <2>5. gotLen' <= answer'.len /\ usbMsgLen' # USB_NO_MSG
    BY <1>2, <1>11, <2>1 DEF L
  <2>6. got' = [i \in 1 .. WordCount(gotLen') |-> answer'.words[i]]
    BY <1>2, <1>12 DEF Prefix
  <2>7. InStep'
    BY <1>3, <1>11, <2>2, <2>3, <2>4, <2>5, <2>6 DEF InStep, Prefix
  <2>8. ReceivedOK'
    BY <1>2, <1>3, <1>10, <1>16, <2>7 DEF ReceivedOK, Before, During, After
  <2> QED
    BY <1>3, <1>12, <1>13, <1>14, <2>8 DEF TransferInv
<1> QED
  BY <1>15, <1>16

-----------------------------------------------------------------------------
(* The other steps of the host *)

LEMMA TokenQuiet ==
  ASSUME NEW pid, NEW addr, HandleToken(pid, addr)
  PROVE  DeviceQuiet
  BY DEF HandleToken, DeviceQuiet, Unsent

LEMMA AskTransfer ==
  ASSUME TransferInv, NEW r \in Requests, Ask(r)
  PROVE  TransferInv'
<1>1. /\ phase = "idle" /\ phase' = "setup" /\ request' = r
      /\ UNCHANGED <<usbTxLen, usbTxBuf, usbMsgLen, pc, acked, current, answer,
                     toggle, got, gotLen>>
  BY DEF Ask
<1>2. r \in Payloads
  BY DEF Payloads
<1>3. r.wLength \in Nat
  BY <1>2, ReplyLimit
<1>4. NothingReceived
  BY <1>1 DEF TransferInv, ReceivedOK, Before
<1>5. AnswerOK'
  BY <1>1 DEF TransferInv, AnswerOK, Unsent
<1> QED
  BY <1>1, <1>3, <1>4, <1>5
     DEF TransferInv, ReceivedOK, NothingReceived, LengthOK, AskedOK, Before,
         During, After

LEMMA SetupDataTransfer ==
  ASSUME IInv, HostIInv, TransferInv, SendSetupData
  PROVE  TransferInv'
<1>1. /\ phase = "setupData"
      /\ phase' = IF DataHandshake(11) = "ACK" THEN AfterSetup ELSE "setup"
      /\ HandleData(request, 11)
      /\ UNCHANGED <<request, toggle, got, gotLen>>
  BY DEF SendSetupData
<1>2. usbCurrentTok \in {"SETUP", "none"}
  BY <1>1 DEF HostIInv, TokenOK
<1>3. CASE DataHandshake(11) = "ACK"
  <2>1. current' = {"rx"}
    BY <1>1, <1>2, <1>3, SetupDataEffect
  <2>2. phase' \in {"statusIn", "dataIn"}
    BY <1>1, <1>3 DEF AfterSetup
  <2> QED
    BY <1>1, <2>1, <2>2
       DEF TransferInv, AnswerOK, ReceivedOK, NothingReceived, LengthOK,
           AskedOK, Before, During, After
<1>4. CASE DataHandshake(11) # "ACK"
  <2>1. DeviceQuiet
    BY <1>1, <1>2, <1>4, SetupDataEffect DEF DeviceQuiet, Unsent
  <2>2. phase' = "setup" /\ SamePart
    BY <1>1, <1>4 DEF SamePart, Before, During, After
  <2>3. request \in Requests
    BY <1>1 DEF TransferInv, AskedOK
  <2> QED
    BY <1>1, <2>1, <2>2, <2>3, QuietStep
<1> QED
  BY <1>3, <1>4

LEMMA HostTransfer ==
  ASSUME IInv, HostIInv, ReplyInv, TransferInv, HostStep
  PROVE  TransferInv'
<1>1. CASE SendSetup
  <2>1. /\ phase = "setup" /\ phase' = "setupData" /\ SamePart
        /\ UNCHANGED <<request, toggle, got, gotLen>> /\ DeviceQuiet
    BY <1>1, TokenQuiet DEF SendSetup, SamePart, Before, During, After
  <2> QED
    BY <2>1, QuietStep DEF TransferInv, AskedOK
<1>2. CASE SendSetupData
  BY <1>2, SetupDataTransfer
<1>3. CASE SendIn
  <2>1. CASE hostAddr = usbDeviceAddr /\ InHandshake = "DATA"
    BY <1>3, <2>1, TakePacket
  <2>2. CASE hostAddr = usbDeviceAddr /\ InHandshake # "DATA"
    <3>1. HandleIn(hostAddr) /\ UNCHANGED <<phase, request, toggle, got, gotLen>>
      BY <1>3, <2>2 DEF SendIn
    <3>2. DeviceQuiet
      BY <2>2, <3>1, InEffect DEF DeviceQuiet, Unsent
    <3> QED
      BY <3>1, <3>2, QuietStep DEF SamePart, TransferInv, AskedOK
  <2>3. CASE hostAddr # usbDeviceAddr
    <3>1. HandleToken("IN", hostAddr)
          /\ UNCHANGED <<phase, request, toggle, got, gotLen>>
      BY <1>3, <2>3 DEF SendIn
    <3> QED
      BY <3>1, TokenQuiet, QuietStep DEF SamePart, TransferInv, AskedOK
  <2> QED
    BY <2>1, <2>2, <2>3
<1>4. CASE SendAck
  <2>1. /\ phase \in {"ackMore", "ackLast"} /\ phase' = AfterAck
        /\ UNCHANGED <<request, toggle, got, gotLen>> /\ DeviceQuiet
    BY <1>4, TokenQuiet DEF SendAck
  <2>2. SamePart /\ phase' \notin {"idle", "resetting"}
    BY <2>1 DEF AfterAck, AfterSetup, SamePart, Before, During, After
  <2> QED
    BY <2>1, <2>2, QuietStep DEF TransferInv, AskedOK
<1>5. CASE SendStatusOut
  <2>1. /\ phase = "statusOut" /\ phase' = "statusOutData" /\ SamePart
        /\ UNCHANGED <<request, toggle, got, gotLen>> /\ DeviceQuiet
    BY <1>5, TokenQuiet DEF SendStatusOut, SamePart, Before, During, After
  <2> QED
    BY <2>1, QuietStep DEF TransferInv, AskedOK
<1>6. CASE SendStatusOutData
  <2>1. /\ phase = "statusOutData" /\ phase' \in {"done", "statusOut"}
        /\ HandleData(NoRequest, 3) /\ UNCHANGED <<request, toggle, got, gotLen>>
    BY <1>6 DEF SendStatusOutData
  <2>2. DeviceQuiet
    BY <2>1, EmptyDataEffect DEF DeviceQuiet, Unsent
  <2>3. SamePart
    BY <2>1 DEF SamePart, Before, During, After
  <2> QED
    BY <2>1, <2>2, <2>3, QuietStep DEF TransferInv, AskedOK
<1>7. CASE Finish
  <2>1. /\ phase' = "idle" /\ request' = NoRequest /\ NothingReceived'
        /\ UNCHANGED <<usbTxLen, usbTxBuf, usbMsgLen, pc, acked, current, answer>>
    BY <1>7 DEF Finish, ForgetTransfer, NothingReceived
  <2>2. AnswerOK'
    BY <2>1 DEF TransferInv, AnswerOK, Unsent
  <2> QED
    BY <2>1, <2>2
       DEF TransferInv, ReceivedOK, NothingReceived, LengthOK, AskedOK, Before,
           During, After, NoRequest
<1> QED
  BY <1>1, <1>2, <1>3, <1>4, <1>5, <1>6, <1>7 DEF HostStep

LEMMA FaultTransfer ==
  ASSUME HostIInv, TransferInv, Fault, MaxLoss = 0
  PROVE  TransferInv'
<1> DEFINE Same == UNCHANGED <<usbTxLen, usbTxBuf, usbMsgLen, pc, acked, current,
                               answer>>
<1>1. Same => (AnswerOK' /\ DeviceQuiet)
  BY DEF TransferInv, AnswerOK, Unsent, DeviceQuiet
<1>2. ASSUME Same, ForgetTransfer, phase' \in {"idle", "resetting"}
      PROVE  TransferInv'
  BY <1>1, <1>2
     DEF ForgetTransfer, TransferInv, ReceivedOK, NothingReceived, LengthOK,
         AskedOK, Before, During, After, NoRequest
<1>3. CASE Abort
  <2>1. Same /\ phase \in BetweenTransactions
    BY <1>3 DEF Abort
  <2>2. CASE request.name = "setAddress"
    <3>1. phase' = "mustReset" /\ UNCHANGED <<request, toggle, got, gotLen>>
      BY <1>3, <2>2 DEF Abort
    <3>2. SamePart /\ phase \notin {"idle", "resetting"}
      BY <2>1, <3>1 DEF SamePart, Before, During, After, BetweenTransactions
    <3> QED
      BY <1>1, <2>1, <3>1, <3>2, QuietStep DEF TransferInv, AskedOK
  <2>3. CASE request.name # "setAddress"
    BY <1>2, <1>3, <2>1, <2>3 DEF Abort
  <2> QED
    BY <2>2, <2>3
<1>4. CASE BeginReset
  BY <1>2, <1>4 DEF BeginReset
<1>5. CASE EndReset
  <2>1. /\ Same /\ phase = "resetting" /\ phase' = "idle" /\ SamePart
        /\ UNCHANGED <<request, toggle, got, gotLen>>
    BY <1>5 DEF EndReset, SamePart, Before, During, After
  <2> QED
    BY <1>1, <2>1, QuietStep
<1>6. CASE ForeignTraffic
  <2>1. PICK addr \in Addresses : HandleToken("OUT", addr)
    BY <1>6 DEF ForeignTraffic
  <2>2. UNCHANGED <<phase, request, toggle, got, gotLen>>
    BY <1>6 DEF ForeignTraffic
  <2> QED
    BY <2>1, <2>2, TokenQuiet, QuietStep DEF SamePart, TransferInv, AskedOK
<1> QED
  BY <1>3, <1>4, <1>5, <1>6, NothingLost DEF Fault

-----------------------------------------------------------------------------
(* The invariant, and what follows from it *)

LEMMA InitTransferInv == BusInit => TransferInv
  BY DEF BusInit, DeviceInit, TransferInv, AnswerOK, ReceivedOK,
         NothingReceived, LengthOK, AskedOK, Before, During, After, NoRequest

LEMMA StepTransferInv ==
  ASSUME IInv, HostInv, HostIInv, ReplyInv, TransferInv, MaxLoss = 0,
         [BusNext]_busVars
  PROVE  TransferInv'
<1>1. CASE DeviceStep
  <2>1. UNCHANGED <<phase, request, toggle, got, gotLen>>
    BY <1>1 DEF DeviceStep
  <2>2. DeviceQuiet => TransferInv'
    BY <2>1, QuietStep DEF SamePart, TransferInv, AskedOK
  <2>3. CASE CheckReset(se0)
    BY <2>2, <2>3, QuietMainStep DEF HostInv
  <2>4. CASE MainStep /\ UNCHANGED hostVars
    BY <2>2, <2>4, QuietMainStep, ServeTransfer, BuildTransfer DEF MainStep
  <2> QED
    BY <1>1, <2>3, <2>4 DEF DeviceStep
<1>2. ASSUME NEW r \in Requests, Ask(r) PROVE TransferInv'
  BY <1>2, AskTransfer
<1>3. CASE HostStep
  BY <1>3, HostTransfer
<1>4. CASE Fault
  BY <1>4, FaultTransfer
<1>5. CASE UNCHANGED busVars
  <2>1. DeviceQuiet /\ SamePart /\ UNCHANGED <<phase, request, toggle, got, gotLen>>
    BY <1>5 DEF busVars, DeviceQuiet, SamePart, Unsent
  <2> QED
    BY <2>1, QuietStep DEF TransferInv, AskedOK
<1> QED
  BY <1>1, <1>2, <1>3, <1>4, <1>5 DEF BusNext

LEMMA TransferInvAlways ==
  ASSUME MaxLoss = 0
  PROVE  BusSpec => [](IInv /\ HostInv /\ HostIInv /\ ReplyInv /\ TransferInv)
<1>1. BusSpec => [](IInv /\ HostInv /\ HostIInv)
  BY HostIInvAlways
<1>2. DeviceSpec => []ReplyInv
  BY InitReplyInv, StepReplyInv, IInvAlways, PTL DEF DeviceSpec
<1>3. IInv /\ HostInv /\ HostIInv /\ ReplyInv /\ TransferInv
        /\ [BusNext]_busVars => TransferInv'
  BY StepTransferInv
<1> QED
  BY <1>1, <1>2, <1>3, BusImplementsDevice, InitTransferInv, PTL DEF BusSpec

\* On a bus that loses nothing, a transfer ends with the whole answer to its
\* own request, in order and computed in one state (usbBuildTxBlock, handleIn),
\* whatever was given up or reset before it.
THEOREM RepliesComplete ==
  ASSUME MaxLoss = 0
  PROVE  BusSpec => []CompleteReply
<1>1. HostIInv /\ TransferInv => CompleteReply
  BY DEF HostIInv, AckedOK, ServedOK, TransferInv, ReceivedOK, Complete,
         CompleteReply, Answered, Acknowledged, DataReceived, After
<1> QED
  BY <1>1, TransferInvAlways, PTL

\* On a bus that loses nothing, the host is never sent more than it asked for
\* (the length limit of usbProcessRx).
THEOREM NothingOverruns ==
  ASSUME MaxLoss = 0
  PROVE  BusSpec => []NeverOverrun
<1>1. HostInv /\ TransferInv => NeverOverrun
  <2> SUFFICES ASSUME HostInv, TransferInv PROVE NeverOverrun
    OBVIOUS
  <2>1. request.wLength \in Nat
    BY ReplyLimit DEF HostInv
  <2> QED
    BY <2>1 DEF TransferInv, LengthOK, NeverOverrun
<1> QED
  BY <1>1, TransferInvAlways, PTL

-----------------------------------------------------------------------------
(* Every step of the bus is a step of ControlTransfer or leaves it alone *)

\* The host and the device as ControlTransfer sees them are unchanged.
TransferRests ==
  /\ AbstractStage' = AbstractStage
  /\ AbstractStage # "idle" => request' = request
  /\ AbstractStage = "served" => answer' = answer
  /\ phase' = "done" <=> phase = "done"
  /\ phase = "done" => UNCHANGED <<got, gotLen>>

PendingRests ==
  /\ Unserved' <=> Unserved
  /\ Unserved => acked' = acked

ThermometerRests ==
  /\ environment'.humidity = environment.humidity
  /\ UNCHANGED <<led, ledon, usbConfiguration>>

LEMMA Stutter ==
  ASSUME TransferRests, PendingRests, ThermometerRests
  PROVE  UNCHANGED Abstract!vars
  BY DEF TransferRests, PendingRests, ThermometerRests, Abstract!vars,
         Abstract!hostSide, Abstract!device

LEMMA InitRefines == BusInit => Abstract!Init
  BY DEF BusInit, DeviceInit, Abstract!Init, AbstractStage, Unserved, Uniform,
         NoRequest, NoReply, Abstract!NoRequest, Abstract!NoReply

\* ControlTransfer's own copies of what both modules take from UsbProtocol.
LEMMA SameProtocol ==
  /\ Abstract!NoRequest = NoRequest /\ Abstract!NoReply = NoReply
  /\ \A r, s, c : Abstract!Reply(r, s, c) = Reply(r, s, c)
<1>1. \A r : Abstract!ReplyLength(r) = ReplyLength(r)
  BY DEF Abstract!ReplyLength, ReplyLength, Abstract!LimitLength, LimitLength,
         Abstract!FullLength, FullLength, Abstract!DescriptorLength,
         DescriptorLength
<1>2. \A n : Abstract!WordCount(n) = WordCount(n)
  BY DEF Abstract!WordCount, WordCount
<1>3. \A r, s, c, i : Abstract!ReplyWord(r, s, c, i) = ReplyWord(r, s, c, i)
  BY DEF Abstract!ReplyWord, ReplyWord, Abstract!Word, Word,
         Abstract!RomWord, RomWord, Abstract!EnvFields, EnvFields
<1>4. \A r, s, c : Abstract!Reply(r, s, c) = Reply(r, s, c)
  BY <1>1, <1>2, <1>3 DEF Abstract!Reply, Reply
<1> QED
  BY <1>4 DEF Abstract!NoRequest, NoRequest, Abstract!NoReply, NoReply

\* A measurement that goes on has a sample; what waits to be served is a
\* request of the host.
MeasuredOK ==
  pc \in {"measureT2", "measureH"} => environment.temperature \in Samples
ServableOK == Pending => acked \in Requests

LEMMA UnservedIsPending == (Unserved <=> Pending) /\ (Unserved' <=> Pending')
  BY DEF Unserved, Pending

\* What a step leaves of the message and of the host's side.
MessageRests ==
  /\ "msg" \in current' <=> "msg" \in current
  /\ answer' = answer

LEMMA HostUntouched ==
  ASSUME MessageRests, UNCHANGED <<phase, request, got, gotLen>>
  PROVE  TransferRests
  BY DEF MessageRests, TransferRests, AbstractStage

\* The steps of the main loop between serving requests and measuring.
LEMMA MainStepStutters ==
  ASSUME IInv,
         \/ PollRx \/ ProcessRx \/ AbortTransmit \/ FreeRx \/ CheckTx
         \/ usbBuildTxBlock \/ PublishTx \/ (\E bus \in BOOLEAN : CheckReset(bus))
         \/ (\E s \in Samples : Convert(s)) \/ MeasureTemperature2
  PROVE  MessageRests /\ PendingRests /\ ThermometerRests
<1> USE DEF MessageRests, PendingRests, Pending, ThermometerRests
<1> USE UnservedIsPending
<1>1. CASE PollRx
  BY <1>1 DEF PollRx
<1>2. CASE ProcessRx
  <2>1. Pending => rx.len = 8
    BY <1>2 DEF ProcessRx, IInv, RxArguments
  <2>2. Pending' <=> Pending
    BY <1>2, <2>1 DEF ProcessRx
  <2> QED
    BY <1>2, <2>2 DEF ProcessRx
<1>3. CASE AbortTransmit
  BY <1>3 DEF AbortTransmit
<1>4. CASE FreeRx
  BY <1>4 DEF FreeRx
<1>5. CASE CheckTx
  BY <1>5 DEF CheckTx
<1>6. CASE usbBuildTxBlock
  BY <1>6 DEF usbBuildTxBlock
<1>7. CASE PublishTx
  BY <1>7 DEF PublishTx
<1>8. ASSUME NEW bus \in BOOLEAN, CheckReset(bus)
      PROVE  MessageRests /\ PendingRests /\ ThermometerRests
  BY <1>8 DEF CheckReset
<1>9. ASSUME NEW s \in Samples, Convert(s)
      PROVE  MessageRests /\ PendingRests /\ ThermometerRests
  BY <1>9 DEF Convert, IInv, DeviceTypeOK, MainTypeOK
<1>10. CASE MeasureTemperature2
  BY <1>10 DEF MeasureTemperature2, IInv, DeviceTypeOK, MainTypeOK
<1> QED
  BY <1>1, <1>2, <1>3, <1>4, <1>5, <1>6, <1>7, <1>8, <1>9, <1>10

\* Serving a request is one step of the abstract device.
LEMMA ServeRefines ==
  ASSUME NoRequest \notin Requests, IInv, HostIInv, ReplyInv, ServableOK,
         ServeSetup, UNCHANGED <<phase, request, got, gotLen>>
  PROVE  Abstract!Serve
<1>1. /\ Pending /\ ~Pending' /\ current = {"rx"} /\ current' = {"rx", "msg"}
      /\ usbRxBuf[rx.half] = acked /\ acked' = acked /\ pc = "setup"
      /\ answer' = Reply(acked, environment.temperature, usbConfiguration)
  BY ServeMeans
<1>2. acked # NoRequest /\ Unserved /\ ~Unserved'
  BY <1>1, UnservedIsPending DEF ServableOK
<1>3. environment.humidity = environment.temperature
  BY <1>1 DEF ReplyInv, OneMeasurement
<1>4. /\ led' = IF acked.name # "setLed" THEN led
                ELSE IF acked.value = 0 THEN 0 ELSE 1
      /\ usbConfiguration' = IF acked.name = "setConfiguration" THEN acked.value
                             ELSE usbConfiguration
  <2>1. "setLed" \in VendorNames /\ "setConfiguration" \notin VendorNames
    BY DEF VendorNames
  <2>2. IF acked.name \in VendorNames THEN usbFunctionSetup(acked)
                                      ELSE usbDriverSetup(acked)
    BY <1>1 DEF ServeSetup
  <2>3. CASE acked.name \in VendorNames
    BY <2>1, <2>2, <2>3 DEF usbFunctionSetup, set_led
  <2>4. CASE acked.name \notin VendorNames
    BY <2>1, <2>2, <2>4 DEF usbDriverSetup
  <2> QED
    BY <2>3, <2>4
<1>5. UNCHANGED <<environment, ledon>>
  BY DEF ServeSetup
<1>6. AbstractStage' = IF AbstractStage = "taken" THEN "served" ELSE AbstractStage
  BY <1>1 DEF AbstractStage
<1>7. AbstractStage # "served"
  BY <1>1 DEF AbstractStage
<1>8. Abstract!Effect(acked)
  BY <1>4, <1>5 DEF Abstract!Effect
<1>9. Abstract!Reply(acked, environment.humidity, usbConfiguration) = answer'
  BY <1>1, <1>3, SameProtocol
<1>10. AbstractStage = "taken" => AbstractStage' = "served"
  BY <1>6
<1> QED
  BY <1>2, <1>6, <1>7, <1>8, <1>9, SameProtocol DEF Abstract!Serve

\* The last field of a measurement is stored in the step that blinks.
LEMMA MeasureRefines ==
  ASSUME IInv, MeasuredOK, MeasureHumidity,
         UNCHANGED <<phase, request, got, gotLen>>
  PROVE  \E s \in Samples : Abstract!Measure(s)
<1>1. environment.temperature \in Samples
  BY DEF MeasuredOK, MeasureHumidity
<1>2. /\ environment'.humidity = environment.temperature
      /\ ledon' = 1 - ledon /\ led' = ledon'
      /\ UNCHANGED <<usbConfiguration, acked, current, answer>>
      /\ (Unserved' <=> Unserved)
  BY DEF MeasureHumidity, set_led, Unserved, IInv, DeviceTypeOK, MainTypeOK
<1>3. AbstractStage' = AbstractStage
  BY <1>2 DEF AbstractStage
<1> QED
  BY <1>1, <1>2, <1>3 DEF Abstract!Measure, Abstract!hostSide

LEMMA DeviceStepRefines ==
  ASSUME NoRequest \notin Requests, IInv, HostInv, HostIInv, ReplyInv,
         ServableOK, MeasuredOK, DeviceStep
  PROVE  [Abstract!Next]_(Abstract!vars)
<1>1. UNCHANGED <<phase, request, got, gotLen>>
  BY DEF DeviceStep
<1>2. CASE ServeSetup
  BY <1>1, <1>2, ServeRefines DEF Abstract!Next
<1>3. CASE MeasureHumidity
  BY <1>1, <1>3, MeasureRefines DEF Abstract!Next
<1>4. CASE \/ PollRx \/ ProcessRx \/ AbortTransmit \/ FreeRx \/ CheckTx
           \/ usbBuildTxBlock \/ PublishTx
           \/ (\E bus \in BOOLEAN : CheckReset(bus))
           \/ (\E s \in Samples : Convert(s)) \/ MeasureTemperature2
  BY <1>1, <1>4, MainStepStutters, HostUntouched, Stutter
<1> QED
  BY <1>2, <1>3, <1>4 DEF DeviceStep, MainStep, HostInv

-----------------------------------------------------------------------------
(* The steps of the host *)

\* A packet that brings no request leaves the device as it was.
DeviceRests == MessageRests /\ PendingRests /\ ThermometerRests

LEMMA TokenRests ==
  ASSUME NEW pid, NEW addr, HandleToken(pid, addr)
  PROVE  DeviceRests
  BY DEF HandleToken, DeviceRests, MessageRests, PendingRests, Unserved,
         ThermometerRests

\* After the last packet the host holds the answer that was served.
LEMMA ReceivesWhatIsServed ==
  ASSUME IInv, HostIInv, TransferInv, phase \in After
  PROVE  /\ phase # "done" => AbstractStage = "served"
         /\ [len |-> gotLen, words |-> got] = answer
<1>1. "msg" \in current
  BY DEF HostIInv, ServedOK, DataReceived, After
<1>2. gotLen = answer.len /\ got = answer.words
  BY DEF TransferInv, ReceivedOK, Complete
<1>3. answer \in [len : MsgLen, words : Seq(Words)]
  BY DEF IInv, DeviceTypeOK, HistoryTypeOK
<1>4. [len |-> answer.len, words |-> answer.words] = answer
  BY <1>3
<1> QED
  BY <1>1, <1>2, <1>4 DEF AbstractStage, After

\* The step that ends the status stage returns the answer.
LEMMA ReturnRefines ==
  ASSUME IInv, HostIInv, TransferInv, phase \in After \ {"done"},
         phase' = "done", DeviceRests, UNCHANGED <<request, got, gotLen>>
  PROVE  Abstract!Return
<1>1. AbstractStage = "served" /\ [len |-> gotLen, words |-> got] = answer
  BY ReceivesWhatIsServed
<1>2. AbstractStage' = "done"
  BY DEF AbstractStage
<1>3. (IF Unserved THEN acked ELSE NoRequest)'
        = IF Unserved THEN acked ELSE NoRequest
  BY DEF DeviceRests, PendingRests
<1> QED
  BY <1>1, <1>2, <1>3, SameProtocol
     DEF Abstract!Return, Abstract!device, DeviceRests, ThermometerRests

LEMMA AskRefines ==
  ASSUME NEW r \in Requests, Ask(r)
  PROVE  Abstract!Ask(r)
  BY SameProtocol
     DEF Ask, Abstract!Ask, Abstract!device, AbstractStage, Unserved

\* The acknowledgement of the SETUP is the step that takes the request.
LEMMA SetupDataRefines ==
  ASSUME IInv, HostIInv, SendSetupData
  PROVE  [Abstract!Next]_(Abstract!vars)
<1>1. /\ phase = "setupData"
      /\ phase' = IF DataHandshake(11) = "ACK" THEN AfterSetup ELSE "setup"
      /\ HandleData(request, 11)
      /\ UNCHANGED <<request, toggle, got, gotLen>>
  BY DEF SendSetupData
<1>2. usbCurrentTok \in {"SETUP", "none"}
  BY <1>1 DEF HostIInv, TokenOK
<1>3. UNCHANGED <<environment, led, ledon, usbConfiguration>>
  BY <1>1 DEF HandleData
<1>4. CASE DataHandshake(11) = "ACK"
  <2>1. /\ acked' = request /\ current' = {"rx"} /\ answer' = answer
        /\ ~Unserved /\ Unserved'
    BY <1>1, <1>2, <1>4, SetupDataEffect, UnservedIsPending
  <2>2. phase' \in {"dataIn", "statusIn"}
    BY <1>1, <1>4 DEF AfterSetup
  <2>3. AbstractStage = "asked" /\ AbstractStage' = "taken"
    BY <1>1, <2>1, <2>2 DEF AbstractStage
  <2>4. Abstract!Take
    BY <1>1, <1>3, <2>1, <2>2, <2>3, SameProtocol
       DEF Abstract!Take, Abstract!device
  <2> QED
    BY <2>4 DEF Abstract!Next
<1>5. CASE DataHandshake(11) # "ACK"
  <2>1. UNCHANGED <<acked, current, answer>> /\ (Unserved' <=> Unserved)
    BY <1>1, <1>2, <1>5, SetupDataEffect, UnservedIsPending
  <2>2. phase' = "setup"
    BY <1>1, <1>5
  <2>3. TransferRests /\ PendingRests /\ ThermometerRests
    BY <1>1, <1>3, <2>1, <2>2
       DEF AbstractStage, TransferRests, PendingRests, ThermometerRests
  <2> QED
    BY <2>3, Stutter
<1> QED
  BY <1>4, <1>5

\* A data packet is not the answer until the transfer ends.
LEMMA InRefines ==
  ASSUME IInv, SendIn
  PROVE  UNCHANGED Abstract!vars
<1>1. /\ phase \in {"dataIn", "statusIn"} /\ request' = request
      /\ phase' \in {phase, "ackMore", "ackLast"}
  BY DEF SendIn, ReceiveData
<1>2. CASE hostAddr = usbDeviceAddr
  <2>1. HandleIn(hostAddr)
    BY <1>2 DEF SendIn
  <2>2. UNCHANGED <<acked, current, answer, environment, led, ledon,
                    usbConfiguration>> /\ (Unserved' <=> Unserved)
    BY <2>1 DEF HandleIn, Unserved
  <2>3. TransferRests /\ PendingRests /\ ThermometerRests
    BY <1>1, <2>2
       DEF AbstractStage, TransferRests, PendingRests, ThermometerRests
  <2> QED
    BY <2>3, Stutter
<1>3. CASE hostAddr # usbDeviceAddr
  <2>1. DeviceRests
    BY <1>3, TokenRests DEF SendIn
  <2>2. TransferRests /\ PendingRests /\ ThermometerRests
    BY <1>1, <2>1
       DEF AbstractStage, TransferRests, DeviceRests, MessageRests
  <2> QED
    BY <2>2, Stutter
<1> QED
  BY <1>2, <1>3

\* Before the last step of a transfer the host's own packets change nothing
\* the abstract host could see.
LEMMA HostStutters ==
  ASSUME DeviceRests, UNCHANGED <<request, got, gotLen>>,
         \/ {phase, phase'} \subseteq {"setup", "setupData"}
         \/ {phase, phase'} \subseteq During \cup (After \ {"done"})
  PROVE  UNCHANGED Abstract!vars
<1>1. TransferRests /\ PendingRests /\ ThermometerRests
  BY DEF AbstractStage, TransferRests, DeviceRests, MessageRests, During, After
<1> QED
  BY <1>1, Stutter

LEMMA HostStepRefines ==
  ASSUME IInv, HostInv, HostIInv, TransferInv, HostStep
  PROVE  [Abstract!Next]_(Abstract!vars)
<1>1. CASE SendSetup
  <2>1. /\ phase = "setup" /\ phase' = "setupData" /\ DeviceRests
        /\ UNCHANGED <<request, got, gotLen>>
    BY <1>1, TokenRests DEF SendSetup
  <2> QED
    BY <2>1, HostStutters
<1>2. CASE SendSetupData
  BY <1>2, SetupDataRefines
<1>3. CASE SendIn
  BY <1>3, InRefines
<1>4. CASE SendAck
  <2>1. /\ phase \in {"ackMore", "ackLast"} /\ phase' = AfterAck /\ DeviceRests
        /\ UNCHANGED <<request, got, gotLen>>
    BY <1>4, TokenRests DEF SendAck
  <2>2. CASE phase' = "done"
    <3>1. phase \in After \ {"done"}
      BY <2>1, <2>2 DEF AfterAck, AfterSetup, After
    <3> QED
      BY <2>1, <2>2, <3>1, ReturnRefines DEF Abstract!Next
  <2>3. CASE phase' # "done"
    <3>1. {phase, phase'} \subseteq During \cup (After \ {"done"})
      BY <2>1, <2>3 DEF AfterAck, AfterSetup, During, After
    <3> QED
      BY <2>1, <3>1, HostStutters
  <2> QED
    BY <2>2, <2>3
<1>5. CASE SendStatusOut
  <2>1. /\ phase = "statusOut" /\ phase' = "statusOutData" /\ DeviceRests
        /\ UNCHANGED <<request, got, gotLen>>
    BY <1>5, TokenRests DEF SendStatusOut
  <2> QED
    BY <2>1, HostStutters DEF After
<1>6. CASE SendStatusOutData
  <2>1. /\ phase = "statusOutData" /\ phase' \in {"done", "statusOut"}
        /\ HandleData(NoRequest, 3) /\ UNCHANGED <<request, got, gotLen>>
    BY <1>6 DEF SendStatusOutData
  <2>2. DeviceRests
    <3>1. UNCHANGED <<acked, current, answer>> /\ (Unserved' <=> Unserved)
      BY <2>1, EmptyDataEffect, UnservedIsPending
    <3> QED
      BY <2>1, <3>1 DEF HandleData, DeviceRests, MessageRests, PendingRests,
                        ThermometerRests
  <2>3. CASE phase' = "done"
    BY <2>1, <2>2, <2>3, ReturnRefines DEF Abstract!Next, After
  <2>4. CASE phase' = "statusOut"
    BY <2>1, <2>2, <2>4, HostStutters DEF After
  <2> QED
    BY <2>1, <2>3, <2>4
<1>7. CASE Finish
  BY <1>7, SameProtocol
     DEF Finish, ForgetTransfer, Abstract!Next, Abstract!Finish, Abstract!Leave,
         Abstract!device, AbstractStage, Unserved
<1> QED
  BY <1>1, <1>2, <1>3, <1>4, <1>5, <1>6, <1>7 DEF HostStep

LEMMA FaultRefines ==
  ASSUME HostIInv, Fault, MaxLoss = 0
  PROVE  [Abstract!Next]_(Abstract!vars)
<1>1. CASE Abort
  <2>1. /\ phase \in BetweenTransactions /\ phase' \in {"mustReset", "idle"}
        /\ UNCHANGED <<deviceVars>>
    BY <1>1 DEF Abort
  <2>2. AbstractStage \in {"asked", "taken", "served"} /\ AbstractStage' = "idle"
    BY <2>1 DEF AbstractStage, BetweenTransactions
  <2>3. phase # "done" /\ phase' # "done" /\ (Unserved' <=> Unserved)
    BY <2>1 DEF BetweenTransactions, Unserved
  <2> QED
    BY <2>1, <2>2, <2>3, SameProtocol
       DEF Abstract!Next, Abstract!GiveUp, Abstract!Leave, Abstract!device
<1>2. CASE BeginReset \/ EndReset
  <2>1. /\ AbstractStage = "idle" /\ AbstractStage' = "idle"
        /\ phase # "done" /\ phase' # "done"
        /\ UNCHANGED deviceVars
    BY <1>2 DEF BeginReset, EndReset, AbstractStage
  <2>2. TransferRests /\ PendingRests /\ ThermometerRests
    BY <2>1 DEF TransferRests, PendingRests, ThermometerRests, Unserved
  <2> QED
    BY <2>2, Stutter
<1>3. CASE ForeignTraffic
  <2>1. PICK addr \in Addresses : HandleToken("OUT", addr)
    BY <1>3 DEF ForeignTraffic
  <2>2. DeviceRests /\ UNCHANGED <<phase, request, got, gotLen>>
    BY <1>3, <2>1, TokenRests DEF ForeignTraffic
  <2> QED
    BY <2>2, HostUntouched, Stutter DEF DeviceRests
<1> QED
  BY <1>1, <1>2, <1>3, NothingLost DEF Fault

-----------------------------------------------------------------------------
(* The refinement *)

LEMMA MeasuredAlways == DeviceSpec => []MeasuredOK
<1>1. DeviceInit => MeasuredOK
  BY DEF DeviceInit, MeasuredOK
<1>2. IInv /\ MeasuredOK /\ [DeviceNext]_deviceVars => MeasuredOK'
  <2> SUFFICES ASSUME IInv, MeasuredOK, [DeviceNext]_deviceVars PROVE MeasuredOK'
    OBVIOUS
  <2>1. CASE PollRx \/ ProcessRx \/ AbortTransmit \/ ServeSetup \/ FreeRx
             \/ CheckTx \/ usbBuildTxBlock \/ PublishTx \/ MeasureHumidity
    BY <2>1 DEF PollRx, ProcessRx, AbortTransmit, ServeSetup, FreeRx, CheckTx,
                usbBuildTxBlock, PublishTx, MeasureHumidity, MeasuredOK
  <2>2. CASE (\E s \in Samples : Convert(s)) \/ MeasureTemperature2
    BY <2>2 DEF Convert, MeasureTemperature2, MeasuredOK, IInv, DeviceTypeOK,
                MainTypeOK
  <2>3. ASSUME NEW bus \in BOOLEAN, CheckReset(bus) PROVE MeasuredOK'
    BY <2>3 DEF CheckReset, MeasuredOK
  <2>4. CASE Packet \/ UNCHANGED deviceVars
    BY <2>4 DEF Packet, HandleToken, HandleData, HandleIn, MeasuredOK
  <2> QED
    BY <2>1, <2>2, <2>3, <2>4 DEF DeviceNext, MainStep
<1> QED
  BY <1>1, <1>2, IInvAlways, PTL DEF DeviceSpec

LEMMA ServableStep ==
  ASSUME IInv, HostInv, HostIInv, TransferInv, ServableOK, MaxLoss = 0,
         [BusNext]_busVars
  PROVE  ServableOK'
<1>1. CASE DeviceStep
  <2>1. CASE MainStep
    BY <2>1, MainStepEffect DEF MainEffect, ServableOK
  <2>2. CASE CheckReset(se0)
    BY <2>2 DEF CheckReset, ServableOK, Pending
  <2> QED
    BY <1>1, <2>1, <2>2 DEF DeviceStep
<1>2. CASE (\E r \in Requests : Ask(r)) \/ Finish \/ Abort \/ BeginReset
           \/ EndReset \/ UNCHANGED busVars
  BY <1>2 DEF Ask, Finish, Abort, BeginReset, EndReset, busVars, ServableOK,
              Pending
<1>3. CASE SendSetupData
  <2>1. HandleData(request, 11) /\ usbCurrentTok \in {"SETUP", "none"}
        /\ request \in Requests
    BY <1>3 DEF SendSetupData, HostIInv, TokenOK, TransferInv, AskedOK
  <2> QED
    BY <2>1, SetupDataEffect DEF ServableOK
<1>4. CASE SendStatusOutData
  BY <1>4, EmptyDataEffect DEF SendStatusOutData, ServableOK
<1>5. CASE SendSetup \/ SendAck \/ SendStatusOut \/ ForeignTraffic
  BY <1>5, TokenEffect
     DEF SendSetup, SendAck, SendStatusOut, ForeignTraffic, ServableOK
<1>6. CASE SendIn
  BY <1>6, TokenEffect, InEffect DEF SendIn, ServableOK
<1> QED
  BY <1>1, <1>2, <1>3, <1>4, <1>5, <1>6, NothingLost DEF BusNext, HostStep, Fault

\* On a bus that loses nothing, the transfers of app/main.c and usb.go are
\* atomic calls: whatever the packets, usbPoll's preemptions, measurements,
\* resets and given-up transfers do, a request is served once, in one step
\* between asking and returning, and its answer is that of one state.
THEOREM BusImplementsTransfer ==
  ASSUME MaxLoss = 0, NoRequest \notin Requests
  PROVE  BusSpec => ImplementsControlTransfer
<1>1. BusInit => ServableOK
  BY DEF BusInit, DeviceInit, ServableOK, Pending
<1>2. IInv /\ HostInv /\ HostIInv /\ ReplyInv /\ TransferInv /\ ServableOK
        /\ [BusNext]_busVars => ServableOK'
  BY ServableStep
<1>3. IInv /\ HostInv /\ HostIInv /\ ReplyInv /\ TransferInv /\ ServableOK
        /\ MeasuredOK /\ [BusNext]_busVars => [Abstract!Next]_(Abstract!vars)
  <2> SUFFICES ASSUME IInv, HostInv, HostIInv, ReplyInv, TransferInv,
                      ServableOK, MeasuredOK, [BusNext]_busVars
               PROVE  [Abstract!Next]_(Abstract!vars)
    OBVIOUS
  <2>1. ASSUME NEW r \in Requests, Ask(r) PROVE Abstract!Next
    BY <2>1, AskRefines DEF Abstract!Next
  <2>2. CASE UNCHANGED busVars
    <3>1. TransferRests /\ PendingRests /\ ThermometerRests
      BY <2>2 DEF busVars, AbstractStage, TransferRests, PendingRests,
                  ThermometerRests, Unserved
    <3> QED
      BY <3>1, Stutter
  <2> QED
    BY <2>1, <2>2, DeviceStepRefines, HostStepRefines, FaultRefines DEF BusNext
<1>4. BusSpec => []MeasuredOK
  BY MeasuredAlways, BusImplementsDevice, PTL
<1> QED
  BY <1>1, <1>2, <1>3, <1>4, InitRefines, TransferInvAlways, PTL
     DEF BusSpec, ImplementsControlTransfer, Abstract!Spec
-----------------------------------------------------------------------------
(* What the host receives, and that it is never the placeholder *)

\* Data comes with a packet that is a slice of the answer, or not at all.
LEMMA ReceivedStep ==
  ASSUME IInv, HostIInv, ReplyInv, TransferInv, MaxLoss = 0, [BusNext]_busVars
  PROVE  \/ UNCHANGED <<got, gotLen>>
         \/ got' = << >> /\ gotLen' = 0
         \/ /\ "msg" \in current
            /\ gotLen' \in 0 .. answer.len /\ got' = Prefix(gotLen')
<1>1. CASE DeviceStep \/ (\E r \in Requests : Ask(r)) \/ UNCHANGED busVars
  BY <1>1 DEF DeviceStep, Ask, busVars
<1>2. CASE HostStep
  <2>1. CASE SendIn
    BY <2>1, TakePacket DEF SendIn
  <2> QED
    BY <1>2, <2>1 DEF HostStep, SendSetup, SendSetupData, SendAck,
                      SendStatusOut, SendStatusOutData, Finish, ForgetTransfer
<1>3. CASE Fault
  BY <1>3, NothingLost DEF Fault, Abort, BeginReset, EndReset, ForeignTraffic,
                           ForgetTransfer
<1> QED
  BY <1>1, <1>2, <1>3 DEF BusNext

LEMMA PrefixOfAnswer ==
  ASSUME IInv, AnswerOK, "msg" \in current, NEW n \in 0 .. answer.len
  PROVE  /\ WordCount(n) \in 0 .. Len(answer.words)
         /\ Prefix(n) \in Seq(Words) /\ Len(Prefix(n)) = WordCount(n)
<1>1. answer \in [len : MsgLen, words : Seq(Words)]
  BY DEF IInv, DeviceTypeOK, HistoryTypeOK
<1>2. answer.words \in Seq(Words)
  BY <1>1
<1>3. answer.len \in MsgLen
  BY <1>1
<1>4. answer.len \in Nat /\ n \in Nat
  BY <1>3
<1>5. WordCount(n) \in Nat /\ WordCount(n) <= WordCount(answer.len)
  BY <1>4, WordArithmetic, WordCounts
<1>6. WordCount(n) \in 0 .. Len(answer.words)
  BY <1>2, <1>5 DEF AnswerOK
<1>7. Prefix(n) \in Seq(Words)
  BY <1>2, <1>6 DEF Prefix
<1>8. DOMAIN Prefix(n) = 1 .. WordCount(n)
  BY DEF Prefix
<1>9. Len(Prefix(n)) = WordCount(n)
  BY <1>5, <1>7, <1>8
<1> QED
  BY <1>6, <1>7, <1>9

BusTypeInv ==
  /\ phase \in Phases
  /\ toggle \in {"DATA0", "DATA1"}
  /\ gotLen \in 0 .. 255 /\ Len(got) = WordCount(gotLen)
  /\ se0 \in BOOLEAN /\ resetSeen \in BOOLEAN /\ missed \in BOOLEAN

LEMMA StepBusType ==
  ASSUME IInv, HostIInv, ReplyInv, TransferInv, MaxLoss = 0, BusTypeInv,
         [BusNext]_busVars
  PROVE  BusTypeInv'
<1>1. gotLen' \in 0 .. 255 /\ Len(got') = WordCount(gotLen')
  <2>1. CASE UNCHANGED <<got, gotLen>>
    BY <2>1 DEF BusTypeInv
  <2>2. CASE got' = << >> /\ gotLen' = 0
    BY <2>2, WordArithmetic
  <2>3. CASE /\ "msg" \in current
             /\ gotLen' \in 0 .. answer.len /\ got' = Prefix(gotLen')
    <3>1. answer.len \in 0 .. 254
      BY DEF IInv, DeviceTypeOK, HistoryTypeOK
    <3>2. Len(got') = WordCount(gotLen')
      BY <2>3, PrefixOfAnswer DEF TransferInv
    <3>3. gotLen' \in 0 .. 255
      BY <2>3, <3>1
    <3> QED
      BY <3>2, <3>3
  <2>4. \/ UNCHANGED <<got, gotLen>>
        \/ got' = << >> /\ gotLen' = 0
        \/ /\ "msg" \in current
           /\ gotLen' \in 0 .. answer.len /\ got' = Prefix(gotLen')
    BY ReceivedStep
  <2> QED
    BY <2>1, <2>2, <2>3, <2>4
<1>2. (phase \in Phases /\ toggle \in {"DATA0", "DATA1"} /\ se0 \in BOOLEAN
        /\ resetSeen \in BOOLEAN /\ missed \in BOOLEAN)'
  <2> USE DEF Phases, BetweenTransactions
  <2>1. CASE DeviceStep
    BY <2>1 DEF DeviceStep, BusTypeInv
  <2>2. CASE (\E r \in Requests : Ask(r)) \/ UNCHANGED busVars
    BY <2>2 DEF Ask, busVars, BusTypeInv
  <2>3. CASE SendIn
    BY <2>3 DEF SendIn, ReceiveData, Toggle, BusTypeInv
  <2>4. CASE SendSetup \/ SendSetupData \/ SendAck \/ SendStatusOut
             \/ SendStatusOutData \/ Finish
    BY <2>4 DEF SendSetup, SendSetupData, SendAck, SendStatusOut,
                SendStatusOutData, Finish, ForgetTransfer, AfterAck, AfterSetup,
                BusTypeInv
  <2>5. CASE Fault
    BY <2>5, NothingLost DEF Fault, Abort, BeginReset, EndReset, ForeignTraffic,
                             ForgetTransfer, BusTypeInv
  <2> QED
    BY <2>1, <2>2, <2>3, <2>4, <2>5 DEF BusNext, HostStep
<1> QED
  BY <1>1, <1>2 DEF BusTypeInv

\* The host's side stays within its types as well: no answer, in whatever
\* packets it comes, is longer than an 8-bit length.
THEOREM BusTypeCorrect ==
  ASSUME MaxLoss = 0
  PROVE  BusSpec => []BusTypeOK
<1>1. BusInit => BusTypeInv
  <2> SUFFICES ASSUME BusInit PROVE BusTypeInv
    OBVIOUS
  <2>1. got = << >> /\ gotLen = 0 /\ Len(got) = 0
    BY DEF BusInit
  <2>2. Len(got) = WordCount(gotLen)
    BY <2>1, WordArithmetic
  <2>3. phase \in Phases
    BY DEF BusInit, Phases
  <2>4. toggle \in {"DATA0", "DATA1"} /\ gotLen \in 0 .. 255
    BY DEF BusInit
  <2>5. se0 \in BOOLEAN /\ resetSeen \in BOOLEAN /\ missed \in BOOLEAN
    BY DEF BusInit
  <2> QED
    BY <2>2, <2>3, <2>4, <2>5 DEF BusTypeInv
<1>2. IInv /\ HostInv /\ HostIInv /\ ReplyInv /\ TransferInv /\ BusTypeInv
        /\ [BusNext]_busVars => BusTypeInv'
  BY StepBusType
<1>3. IInv /\ HostInv /\ HostIInv /\ BusTypeInv => BusTypeOK
  <2> SUFFICES ASSUME IInv, HostInv, HostIInv, BusTypeInv PROVE BusTypeOK
    OBVIOUS
  <2>1. Len(got) <= WordCount(gotLen) + 1
    <3>1. WordCount(gotLen) \in Nat
      BY WordCounts DEF BusTypeInv
    <3> QED
      BY <3>1 DEF BusTypeInv
  <2>2. hostAddr \in 0 .. 127
    BY DEF HostInv
  <2>3. lost \in 0 .. MaxLoss
    BY DEF HostIInv, Lossless
  <2> QED
    BY <2>1, <2>2, <2>3 DEF IInv, HostInv, BusTypeInv, BusTypeOK
<1> QED
  BY <1>1, <1>2, <1>3, TransferInvAlways, PTL DEF BusSpec

NoPlaceholder(ws) == \A i \in 1 .. Len(ws) : ws[i].val # Placeholder

\* Up to here a pass of the main loop has published no packet.
Unpublished == {"poll", "process", "abort", "setup", "free", "txCheck", "build",
                "publish"}

\* Until the first measurement is complete the program is in the first pass of
\* the main loop.  Until that pass publishes a packet no host has given the
\* device an address, so none has asked for the measurement.
FirstPass ==
  environment.humidity = Placeholder =>
    /\ pc = "poll" => cnt = CntMax
    /\ pc \notin Measuring \cup {"poll"} => cnt > CntMax
    /\ pc \in Unpublished =>
         /\ usbTxLen = USBPID_NAK /\ hostAddr = 0 /\ phase \notin DataReceived
         /\ request.name # "getEnv" /\ acked.name # "getEnv"

BootInv == FirstPass /\ NoPlaceholder(answer.words) /\ NoPlaceholder(got)

LEMMA ReplyNotPlaceholder ==
  ASSUME Placeholder \notin Nat, NEW r \in Payloads, NEW s, NEW c \in Nat,
         s # Placeholder \/ r.name # "getEnv"
  PROVE  NoPlaceholder(Reply(r, s, c).words)
<1> DEFINE n == WordCount(ReplyLength(r))
<1>1. r.value \in Nat
  BY PayloadType DEF RequestType
<1>2. n \in Nat
  BY ReplyLimit, WordCounts
<1>3. Reply(r, s, c).words = [i \in 1 .. n |-> ReplyWord(r, s, c, i)]
  BY DEF Reply
<1>4. Len(Reply(r, s, c).words) = n
  BY <1>2, <1>3
<1>5. ASSUME NEW i \in 1 .. n PROVE ReplyWord(r, s, c, i).val # Placeholder
  <2>1. i \in Nat /\ 32 * r.value + i \in Nat
    BY <1>1, <1>2, <1>5
  <2> QED
    BY <1>1, <2>1 DEF ReplyWord, Word, RomWord
<1> QED
  BY <1>3, <1>4, <1>5 DEF NoPlaceholder

LEMMA FirstPassDevice ==
  ASSUME IInv, HostIInv, ReplyInv, MeasuredOK, FirstPass, MainStep,
         UNCHANGED hostVars
  PROVE  FirstPass'
<1> USE DEF Measuring
<1>1. UNCHANGED <<hostAddr, phase, request>>
  OBVIOUS
<1>2. CASE PollRx
  BY <1>1, <1>2 DEF PollRx, FirstPass, Unpublished
<1>3. CASE ProcessRx \/ CheckTx \/ FreeRx
  BY <1>1, <1>3 DEF ProcessRx, CheckTx, FreeRx, FirstPass, Unpublished
<1>4. CASE AbortTransmit
  BY <1>1, <1>4 DEF AbortTransmit, FirstPass, Unpublished
<1>5. CASE ServeSetup
  BY <1>1, <1>5 DEF ServeSetup, FirstPass, Unpublished
<1>6. CASE usbBuildTxBlock
  BY <1>1, <1>6 DEF usbBuildTxBlock, FirstPass, Unpublished
<1>7. CASE PublishTx
  BY <1>1, <1>7 DEF PublishTx, FirstPass, Unpublished
<1>8. CASE \E s \in Samples : Convert(s)
  BY <1>1, <1>8 DEF Convert, FirstPass, Unpublished, IInv, DeviceTypeOK,
                    MainTypeOK
<1>9. CASE MeasureTemperature2
  BY <1>1, <1>9 DEF MeasureTemperature2, FirstPass, Unpublished, IInv,
                    DeviceTypeOK, MainTypeOK
<1>10. CASE MeasureHumidity
  <2>1. environment'.humidity = environment.temperature
    BY <1>10 DEF MeasureHumidity, IInv, DeviceTypeOK, MainTypeOK
  <2>2. environment.temperature \in Samples
    BY <1>10 DEF MeasureHumidity, MeasuredOK
  <2> QED
    BY <2>1, <2>2 DEF FirstPass
<1> QED
  BY <1>2, <1>3, <1>4, <1>5, <1>6, <1>7, <1>8, <1>9, <1>10 DEF MainStep

LEMMA FirstPassHost ==
  ASSUME IInv, HostIInv, FirstPass, MaxLoss = 0,
         (\E r \in Requests : Ask(r)) \/ HostStep \/ Fault
  PROVE  FirstPass'
<1>1. CASE \E r \in Requests : Ask(r)
  BY <1>1 DEF Ask, MayAsk, FirstPass, Unpublished, DataReceived
<1>2. CASE SendSetup \/ SendAck \/ SendStatusOut
  BY <1>2 DEF SendSetup, SendAck, SendStatusOut, HandleToken, FirstPass,
              Unpublished, DataReceived
<1>3. CASE SendSetupData \/ SendStatusOutData
  BY <1>3 DEF SendSetupData, SendStatusOutData, HandleData, AfterSetup,
              FirstPass, Unpublished, DataReceived, NoRequest
<1>4. CASE SendIn
  <2>1. CASE hostAddr = usbDeviceAddr /\ InHandshake = "DATA"
    <3>1. HandleIn(hostAddr) /\ usbTxLen # USBPID_NAK
      BY <1>4, <2>1 DEF SendIn, InHandshake
    <3>2. UNCHANGED <<environment, pc, cnt>>
      BY <3>1 DEF HandleIn
    <3> QED
      BY <3>1, <3>2 DEF FirstPass
  <2>2. CASE hostAddr = usbDeviceAddr /\ InHandshake # "DATA"
    BY <1>4, <2>2 DEF SendIn, HandleIn, FirstPass, Unpublished
  <2>3. CASE hostAddr # usbDeviceAddr
    BY <1>4, <2>3 DEF SendIn, HandleToken, FirstPass, Unpublished
  <2> QED
    BY <2>1, <2>2, <2>3
<1>5. CASE Finish
  BY <1>5 DEF Finish, ForgetTransfer, FirstPass, Unpublished, DataReceived,
              NoRequest
<1>6. CASE Abort
  BY <1>6 DEF Abort, ForgetTransfer, FirstPass, Unpublished, DataReceived,
              NoRequest
<1>7. CASE BeginReset \/ EndReset
  BY <1>7 DEF BeginReset, EndReset, ForgetTransfer, FirstPass, Unpublished,
              DataReceived, NoRequest
<1>8. CASE ForeignTraffic
  BY <1>8 DEF ForeignTraffic, HandleToken, FirstPass, Unpublished
<1> QED
  BY <1>1, <1>2, <1>3, <1>4, <1>5, <1>6, <1>7, <1>8, NothingLost
     DEF HostStep, Fault

LEMMA AnswerStep ==
  ASSUME Placeholder \notin Nat, IInv, ReplyInv, FirstPass,
         NoPlaceholder(answer.words), [DeviceNext]_deviceVars
  PROVE  NoPlaceholder(answer'.words)
<1>1. CASE ServeSetup
  <2>1. /\ answer' = Reply(acked, environment.temperature, usbConfiguration)
        /\ pc = "setup"
    BY <1>1, ServeMeans
  <2>2. acked \in Payloads /\ usbConfiguration \in Nat
    BY DEF IInv, DeviceTypeOK, HistoryTypeOK, MsgTypeOK
  <2>3. environment.humidity = environment.temperature
    BY <2>1 DEF ReplyInv, OneMeasurement
  <2>4. environment.temperature # Placeholder \/ acked.name # "getEnv"
    BY <2>1, <2>3 DEF FirstPass, Unpublished
  <2> QED
    BY <2>1, <2>2, <2>4, ReplyNotPlaceholder
<1>2. CASE ~ServeSetup
  <2>1. answer' = answer
    <3>1. CASE MainStep
      BY <1>2, <3>1
         DEF MainStep, PollRx, ProcessRx, AbortTransmit, FreeRx, CheckTx,
             usbBuildTxBlock, PublishTx, Convert, MeasureTemperature2,
             MeasureHumidity
    <3>2. CASE (\E bus \in BOOLEAN : CheckReset(bus)) \/ Packet
               \/ UNCHANGED deviceVars
      BY <3>2 DEF CheckReset, Packet, HandleToken, HandleData, HandleIn
    <3> QED
      BY <3>1, <3>2 DEF DeviceNext
  <2> QED
    BY <2>1
<1> QED
  BY <1>1, <1>2

LEMMA BootStep ==
  ASSUME Placeholder \notin Nat, MaxLoss = 0, IInv, HostInv, HostIInv, ReplyInv,
         TransferInv, MeasuredOK, BootInv, [BusNext]_busVars
  PROVE  BootInv'
<1>1. FirstPass'
  <2>1. CASE MainStep /\ UNCHANGED hostVars
    BY <2>1, FirstPassDevice DEF BootInv
  <2>2. CASE CheckReset(se0) /\ UNCHANGED <<phase, request, hostAddr>>
    <3>1. cnt \in Int
      BY DEF IInv, DeviceTypeOK, MainTypeOK
    <3> QED
      BY <2>2, <3>1 DEF CheckReset, BootInv, FirstPass, Unpublished, Measuring
  <2>3. CASE (\E r \in Requests : Ask(r)) \/ HostStep \/ Fault
    BY <2>3, FirstPassHost DEF BootInv
  <2>4. CASE UNCHANGED busVars
    BY <2>4 DEF busVars, BootInv, FirstPass, Unpublished
  <2> QED
    BY <2>1, <2>2, <2>3, <2>4 DEF BusNext, DeviceStep
<1>2. NoPlaceholder(answer'.words)
  BY AnswerStep, StepDevice DEF BootInv
<1>3. NoPlaceholder(got')
  <2>1. CASE UNCHANGED <<got, gotLen>>
    BY <2>1 DEF BootInv
  <2>2. CASE got' = << >> /\ gotLen' = 0
    BY <2>2 DEF NoPlaceholder
  <2>3. CASE /\ "msg" \in current
             /\ gotLen' \in 0 .. answer.len /\ got' = Prefix(gotLen')
    <3> DEFINE n == WordCount(gotLen')
    <3>1. n \in 0 .. Len(answer.words) /\ Len(got') = n
      BY <2>3, PrefixOfAnswer DEF TransferInv
    <3>2. got' = [i \in 1 .. n |-> answer.words[i]]
      BY <2>3 DEF Prefix
    <3>3. answer \in [len : MsgLen, words : Seq(Words)]
      BY DEF IInv, DeviceTypeOK, HistoryTypeOK
    <3>4. Len(answer.words) \in Nat
      BY <3>3
    <3> HIDE DEF n
    <3>5. ASSUME NEW i \in 1 .. n PROVE got'[i].val # Placeholder
      <4>1. i \in 1 .. Len(answer.words)
        BY <3>1, <3>4
      <4>2. got'[i] = answer.words[i]
        BY <3>2
      <4> QED
        BY <4>1, <4>2 DEF BootInv, NoPlaceholder
    <3> QED
      BY <3>1, <3>5 DEF NoPlaceholder
  <2>4. \/ UNCHANGED <<got, gotLen>>
        \/ got' = << >> /\ gotLen' = 0
        \/ /\ "msg" \in current
           /\ gotLen' \in 0 .. answer.len /\ got' = Prefix(gotLen')
    BY ReceivedStep
  <2> QED
    BY <2>1, <2>2, <2>3, <2>4
<1> QED
  BY <1>1, <1>2, <1>3 DEF BootInv, NoPlaceholder

\* Although main.c lets the interrupt and usbPoll run before anything is
\* measured, no host ever receives the values main() starts with.  They are
\* told from all else a word can hold.
THEOREM PlaceholderStays ==
  ASSUME MaxLoss = 0, Placeholder \notin Nat
  PROVE  BusSpec => []PlaceholderNeverServed
<1>1. BusInit => BootInv
  <2> SUFFICES ASSUME BusInit PROVE BootInv
    OBVIOUS
  <2>1. FirstPass
    BY DEF BusInit, DeviceInit, InitialCount, FirstPass, DataReceived, NoRequest,
           Measuring
  <2>2. got = << >> /\ answer.words = << >>
    BY DEF BusInit, DeviceInit, NoReply
  <2> QED
    BY <2>1, <2>2 DEF BootInv, NoPlaceholder
<1>2. IInv /\ HostInv /\ HostIInv /\ ReplyInv /\ TransferInv /\ MeasuredOK
        /\ BootInv /\ [BusNext]_busVars => BootInv'
  BY BootStep
<1>3. BusSpec => []MeasuredOK
  BY MeasuredAlways, BusImplementsDevice, PTL
<1>4. BootInv => PlaceholderNeverServed
  BY DEF BootInv, NoPlaceholder, PlaceholderNeverServed
<1> QED
  BY <1>1, <1>2, <1>3, <1>4, TransferInvAlways, PTL DEF BusSpec
-----------------------------------------------------------------------------
(* Part 2: a bus that loses packets                                          *)
(*                                                                           *)
(* The difficulty is a lost SETUP token: when the device last saw OUT, it    *)
(* takes the SETUP's data for data of that OUT, acknowledges and drops it.   *)
(* The host then waits for an answer to a request the device never saw, and  *)
(* must not be given what is left of an earlier one.                         *)

\* No host asks for exactly the length of an answer that fills an even number
\* of packets: app/main.c and usb.go ask for 64 and 256 bytes, and the answers
\* have at most 28.  After such an answer the driver would keep an empty
\* packet with the toggle of a first one (usbBuildTxBlock), and a lost token
\* could turn it into the answer to the next request.
NoEvenFill ==
  \A r \in Requests :
    r.wLength # 0 /\ r.wLength % 16 = 0 => ReplyLength(r) # r.wLength

\* What the device has sent of the answer, when it has been served.
Sent == IF Unsent THEN BytesBefore
        ELSE IF usbMsgLen = USB_NO_MSG THEN answer.len ELSE Packed

\* The device has nothing to serve and will send no more DATA1: what is left
\* of the last answer is at most its closing packet, which is DATA0.
Drained ==
  /\ ~Pending
  /\ \/ ~Unsent /\ usbMsgLen = USB_NO_MSG
     \/ Unsent /\ usbMsgLen = USB_NO_MSG /\ usbTxBuf.pid = "DATA0"
     \/ ~Unsent /\ usbMsgLen = 0 /\ usbTxBuf.pid = "DATA1"

\* The device's own: a packet is a slice of the served answer.
PacketOK ==
  /\ "tx" \in current => "msg" \in current
  /\ "msg" \in current /\ Unsent => BytesBefore % 8 = 0

\* Of an answer of at most two packets only a packet in its place can have
\* the toggle the host waits for.
InOrder ==
  /\ gotLen % 8 = 0
  /\ toggle = IF gotLen % 16 = 0 THEN "DATA1" ELSE "DATA0"
  /\ got = Prefix(gotLen)

\* The device has taken the host's request, and sent what the host has of the
\* answer.
Taken ==
  /\ acked = request
  /\ IF "msg" \in current
     THEN /\ gotLen <= Sent
          /\ answer.len <= 16 => InOrder
          /\ ~missed /\ request.name = "setAddress" =>
               usbNewDeviceAddr = request.value
     ELSE NothingReceived

\* The host's SETUP was taken for data of an OUT: the host gets nothing.
Swallowed == Drained /\ NothingReceived

Ended ==
  /\ acked = request /\ "msg" \in current /\ Drained
  /\ answer.len <= 16 => gotLen = 0 \/ Complete
  /\ ~missed /\ request.name = "setAddress" =>
       usbDeviceAddr = request.value /\ usbNewDeviceAddr = request.value

\* Only a device that has sent all it had is sent an OUT.
OutOK == usbCurrentTok = "OUT" => Drained

PhaseOK ==
  /\ phase \in Before => NothingReceived
  /\ phase \in During => Taken \/ Swallowed
  /\ phase \in After => Ended

IdleOK == phase \in {"idle", "resetting"} => request = NoRequest

SameOK ==
  ~missed /\ ~se0 /\ request.name # "setAddress" => SameAddress /\ ~Assigning

LossInv ==
  /\ AnswerOK /\ PacketOK
  /\ ResetOK /\ OutOK /\ PhaseOK /\ LengthOK /\ AskedOK /\ IdleOK /\ SameOK

USE RequestsAssumption, SamplesAssumption, AddressesAssumption,
    CntMaxAssumption
USE DEF rxVars, txVars, addrVars, msgVars, envVars, history, deviceVars,
        transferVars, resetVars, hostVars, Goto, Turn, USBPID_NAK, USB_NO_MSG,
        MsgLen

-----------------------------------------------------------------------------
(* The main loop *)

LEMMA AnswerTyped ==
  ASSUME IInv
  PROVE  answer.len \in Nat /\ answer.words \in Seq(Words)
<1>1. answer \in [len : MsgLen, words : Seq(Words)]
  BY DEF IInv, DeviceTypeOK, HistoryTypeOK
<1>2. answer.len \in 0 .. 254
  BY <1>1
<1>3. answer.len \in Nat
  BY <1>2
<1>4. answer.words \in Seq(Words)
  BY <1>1
<1> QED
  BY <1>3, <1>4

LEMMA PendingIsUnserved == ASSUME IInv, Pending PROVE current = {"rx"}
<1>1. current \in {{"rx"}}
  BY DEF IInv, RxKept
<1> QED
  BY <1>1, Zenon

\* After a request is served, the main loop sends its answer and no more.
LEMMA MainSends ==
  ASSUME IInv, AnswerOK, MainStep, "msg" \in current
  PROVE  /\ "msg" \in current' /\ Sent' = Sent
         /\ UNCHANGED <<acked, answer, usbNewDeviceAddr, usbDeviceAddr>>
<1>1. ~Pending
  BY PendingIsUnserved
<1>2. ~ServeSetup
  BY <1>1, ServeMeans
<1>3. UNCHANGED <<acked, usbNewDeviceAddr, usbDeviceAddr>> /\ "msg" \in current'
  BY <1>1, MainStepEffect DEF MainEffect
<1>4. CASE usbBuildTxBlock
  <2>1. /\ usbMsgLen \in 0 .. 254 /\ ~Unsent /\ Unsent' /\ answer' = answer
        /\ BytesBefore' = Packed
    BY <1>4, BuildMeans
  <2>2. Sent' = Packed /\ Sent = Packed
    BY <2>1 DEF Sent
  <2> QED
    BY <1>3, <2>1, <2>2
<1>5. CASE DeviceQuiet
  <2>1. /\ UNCHANGED <<answer, usbMsgLen>> /\ usbTxBuf'.len = usbTxBuf.len
        /\ (Unsent' <=> Unsent)
    BY <1>5 DEF DeviceQuiet
  <2>2. BytesBefore' = BytesBefore /\ Packed' = Packed
    BY <2>1 DEF BytesBefore, Packed
  <2>3. Sent' = Sent
    BY <2>1, <2>2 DEF Sent
  <2> QED
    BY <1>3, <2>1, <2>3
<1> QED
  BY <1>2, <1>4, <1>5, QuietMainStep DEF MainStep

LEMMA DrainedMain ==
  ASSUME IInv, Drained, MainStep
  PROVE  Drained'
<1> USE DEF Drained, Unsent
<1>1. ~Pending
  OBVIOUS
<1>2. CASE PollRx
  BY <1>2 DEF PollRx, Pending
<1>3. CASE ProcessRx
  <2>1. UNCHANGED usbTxBuf
    BY <1>1, <1>3 DEF ProcessRx, Pending, IInv, RxArguments, DeviceTypeOK, RxTypeOK
  <2> QED
    BY <1>3, <2>1 DEF ProcessRx, Pending
<1>4. CASE AbortTransmit
  BY <1>1, <1>4 DEF AbortTransmit, Pending, IInv, RxArguments
<1>5. CASE ServeSetup
  BY <1>1, <1>5, ServeMeans
<1>6. CASE FreeRx
  BY <1>6 DEF FreeRx, Pending
<1>7. CASE CheckTx
  BY <1>7 DEF CheckTx, Pending
<1>8. CASE usbBuildTxBlock
  <2>1. usbMsgLen # USB_NO_MSG /\ ~Unsent
    BY <1>8, BuildMeans
  <2>2. usbMsgLen = 0 /\ usbTxBuf.pid = "DATA1"
    BY <2>1
  <2>3. /\ usbTxBuf'.pid = "DATA0" /\ usbMsgLen' = USB_NO_MSG /\ pc' = "publish"
        /\ pc = "build" /\ UNCHANGED <<usbRxLen, usbRxToken>>
    BY <1>8, <2>2 DEF usbBuildTxBlock, Toggle
  <2> QED
    BY <1>1, <2>3 DEF Pending
<1>9. CASE PublishTx
  <2>1. usbTxBuf.len \in 0 .. 8
    BY DEF IInv, DeviceTypeOK, TxTypeOK
  <2> QED
    BY <1>9, <2>1 DEF PublishTx, Pending
<1>10. ASSUME NEW s \in Samples, Convert(s) PROVE Drained'
  BY <1>10 DEF Convert, Pending
<1>11. CASE MeasureTemperature2
  BY <1>11 DEF MeasureTemperature2, Pending
<1>12. CASE MeasureHumidity
  BY <1>12 DEF MeasureHumidity, Pending
<1> QED
  BY <1>2, <1>3, <1>4, <1>5, <1>6, <1>7, <1>8, <1>9, <1>10, <1>11, <1>12
     DEF MainStep

LEMMA TakenMain ==
  ASSUME IInv, AnswerOK, Taken, MainStep, UNCHANGED hostVars
  PROVE  Taken'
<1>1. UNCHANGED <<request, toggle, got, gotLen, missed>>
  OBVIOUS
<1>2. CASE "msg" \in current
  <2>1. /\ "msg" \in current' /\ Sent' = Sent
        /\ UNCHANGED <<acked, answer, usbNewDeviceAddr>>
    BY <1>2, MainSends
  <2> QED
    BY <1>1, <1>2, <2>1 DEF Taken, InOrder, Prefix
<1>3. CASE "msg" \notin current
  <2>1. NothingReceived /\ acked = request
    BY <1>3 DEF Taken
  <2>2. acked' = acked
    BY MainStepEffect DEF MainEffect
  <2>3. CASE ServeSetup
    <3>1. /\ Pending /\ ~Pending' /\ usbMsgLen' = ReplyLength(acked)
          /\ "msg" \in current'
      BY <2>3, ServeMeans
    <3>2. /\ ReplyLength(acked) \in 0 .. 28
          /\ answer'.len = ReplyLength(acked) /\ ~Unsent'
      BY <2>3, ServeAnswer
    <3>3. Sent' = 0
      BY <3>1, <3>2 DEF Sent, Packed
    <3>4. request.name = "setAddress" => usbNewDeviceAddr' = request.value
      BY <2>1, <3>1, MainStepEffect DEF MainEffect
    <3>5. Prefix(0)' = << >>
      BY WordArithmetic DEF Prefix
    <3>6. InOrder'
      BY <1>1, <2>1, <3>5 DEF InOrder, NothingReceived
    <3> QED
      BY <1>1, <2>1, <2>2, <3>1, <3>3, <3>4, <3>6 DEF Taken, NothingReceived
  <2>4. CASE ~ServeSetup
    <3>1. "msg" \notin current'
      BY <1>3, <2>4, QuietMainStep, BuildMeans DEF MainStep, DeviceQuiet
    <3> QED
      BY <1>1, <2>1, <2>2, <3>1 DEF Taken, NothingReceived
  <2> QED
    BY <2>3, <2>4
<1> QED
  BY <1>2, <1>3

LEMMA AnswerMain ==
  ASSUME IInv, ReplyInv, AnswerOK, PacketOK, MainStep
  PROVE  AnswerOK' /\ PacketOK'
<1>1. "tx" \in current' => "msg" \in current'
  BY MainStepEffect DEF MainEffect, PacketOK
<1>2. CASE ServeSetup
  BY <1>1, <1>2, ServeAnswer DEF PacketOK
<1>3. CASE usbBuildTxBlock
  <2>1. /\ usbMsgLen \in 0 .. 254 /\ BytesBefore' = Packed /\ AnswerOK'
        /\ "msg" \in current' <=> "msg" \in current
    BY <1>3, BuildMeans
  <2>2. "msg" \in current => Packed % 8 = 0
    BY <2>1 DEF ReplyInv, RestCorrect
  <2> QED
    BY <1>1, <2>1, <2>2 DEF PacketOK
<1>4. CASE DeviceQuiet
  <2>1. AnswerOK'
    BY <1>4 DEF AnswerOK, DeviceQuiet
  <2>2. BytesBefore' = BytesBefore
    BY <1>4 DEF DeviceQuiet, BytesBefore
  <2> QED
    BY <1>1, <1>4, <2>1, <2>2 DEF PacketOK, DeviceQuiet
<1> QED
  BY <1>2, <1>3, <1>4, QuietMainStep DEF MainStep

LEMMA DeviceLoss ==
  ASSUME IInv, ReplyInv, HostInv, LossInv, DeviceStep
  PROVE  LossInv'
<1>1. UNCHANGED <<phase, request, toggle, got, gotLen, hostAddr, se0, missed>>
  BY DEF DeviceStep
<1>2. LengthOK' /\ AskedOK' /\ IdleOK'
  BY <1>1 DEF LossInv, LengthOK, AskedOK, IdleOK
<1>3. CASE MainStep /\ UNCHANGED hostVars
  <2>1. AnswerOK' /\ PacketOK'
    BY <1>3, AnswerMain DEF LossInv
  <2>2. MainEffect
    BY <1>3, MainStepEffect
  <2>3. ResetOK'
    <3>1. resetSeen => ~Pending
      BY DEF LossInv, ResetOK, Pending
    <3> QED
      BY <1>3, <2>2, <3>1 DEF MainEffect, LossInv, ResetOK
  <2>4. OutOK'
    BY <1>3, <2>2, DrainedMain DEF MainEffect, LossInv, OutOK
  <2>5. PhaseOK'
    <3>1. Taken => Taken'
      BY <1>3, TakenMain DEF LossInv
    <3>2. Swallowed => Swallowed'
      BY <1>1, <1>3, DrainedMain DEF Swallowed, NothingReceived
    <3>3. Ended => Ended'
      <4> SUFFICES ASSUME Ended PROVE Ended'
        OBVIOUS
      <4>1. "msg" \in current
        BY DEF Ended
      <4>2. /\ "msg" \in current'
            /\ UNCHANGED <<acked, answer, usbNewDeviceAddr, usbDeviceAddr>>
        BY <1>3, <4>1, MainSends DEF LossInv
      <4>3. Drained'
        BY <1>3, DrainedMain DEF Ended
      <4> QED
        BY <1>1, <4>2, <4>3 DEF Ended, Complete
    <3>4. NothingReceived' <=> NothingReceived
      BY <1>1 DEF NothingReceived
    <3> QED
      BY <1>1, <3>1, <3>2, <3>3, <3>4 DEF LossInv, PhaseOK
  <2>6. SameOK'
    BY <1>1, <2>2 DEF MainEffect, LossInv, SameOK, SameAddress, Assigning
  <2> QED
    BY <1>2, <2>1, <2>3, <2>4, <2>5, <2>6 DEF LossInv
<1>4. CASE /\ CheckReset(se0)
           /\ resetSeen' = (resetSeen \/ (se0 /\ usbRxLen = 0))
  <2>1. /\ UNCHANGED <<usbCurrentTok, acked, usbRxLen, usbRxToken, current, answer,
                       usbMsgLen, usbTxBuf, usbTxLen>>
        /\ IF se0 THEN usbNewDeviceAddr' = 0 /\ usbDeviceAddr' = 0
                  ELSE UNCHANGED <<usbDeviceAddr, usbNewDeviceAddr>>
        /\ pc = "reset" /\ pc' \notin {"free", "publish"}
    BY <1>4 DEF CheckReset
  <2>2. (Pending' <=> Pending) /\ (Unsent' <=> Unsent)
    BY <2>1 DEF Pending, Unsent
  <2>3. /\ BytesBefore' = BytesBefore /\ Packed' = Packed /\ Sent' = Sent
        /\ Drained' <=> Drained
    BY <2>1, <2>2 DEF BytesBefore, Packed, Sent, Drained
  <2>4. (AnswerOK /\ PacketOK /\ OutOK)'
    BY <2>1, <2>2, <2>3 DEF LossInv, AnswerOK, PacketOK, OutOK
  <2>5. ResetOK'
    BY <1>1, <1>4, <2>1 DEF LossInv, ResetOK
  <2>6. PhaseOK'
    <3>1. phase \in During \cup After => ~se0
      BY DEF LossInv, ResetOK, During, After
    <3>2. CASE phase \in Before
      BY <1>1, <3>2 DEF LossInv, PhaseOK, NothingReceived, Before, During, After
    <3>3. CASE phase \in During
      BY <1>1, <2>1, <2>3, <3>1, <3>3
         DEF LossInv, PhaseOK, Taken, Swallowed, NothingReceived, InOrder, Prefix,
             Before, During, After
    <3>4. CASE phase \in After
      BY <1>1, <2>1, <2>3, <3>1, <3>4
         DEF LossInv, PhaseOK, Ended, Complete, Before, During, After
    <3> QED
      BY <1>1, <3>2, <3>3, <3>4 DEF PhaseOK
  <2>7. SameOK'
    BY <1>1, <2>1, <2>2 DEF LossInv, SameOK, SameAddress, Assigning
  <2> QED
    BY <1>2, <2>4, <2>5, <2>6, <2>7 DEF LossInv
<1> QED
  BY <1>3, <1>4 DEF DeviceStep

-----------------------------------------------------------------------------
(* Packets that bring the device no request and take no data from it *)

Running == BetweenTransactions \cup
  {"setupData", "ackMore", "ackLast", "statusOutData", "done"}

DeviceSame ==
  /\ UNCHANGED <<acked, current, answer, usbMsgLen, usbTxBuf, usbDeviceAddr,
                 usbNewDeviceAddr>>
  /\ Unsent' <=> Unsent
  /\ Pending' <=> Pending

\* The host goes on within the same part of a transfer.
LEMMA SilentLoss ==
  ASSUME LossInv, DeviceSame, SamePart, phase \in Running, phase' \in Running,
         UNCHANGED <<request, toggle, got, gotLen, hostAddr, se0, resetSeen,
                     missed>>,
         usbCurrentTok' = "OUT" => usbCurrentTok = "OUT" \/ Drained
  PROVE  LossInv'
<1>1. Sent' = Sent /\ (Drained' <=> Drained) /\ BytesBefore' = BytesBefore
  BY DEF DeviceSame, Sent, BytesBefore, Packed, Drained
<1>2. AnswerOK' /\ PacketOK'
  BY <1>1 DEF LossInv, AnswerOK, PacketOK, DeviceSame
<1>3. ~se0 /\ ~resetSeen
  BY DEF LossInv, ResetOK, Running, BetweenTransactions
<1>4. ResetOK' /\ IdleOK' /\ AskedOK' /\ LengthOK'
  BY <1>3 DEF LossInv, ResetOK, IdleOK, AskedOK, LengthOK, Running,
              BetweenTransactions
<1>5. OutOK'
  BY <1>1 DEF LossInv, OutOK
<1>6. PhaseOK'
  <2>1. NothingReceived' <=> NothingReceived
    BY DEF NothingReceived
  <2>2. Taken' <=> Taken
    BY <1>1, <2>1 DEF Taken, InOrder, Prefix, DeviceSame
  <2>3. Ended' <=> Ended
    BY <1>1 DEF Ended, Complete, DeviceSame
  <2> QED
    BY <1>1, <2>1, <2>2, <2>3 DEF LossInv, PhaseOK, Swallowed, SamePart
<1>7. SameOK'
  BY DEF LossInv, SameOK, SameAddress, Assigning, DeviceSame
<1> QED
  BY <1>2, <1>4, <1>5, <1>6, <1>7 DEF LossInv

LEMMA TokenSame ==
  ASSUME NEW pid, NEW addr, HandleToken(pid, addr)
  PROVE  DeviceSame
  BY TokenEffect DEF DeviceSame, Unsent

LEMMA EmptySame ==
  ASSUME HandleData(NoRequest, 3)
  PROVE  DeviceSame /\ usbCurrentTok' = usbCurrentTok
  BY EmptyDataEffect DEF DeviceSame, Unsent

LEMMA QuietLoss ==
  ASSUME LossInv,
         \/ SendSetup \/ SendAck \/ SendStatusOut \/ SendStatusOutData
         \/ ForeignTraffic \/ LoseToken \/ LoseDataOut \/ LoseAck
         \/ LoseHandshake /\ phase # "setupData"
  PROVE  LossInv'
<1> USE DEF Before, During, After, SamePart, Running, BetweenTransactions
<1>1. CASE SendSetup
  <2>1. /\ phase = "setup" /\ phase' = "setupData" /\ HandleToken("SETUP", hostAddr)
        /\ UNCHANGED <<request, toggle, got, gotLen, hostAddr, se0, resetSeen,
                       missed>>
    BY <1>1 DEF SendSetup
  <2>2. DeviceSame /\ usbCurrentTok' # "OUT"
    BY <2>1, TokenSame, TokenEffect
  <2> QED
    BY <2>1, <2>2, SilentLoss
<1>2. CASE SendAck
  <2>1. /\ phase \in {"ackMore", "ackLast"} /\ phase' = AfterAck
        /\ HandleToken("handshake", hostAddr)
        /\ UNCHANGED <<request, toggle, got, gotLen, hostAddr, se0, resetSeen,
                       missed>>
    BY <1>2 DEF SendAck
  <2>2. DeviceSame /\ usbCurrentTok' # "OUT"
    BY <2>1, TokenSame, TokenEffect
  <2> QED
    BY <2>1, <2>2, SilentLoss DEF AfterAck, AfterSetup
<1>3. CASE SendStatusOut
  <2>1. /\ phase = "statusOut" /\ phase' = "statusOutData"
        /\ HandleToken("OUT", hostAddr)
        /\ UNCHANGED <<request, toggle, got, gotLen, hostAddr, se0, resetSeen,
                       missed>>
    BY <1>3 DEF SendStatusOut
  <2>2. DeviceSame /\ Drained
    BY <2>1, TokenSame DEF LossInv, PhaseOK, Ended
  <2> QED
    BY <2>1, <2>2, SilentLoss
<1>4. CASE SendStatusOutData
  <2>1. /\ phase = "statusOutData" /\ phase' \in {"done", "statusOut"}
        /\ HandleData(NoRequest, 3)
        /\ UNCHANGED <<request, toggle, got, gotLen, hostAddr, se0, resetSeen,
                       missed>>
    BY <1>4 DEF SendStatusOutData
  <2> QED
    BY <2>1, EmptySame, SilentLoss
<1>5. CASE ForeignTraffic
  <2>1. PICK addr \in Addresses \ {hostAddr, usbDeviceAddr} :
          HandleToken("OUT", addr)
    BY <1>5 DEF ForeignTraffic
  <2>2. /\ phase \in BetweenTransactions
        /\ UNCHANGED <<phase, request, toggle, got, gotLen, hostAddr, se0,
                       resetSeen, missed>>
    BY <1>5 DEF ForeignTraffic
  <2>3. DeviceSame /\ usbCurrentTok' # "OUT"
    BY <2>1, TokenSame, TokenEffect
  <2> QED
    BY <2>2, <2>3, SilentLoss
<1>6. CASE LoseToken \/ LoseDataOut \/ LoseAck
  <2>1. /\ UNCHANGED <<request, toggle, got, gotLen, hostAddr, se0, resetSeen,
                       missed>>
        /\ DeviceSame /\ usbCurrentTok' = usbCurrentTok
    BY <1>6 DEF LoseToken, LoseDataOut, LoseAck, DeviceSame, Unsent, Pending
  <2>2. /\ SamePart /\ phase \in Running /\ phase' \in Running
    BY <1>6 DEF LoseToken, LoseDataOut, LoseAck, RepeatTransaction, AfterAck,
                AfterSetup
  <2> QED
    BY <2>1, <2>2, SilentLoss
<1>7. CASE LoseHandshake /\ phase # "setupData"
  <2>1. /\ phase = "statusOutData" /\ phase' = "statusOut"
        /\ HandleData(NoRequest, 3)
        /\ UNCHANGED <<request, toggle, got, gotLen, hostAddr, se0, resetSeen,
                       missed>>
    BY <1>7 DEF LoseHandshake, RepeatTransaction
  <2> QED
    BY <2>1, EmptySame, SilentLoss
<1> QED
  BY <1>1, <1>2, <1>3, <1>4, <1>5, <1>6, <1>7

-----------------------------------------------------------------------------
(* The SETUP's data *)

\* The device takes it for a request, for data of the last OUT, or not at all.
LEMMA SetupDataMeans ==
  ASSUME IInv, HandleData(request, 11)
  PROVE  /\ UNCHANGED <<usbCurrentTok, usbMsgLen, usbTxBuf, answer, usbDeviceAddr,
                        usbNewDeviceAddr>>
         /\ Unsent' <=> Unsent
         /\ \/ /\ DataHandshake(11) = "ACK" /\ usbCurrentTok = "SETUP"
               /\ acked' = request /\ current' = {"rx"} /\ Pending'
            \/ /\ DataHandshake(11) = "ACK" /\ usbCurrentTok = "OUT"
               /\ UNCHANGED <<acked, current>> /\ (Pending' <=> Pending)
            \/ /\ DataHandshake(11) # "ACK"
               /\ UNCHANGED <<acked, current>> /\ (Pending' <=> Pending)
<1>1. UNCHANGED <<usbCurrentTok, usbMsgLen, usbTxBuf, usbTxLen, answer, pc,
                  usbDeviceAddr, usbNewDeviceAddr>>
  BY DEF HandleData
<1>2. Unsent' <=> Unsent
  BY <1>1 DEF Unsent
<1>3. CASE usbCurrentTok \in {"SETUP", "none"}
  <2>1. DataHandshake(11) = "ACK" => usbCurrentTok = "SETUP"
    BY <1>3 DEF DataHandshake
  <2> QED
    BY <1>1, <1>2, <1>3, <2>1, SetupDataEffect
<1>4. CASE usbCurrentTok = "OUT"
  <2>1. CASE DataHandshake(11) = "ACK"
    <3>1. Accepts(11) /\ usbRxLen = 0
      BY <1>4, <2>1 DEF Accepts, DataHandshake
    <3>2. usbRxLen' = 11 /\ usbRxToken' = "OUT" /\ UNCHANGED <<acked, current>>
      BY <1>4, <3>1 DEF HandleData
    <3>3. ~Pending /\ ~Pending'
      BY <3>1, <3>2 DEF Pending
    <3> QED
      BY <1>1, <1>2, <1>4, <2>1, <3>2, <3>3
  <2>2. CASE DataHandshake(11) # "ACK"
    <3>1. ~Accepts(11)
      BY <2>2 DEF Accepts
    <3>2. UNCHANGED <<usbRxLen, usbRxToken, acked, current>>
      BY <3>1 DEF HandleData
    <3>3. Pending' <=> Pending
      BY <1>1, <3>2 DEF Pending
    <3> QED
      BY <1>1, <1>2, <2>2, <3>2, <3>3
  <2> QED
    BY <2>1, <2>2
<1>5. usbCurrentTok \in Tokens
  BY DEF IInv, DeviceTypeOK, RxTypeOK
<1> QED
  BY <1>3, <1>4, <1>5 DEF Tokens

LEMMA SetupDataLoss ==
  ASSUME IInv, LossInv, phase = "setupData", HandleData(request, 11),
         \/ phase' = "setup"
         \/ phase' \in {"dataIn", "statusIn"} /\ DataHandshake(11) = "ACK",
         UNCHANGED <<request, toggle, got, gotLen, hostAddr, se0, resetSeen,
                     missed>>
  PROVE  LossInv'
<1> USE DEF Before, During, After
<1>1. UNCHANGED <<usbCurrentTok, usbMsgLen, usbTxBuf, answer, usbDeviceAddr,
                  usbNewDeviceAddr>> /\ (Unsent' <=> Unsent)
  BY SetupDataMeans
<1>2. ~se0 /\ ~resetSeen /\ NothingReceived /\ NothingReceived'
  BY DEF LossInv, ResetOK, PhaseOK, NothingReceived
<1>3. ResetOK' /\ IdleOK' /\ AskedOK' /\ LengthOK'
  BY <1>2 DEF LossInv, ResetOK, IdleOK, AskedOK, LengthOK
<1>4. CASE /\ usbCurrentTok = "SETUP"
           /\ acked' = request /\ current' = {"rx"} /\ Pending'
  <2>1. AnswerOK' /\ PacketOK' /\ OutOK'
    BY <1>1, <1>4 DEF AnswerOK, PacketOK, OutOK
  <2>2. Taken'
    BY <1>2, <1>4 DEF Taken
  <2>3. PhaseOK'
    BY <1>2, <2>2 DEF PhaseOK
  <2>4. SameOK'
    BY <1>1, <1>4 DEF LossInv, SameOK, SameAddress, Assigning
  <2> QED
    BY <1>3, <2>1, <2>3, <2>4 DEF LossInv
<1>5. CASE UNCHANGED <<acked, current>> /\ (Pending' <=> Pending)
  <2>1. BytesBefore' = BytesBefore /\ (Drained' <=> Drained)
    BY <1>1, <1>5 DEF BytesBefore, Drained
  <2>2. AnswerOK' /\ PacketOK' /\ OutOK'
    BY <1>1, <1>5, <2>1 DEF LossInv, AnswerOK, PacketOK, OutOK
  <2>3. SameOK'
    BY <1>1, <1>5 DEF LossInv, SameOK, SameAddress, Assigning
  <2>4. CASE phase' = "setup"
    <3>1. PhaseOK'
      BY <1>2, <2>4 DEF PhaseOK
    <3> QED
      BY <1>3, <2>2, <2>3, <3>1 DEF LossInv
  <2>5. CASE DataHandshake(11) = "ACK" /\ usbCurrentTok = "OUT"
    <3>1. Swallowed'
      BY <1>2, <2>1, <2>5 DEF LossInv, OutOK, Swallowed
    <3>2. PhaseOK'
      BY <1>2, <3>1 DEF PhaseOK
    <3> QED
      BY <1>3, <2>2, <2>3, <3>2 DEF LossInv
  <2>6. CASE /\ DataHandshake(11) = "ACK" /\ usbCurrentTok = "SETUP"
             /\ acked' = request /\ current' = {"rx"} /\ Pending'
    BY <1>4, <2>6
  <2> QED
    BY <2>4, <2>5, <2>6, SetupDataMeans
<1> QED
  BY <1>4, <1>5, SetupDataMeans


-----------------------------------------------------------------------------
(* A data packet *)

\* What the interrupt does when it sends one.
LEMMA InLoss ==
  ASSUME IInv, ReplyInv, LossInv, phase \in {"dataIn", "statusIn"},
         HandleIn(hostAddr), InHandshake = "DATA", phase' \in During \cup After,
         UNCHANGED <<request, hostAddr, se0, resetSeen, missed>>
  PROVE  /\ AnswerOK' /\ PacketOK' /\ OutOK'
         /\ ResetOK' /\ AskedOK' /\ IdleOK' /\ SameOK'
         /\ UNCHANGED <<acked, current, answer, usbMsgLen, usbTxBuf,
                        usbNewDeviceAddr>>
         /\ usbDeviceAddr' = usbNewDeviceAddr % 128
         /\ ~Pending /\ ~Pending' /\ Unsent /\ ~Unsent'
         /\ "tx" \in current /\ "msg" \in current
         /\ Sent = BytesBefore /\ Sent' = BytesBefore + usbTxBuf.len
         /\ Drained => Drained' /\ usbTxBuf.pid = "DATA0"
<1> USE DEF During, After
<1>1. /\ UNCHANGED <<usbRxLen, usbRxToken, pc, acked, current, usbCurrentTok,
                     usbNewDeviceAddr, usbTxBuf, usbMsgLen, answer>>
      /\ usbDeviceAddr' = usbNewDeviceAddr % 128
      /\ hostAddr = usbDeviceAddr
      /\ CanTransmit /\ ~Pending /\ ~Pending' /\ usbTxLen' = USBPID_NAK
  BY InEffect
<1>2. Unsent /\ ~Unsent' /\ "tx" \in current /\ "msg" \in current
  BY <1>1 DEF CanTransmit, Unsent, IInv, Fresh, TxIdle, LossInv, PacketOK
<1>3. Sent = BytesBefore /\ Sent' = BytesBefore + usbTxBuf.len
  <2>1. Sent = BytesBefore
    BY <1>2 DEF Sent
  <2>2. Sent' = IF usbMsgLen = USB_NO_MSG THEN answer.len
                ELSE answer.len - usbMsgLen
    BY <1>1, <1>2 DEF Sent, Packed
  <2>3. /\ BytesBefore = answer.len - usbTxBuf.len
                           - (IF usbMsgLen = USB_NO_MSG THEN 0 ELSE usbMsgLen)
        /\ answer.len \in Nat /\ usbTxBuf.len \in 0 .. 8
        /\ usbMsgLen \in 0 .. 255
    BY AnswerTyped DEF BytesBefore, IInv, DeviceTypeOK, TxTypeOK, MsgTypeOK
  <2> QED
    BY <2>1, <2>2, <2>3
<1>4. Drained => Drained' /\ usbTxBuf.pid = "DATA0"
  BY <1>1, <1>2 DEF Drained
<1>5. AnswerOK' /\ PacketOK'
  BY <1>1, <1>2 DEF LossInv, AnswerOK, PacketOK
<1>6. OutOK'
  BY <1>1, <1>4 DEF LossInv, OutOK
<1>7. ~se0 /\ ~resetSeen
  BY DEF LossInv, ResetOK
<1>8. ResetOK' /\ AskedOK' /\ IdleOK'
  BY <1>7 DEF LossInv, ResetOK, AskedOK, IdleOK
<1>9. SameOK'
  <2>1. usbDeviceAddr \in 0 .. 127
    BY DEF IInv, DeviceTypeOK, AddrTypeOK
  <2>2. usbNewDeviceAddr = hostAddr => usbDeviceAddr' = hostAddr
    BY <1>1, <2>1
  <2> QED
    BY <1>1, <1>7, <2>2 DEF LossInv, SameOK, SameAddress, Assigning
<1> QED
  BY <1>1, <1>2, <1>3, <1>4, <1>5, <1>6, <1>8, <1>9

\* The packet is lost, or the host takes it for a repetition.
LEMMA PacketDropped ==
  ASSUME IInv, HostInv, ReplyInv, LossInv, phase \in {"dataIn", "statusIn"},
         HandleIn(hostAddr), InHandshake = "DATA", phase' \in During,
         UNCHANGED <<request, toggle, got, gotLen, hostAddr, se0, resetSeen,
                     missed>>
  PROVE  LossInv'
<1>1. /\ AnswerOK' /\ PacketOK' /\ OutOK'
      /\ ResetOK' /\ AskedOK' /\ IdleOK' /\ SameOK'
      /\ UNCHANGED <<acked, current, answer, usbNewDeviceAddr>>
      /\ Unsent /\ "tx" \in current /\ "msg" \in current
      /\ Sent = BytesBefore /\ Sent' = BytesBefore + usbTxBuf.len
      /\ Drained => Drained'
  BY InLoss
<1>2. LengthOK'
  BY DEF LossInv, LengthOK
<1>3. Taken => Taken'
  <2>1. BytesBefore \in Nat /\ usbTxBuf.len \in 0 .. 8
    BY <1>1 DEF ReplyInv, BlockCorrect, Unsent, IInv, DeviceTypeOK, TxTypeOK
  <2>2. request.wLength \in Nat /\ gotLen \in Nat
    BY ReplyLimit DEF HostInv, LossInv, LengthOK
  <2>3. gotLen <= Sent => gotLen' <= Sent'
    BY <1>1, <2>1, <2>2
  <2> QED
    BY <1>1, <2>3 DEF Taken, InOrder, Prefix
<1>4. Swallowed => Swallowed'
  BY <1>1 DEF Swallowed, NothingReceived
<1>5. PhaseOK'
  BY <1>3, <1>4 DEF LossInv, PhaseOK, Before, During, After
<1> QED
  BY <1>1, <1>2, <1>5 DEF LossInv

\* Where a packet with the toggle the host waits for belongs: B bytes of L
\* were sent before it, and the host has n of them.
LEMMA PlaceOfPacket ==
  ASSUME NEW L \in 0 .. 16, NEW B \in Nat, NEW b \in 0 .. 8, NEW n \in 0 .. B,
         B % 8 = 0, n % 8 = 0, B + b <= L, n % 16 = 0 <=> B % 16 = 0
  PROVE  n = B \/ (n = 0 /\ b = 0)
<1>1. B \in {0, 8, 16} /\ n \in {0, 8, 16}
  OBVIOUS
<1> QED
  BY <1>1

LEMMA EvenFill ==
  ASSUME NEW B \in Nat, B % 8 = 0, (B + 8) % 16 # 0
  PROVE  B % 16 = 0
  OBVIOUS

\* The host appends the packet to what it has.
LEMMA PacketAppended ==
  ASSUME IInv, ReplyInv, AnswerOK, Unsent, "tx" \in current, "msg" \in current,
         InOrder, gotLen = BytesBefore, ReceiveData, usbTxBuf.pid = toggle,
         BytesBefore + usbTxBuf.len <= answer.len
  PROVE  got' = Prefix(gotLen')
<1> DEFINE b == usbTxBuf.len
<1>1. gotLen \in Nat /\ gotLen % 8 = 0 /\ got = Prefix(gotLen)
  BY DEF InOrder, ReplyInv, BlockCorrect, Unsent
<1>2. usbTxBuf.words = [i \in 1 .. WordCount(b) |->
                          answer.words[gotLen \div 4 + i]]
  BY DEF ReplyInv, BlockCorrect, Unsent
<1>3. got' = got \o usbTxBuf.words /\ gotLen' = gotLen + b
  BY DEF ReceiveData
<1>4. /\ b \in Nat /\ answer.len \in Nat
      /\ Len(answer.words) = WordCount(answer.len)
  BY AnswerTyped DEF IInv, DeviceTypeOK, TxTypeOK, AnswerOK
<1> HIDE DEF b
<1>5. /\ WordCount(gotLen) = gotLen \div 4 /\ WordCount(gotLen) \in Nat
      /\ WordCount(b) \in Nat
      /\ WordCount(gotLen + b) = WordCount(gotLen) + WordCount(b)
  BY <1>1, <1>4, PacketWords
<1>6. WordCount(gotLen + b) <= Len(answer.words)
  <2>1. gotLen + b <= answer.len
    BY DEF b
  <2> QED
    BY <1>1, <1>4, <2>1, WordArithmetic
<1>7. got' = [i \in 1 .. WordCount(gotLen) |-> answer.words[i]]
             \o [i \in 1 .. WordCount(b) |-> answer.words[WordCount(gotLen) + i]]
  BY <1>1, <1>2, <1>3, <1>5 DEF Prefix
<1>8. got' = [i \in 1 .. WordCount(gotLen) + WordCount(b) |-> answer.words[i]]
  <2>1. answer.words \in Seq(Words)
    BY AnswerTyped
  <2> QED
    BY <1>5, <1>6, <1>7, <2>1, Appended
<1>9. gotLen' = gotLen + b
  BY <1>3
<1> QED
  BY <1>5, <1>8, <1>9 DEF Prefix

LEMMA PacketTaken ==
  ASSUME IInv, HostInv, ReplyInv, LossInv, NoEvenFill,
         phase \in {"dataIn", "statusIn"}, HandleIn(hostAddr),
         InHandshake = "DATA", ReceiveData, usbTxBuf.pid = toggle,
         UNCHANGED <<request, hostAddr, se0, resetSeen, missed>>
  PROVE  LossInv'
<1> DEFINE b == usbTxBuf.len
           L == answer.len
           B == BytesBefore
           rest == IF usbMsgLen = USB_NO_MSG THEN 0 ELSE usbMsgLen
<1>1. /\ got' = got \o usbTxBuf.words /\ gotLen' = gotLen + b
      /\ toggle' = Toggle(toggle)
      /\ phase' = IF LastPacket THEN "ackLast" ELSE "ackMore"
  BY DEF ReceiveData
<1>2. phase' \in During \cup After
  BY <1>1 DEF During, After
<1>3. /\ AnswerOK' /\ PacketOK' /\ OutOK'
      /\ ResetOK' /\ AskedOK' /\ IdleOK' /\ SameOK'
      /\ UNCHANGED <<acked, current, answer, usbMsgLen, usbTxBuf,
                     usbNewDeviceAddr>>
      /\ usbDeviceAddr' = usbNewDeviceAddr % 128
      /\ ~Pending' /\ Unsent /\ ~Unsent'
      /\ "tx" \in current /\ "msg" \in current
      /\ Sent = B /\ Sent' = B + b
      /\ Drained => Drained' /\ usbTxBuf.pid = "DATA0"
  BY <1>2, InLoss
<1>4. Taken
  <2>1. ~Swallowed
    BY <1>3 DEF Swallowed, NothingReceived
  <2> QED
    BY <2>1 DEF LossInv, PhaseOK, During
<1>5. /\ acked = request /\ gotLen <= B
      /\ L <= 16 => InOrder
      /\ ~missed /\ request.name = "setAddress" =>
           usbNewDeviceAddr = request.value
  BY <1>3, <1>4 DEF Taken
<1>6. request \in Requests /\ request \in Payloads
  BY DEF LossInv, AskedOK, Payloads
<1>7. /\ L = ReplyLength(request)
      /\ b < 8 <=> usbMsgLen = USB_NO_MSG
  BY <1>3, <1>5 DEF LossInv, AnswerOK
<1>8. /\ B \in Nat /\ B % 8 = 0
      /\ usbTxBuf.pid = IF B % 16 = 0 THEN "DATA1" ELSE "DATA0"
  BY <1>3 DEF ReplyInv, BlockCorrect, Unsent, LossInv, PacketOK
<1>9. /\ b \in 0 .. 8 /\ rest \in 0 .. 255
      /\ L \in 0 .. 28 /\ request.wLength \in Nat /\ L <= request.wLength
      /\ gotLen \in Nat
  <2>1. b \in 0 .. 8 /\ rest \in 0 .. 255
    BY DEF IInv, DeviceTypeOK, TxTypeOK, MsgTypeOK
  <2>2. request.wLength \in Nat /\ L \in 0 .. 28 /\ L <= request.wLength
    BY <1>6, <1>7, ReplyLimit
  <2> QED
    BY <2>1, <2>2 DEF LossInv, LengthOK
<1>10. B = L - b - rest /\ (b < 8 => rest = 0)
  BY <1>7 DEF BytesBefore
<1>11. LengthOK'
  <2> HIDE DEF b, L, B, rest
  <2>1. gotLen' \in 0 .. request.wLength
    BY <1>1, <1>5, <1>8, <1>9, <1>10
  <2> QED
    BY <2>1 DEF LengthOK
<1>12. gotLen' <= Sent'
  <2> HIDE DEF b, L, B, rest
  <2> QED
    BY <1>1, <1>3, <1>5, <1>8, <1>9
<1>13. L <= 16 => gotLen = B \/ (gotLen = 0 /\ b = 0)
  <2> SUFFICES ASSUME L <= 16 PROVE gotLen = B \/ (gotLen = 0 /\ b = 0)
    OBVIOUS
  <2>1. gotLen % 8 = 0 /\ (gotLen % 16 = 0 <=> B % 16 = 0)
    BY <1>5, <1>8 DEF InOrder
  <2> HIDE DEF b, L, B, rest
  <2>2. B + b <= L /\ L \in 0 .. 16 /\ gotLen \in 0 .. B
    BY <1>5, <1>8, <1>9, <1>10
  <2> QED
    BY <1>8, <1>9, <2>1, <2>2, PlaceOfPacket
<1>14. L <= 16 /\ gotLen = B => got' = Prefix(gotLen')
  <2>1. B + b <= L
    <3> HIDE DEF b, L, B, rest
    <3> QED
      BY <1>8, <1>9, <1>10
  <2> QED
    BY <1>3, <1>5, <2>1, PacketAppended DEF LossInv
<1>15. CASE LastPacket
  <2>1. Drained'
    <3>1. CASE b < 8
      <4>1. usbMsgLen' = USB_NO_MSG
        BY <1>3, <1>7, <3>1
      <4> QED
        BY <1>3, <4>1 DEF Drained
    <3>2. CASE ~(b < 8)
      <4> HIDE DEF b, L, B, rest
      <4>1. gotLen + b >= request.wLength
        BY <1>15, <3>2 DEF LastPacket, b
      <4>2. rest = 0 /\ L = request.wLength /\ L = B + 8
        BY <1>5, <1>8, <1>9, <1>10, <3>2, <4>1
      <4>3. request.wLength % 16 # 0
        <5>1. request.wLength # 0
          BY <1>8, <4>2
        <5>2. ReplyLength(request) = request.wLength
          BY <1>7, <4>2
        <5> QED
          BY <1>6, <5>1, <5>2 DEF NoEvenFill
      <4>4. usbMsgLen = 0
        BY <1>7, <3>2, <4>2 DEF rest, b
      <4>5. B % 16 = 0
        BY <1>8, <4>2, <4>3, EvenFill
      <4>6. usbTxBuf'.pid = "DATA1"
        BY <1>3, <1>8, <4>5
      <4> QED
        BY <1>3, <4>4, <4>6 DEF Drained
    <3> QED
      BY <3>1, <3>2
  <2>2. L <= 16 => gotLen' = 0 \/ (got' = answer.words /\ gotLen' = L)
    <3> SUFFICES ASSUME L <= 16, ~(gotLen = 0 /\ b = 0)
                 PROVE  gotLen' = 0 \/ (got' = answer.words /\ gotLen' = L)
      BY <1>1
    <3>1. gotLen = B /\ got' = Prefix(gotLen')
      BY <1>13, <1>14
    <3>2. gotLen' = L
      <4> HIDE DEF b, L, B, rest
      <4>1. b < 8 \/ gotLen + b >= request.wLength
        BY <1>15 DEF LastPacket, b
      <4> QED
        BY <1>1, <1>8, <1>9, <1>10, <3>1, <4>1
    <3>3. answer.words \in Seq(Words) /\ Len(answer.words) = WordCount(L)
      BY <1>3, AnswerTyped DEF LossInv, AnswerOK
    <3>4. got' = [i \in 1 .. Len(answer.words) |-> answer.words[i]]
      BY <3>1, <3>2, <3>3 DEF Prefix
    <3> QED
      BY <3>2, <3>3, <3>4, WholePrefix
  <2>3. ~missed /\ request.name = "setAddress" =>
          usbDeviceAddr' = request.value /\ usbNewDeviceAddr' = request.value
    <3> SUFFICES ASSUME ~missed, request.name = "setAddress"
                 PROVE  /\ usbDeviceAddr' = request.value
                        /\ usbNewDeviceAddr' = request.value
      OBVIOUS
    <3>1. request.value \in 0 .. 127
      BY <1>6, HostAssumption
    <3> QED
      BY <1>3, <1>5, <3>1
  <2>4. Ended'
    BY <1>3, <1>5, <2>1, <2>2, <2>3 DEF Ended, Complete
  <2>5. PhaseOK'
    BY <1>1, <1>15, <2>4 DEF PhaseOK, Before, During, After
  <2> QED
    BY <1>3, <1>11, <2>5 DEF LossInv
<1>16. CASE ~LastPacket
  <2>1. b = 8
    <3>1. ~(b < 8)
      BY <1>16 DEF LastPacket
    <3> QED
      BY <1>9, <3>1
  <2>2. L <= 16 => InOrder'
    <3> SUFFICES ASSUME L <= 16 PROVE InOrder'
      OBVIOUS
    <3>1. gotLen = B /\ got' = Prefix(gotLen')
      BY <1>13, <1>14, <2>1
    <3>2. got' = Prefix(gotLen)'
      BY <1>3, <3>1 DEF Prefix
    <3>3. gotLen' % 8 = 0 /\ (gotLen' % 16 = 0 <=> gotLen % 16 # 0)
      BY <1>1, <1>8, <2>1, <3>1, PacketOffsets, ToggleArithmetic
    <3>4. toggle' = IF gotLen' % 16 = 0 THEN "DATA1" ELSE "DATA0"
      BY <1>1, <1>8, <3>1, <3>3 DEF Toggle
    <3> QED
      BY <3>2, <3>3, <3>4 DEF InOrder
  <2>3. Taken'
    BY <1>3, <1>5, <1>12, <2>2 DEF Taken
  <2>4. PhaseOK'
    BY <1>1, <1>16, <2>3 DEF PhaseOK, Before, During, After
  <2> QED
    BY <1>3, <1>11, <2>4 DEF LossInv
<1> QED
  BY <1>15, <1>16

LEMMA InStepLoss ==
  ASSUME IInv, HostInv, ReplyInv, LossInv, NoEvenFill, SendIn
  PROVE  LossInv'
<1>1. /\ phase \in {"dataIn", "statusIn"}
      /\ UNCHANGED <<request, hostAddr, se0, resetSeen, missed>>
  BY DEF SendIn
<1>2. CASE hostAddr = usbDeviceAddr /\ InHandshake = "DATA"
  <2>1. HandleIn(hostAddr) /\ ReceiveData
    BY <1>2 DEF SendIn
  <2>2. CASE usbTxBuf.pid = toggle
    BY <1>1, <1>2, <2>1, <2>2, PacketTaken
  <2>3. CASE usbTxBuf.pid # toggle
    <3>1. phase' \in During /\ UNCHANGED <<got, gotLen, toggle>>
      BY <2>1, <2>3 DEF ReceiveData, During
    <3> QED
      BY <1>1, <1>2, <2>1, <3>1, PacketDropped
  <2> QED
    BY <2>2, <2>3
<1>3. CASE ~(hostAddr = usbDeviceAddr /\ InHandshake = "DATA")
  <2>1. UNCHANGED <<phase, got, gotLen, toggle>>
    BY <1>3 DEF SendIn
  <2>2. DeviceSame /\ (usbCurrentTok' = "OUT" => usbCurrentTok = "OUT")
    <3>1. CASE hostAddr = usbDeviceAddr
      <4>1. HandleIn(hostAddr) /\ InHandshake # "DATA"
        BY <1>3, <3>1 DEF SendIn
      <4> QED
        BY <4>1, InEffect DEF DeviceSame, Unsent
    <3>2. CASE hostAddr # usbDeviceAddr
      <4>1. HandleToken("IN", hostAddr)
        BY <3>2 DEF SendIn
      <4> QED
        BY <4>1, TokenSame, TokenEffect
    <3> QED
      BY <3>1, <3>2
  <2>3. SamePart /\ phase \in Running /\ phase' \in Running
    BY <1>1, <2>1 DEF SamePart, Running, BetweenTransactions
  <2> QED
    BY <1>1, <2>1, <2>2, <2>3, SilentLoss
<1> QED
  BY <1>2, <1>3

-----------------------------------------------------------------------------
(* Steps between two transfers *)

\* The host alone moves.
LEMMA DeviceRestsLoss ==
  ASSUME LossInv, UNCHANGED deviceVars
  PROVE  /\ AnswerOK' /\ PacketOK' /\ OutOK'
         /\ Pending' <=> Pending
         /\ UNCHANGED <<acked, usbRxLen, usbDeviceAddr, usbNewDeviceAddr>>
<1>1. /\ UNCHANGED <<acked, current, answer, usbCurrentTok, usbRxLen, usbRxToken,
                     usbMsgLen, usbTxBuf, usbTxLen, pc, usbDeviceAddr,
                     usbNewDeviceAddr>>
  OBVIOUS
<1>2. (Pending' <=> Pending) /\ (Unsent' <=> Unsent) /\ BytesBefore' = BytesBefore
  BY <1>1 DEF Pending, Unsent, BytesBefore
<1>3. Drained' <=> Drained
  BY <1>1, <1>2 DEF Drained
<1> QED
  BY <1>1, <1>2, <1>3 DEF LossInv, AnswerOK, PacketOK, OutOK

\* What the host has forgotten.
LEMMA Forgotten ==
  ASSUME ForgetTransfer
  PROVE  request' = NoRequest /\ NothingReceived' /\ LengthOK'
  BY DEF ForgetTransfer, NothingReceived, LengthOK, NoRequest

LEMMA AskLoss ==
  ASSUME LossInv, NEW r \in Requests, Ask(r)
  PROVE  LossInv'
<1>1. /\ phase = "idle" /\ phase' = "setup" /\ request' = r
      /\ UNCHANGED <<toggle, got, gotLen, hostAddr, se0, resetSeen, missed>>
      /\ UNCHANGED deviceVars
  BY DEF Ask
<1>2. /\ AnswerOK' /\ PacketOK' /\ OutOK' /\ (Pending' <=> Pending)
      /\ UNCHANGED <<acked, usbRxLen, usbDeviceAddr, usbNewDeviceAddr>>
  BY <1>1, DeviceRestsLoss
<1>3. NothingReceived /\ request = NoRequest /\ ~se0 /\ ~resetSeen
  BY <1>1 DEF LossInv, PhaseOK, IdleOK, ResetOK, Before
<1>4. r.wLength \in Nat
  BY ReplyLimit DEF Payloads
<1>5. ResetOK' /\ AskedOK' /\ IdleOK' /\ LengthOK'
  BY <1>1, <1>3, <1>4 DEF ResetOK, AskedOK, IdleOK, LengthOK, NothingReceived
<1>6. PhaseOK'
  BY <1>1, <1>3 DEF PhaseOK, NothingReceived, Before, During, After
<1>7. SameOK'
  BY <1>1, <1>2, <1>3
     DEF LossInv, SameOK, SameAddress, Assigning, NoRequest
<1> QED
  BY <1>2, <1>5, <1>6, <1>7 DEF LossInv

LEMMA FinishLoss ==
  ASSUME LossInv, Finish
  PROVE  LossInv'
<1>1. /\ phase = "done" /\ phase' = "idle" /\ ForgetTransfer
      /\ hostAddr' = IF request.name = "setAddress" THEN request.value
                     ELSE hostAddr
      /\ UNCHANGED <<se0, resetSeen, missed>>
      /\ UNCHANGED deviceVars
  BY DEF Finish
<1>2. /\ AnswerOK' /\ PacketOK' /\ OutOK' /\ (Pending' <=> Pending)
      /\ UNCHANGED <<acked, usbRxLen, usbDeviceAddr, usbNewDeviceAddr>>
  BY <1>1, DeviceRestsLoss
<1>3. request' = NoRequest /\ NothingReceived' /\ LengthOK'
  BY <1>1, Forgotten
<1>4. ~se0 /\ ~resetSeen /\ Ended
  BY <1>1 DEF LossInv, ResetOK, PhaseOK, After
<1>5. ResetOK' /\ AskedOK' /\ IdleOK' /\ PhaseOK'
  BY <1>1, <1>3, <1>4 DEF ResetOK, AskedOK, IdleOK, PhaseOK, During, After
<1>6. SameOK'
  <2>1. ~Pending'
    BY <1>2, <1>4 DEF Ended, Drained
  <2>2. ~missed => SameAddress'
    BY <1>1, <1>2, <1>4 DEF LossInv, SameOK, SameAddress, Ended
  <2> QED
    BY <1>1, <2>1, <2>2 DEF SameOK, Assigning
<1> QED
  BY <1>2, <1>3, <1>5, <1>6 DEF LossInv

LEMMA AbortLoss ==
  ASSUME LossInv, Abort
  PROVE  LossInv'
<1>1. /\ phase \in BetweenTransactions
      /\ UNCHANGED <<hostAddr, se0, resetSeen, missed>>
      /\ UNCHANGED deviceVars
      /\ IF request.name = "setAddress"
         THEN phase' = "mustReset" /\ UNCHANGED <<request, gotLen>>
         ELSE phase' = "idle" /\ ForgetTransfer
  BY DEF Abort
<1>2. /\ AnswerOK' /\ PacketOK' /\ OutOK' /\ (Pending' <=> Pending)
      /\ UNCHANGED <<acked, usbRxLen, usbDeviceAddr, usbNewDeviceAddr>>
  BY <1>1, DeviceRestsLoss
<1>3. ~se0 /\ ~resetSeen
  BY <1>1 DEF LossInv, ResetOK, BetweenTransactions
<1>4. CASE request.name = "setAddress"
  <2>1. ResetOK' /\ AskedOK' /\ IdleOK' /\ LengthOK' /\ PhaseOK' /\ SameOK'
    BY <1>1, <1>3, <1>4
       DEF LossInv, ResetOK, AskedOK, IdleOK, LengthOK, PhaseOK, SameOK,
           Before, During, After, BetweenTransactions
  <2> QED
    BY <1>2, <2>1 DEF LossInv
<1>5. CASE request.name # "setAddress"
  <2>1. request' = NoRequest /\ NothingReceived' /\ LengthOK'
    BY <1>1, <1>5, Forgotten
  <2>2. ResetOK' /\ AskedOK' /\ IdleOK' /\ PhaseOK'
    BY <1>1, <1>3, <1>5, <2>1
       DEF ResetOK, AskedOK, IdleOK, PhaseOK, During, After
  <2>3. SameOK'
    BY <1>1, <1>2, <1>5 DEF LossInv, SameOK, SameAddress, Assigning
  <2> QED
    BY <1>2, <2>1, <2>2, <2>3 DEF LossInv
<1> QED
  BY <1>4, <1>5

LEMMA BeginResetLoss ==
  ASSUME LossInv, BeginReset
  PROVE  LossInv'
<1>1. /\ phase' = "resetting" /\ ForgetTransfer /\ hostAddr' = 0
      /\ se0' = TRUE /\ resetSeen' = FALSE
      /\ UNCHANGED deviceVars
  BY DEF BeginReset
<1>2. AnswerOK' /\ PacketOK' /\ OutOK'
  BY <1>1, DeviceRestsLoss
<1>3. request' = NoRequest /\ NothingReceived' /\ LengthOK'
  BY <1>1, Forgotten
<1>4. ResetOK' /\ AskedOK' /\ IdleOK' /\ PhaseOK' /\ SameOK'
  BY <1>1, <1>3
     DEF ResetOK, AskedOK, IdleOK, PhaseOK, SameOK, During, After
<1> QED
  BY <1>2, <1>3, <1>4 DEF LossInv

LEMMA EndResetLoss ==
  ASSUME LossInv, EndReset
  PROVE  LossInv'
<1>1. /\ phase = "resetting" /\ phase' = "idle" /\ se0' = FALSE
      /\ missed' = ~resetSeen /\ resetSeen' = FALSE
      /\ UNCHANGED <<hostAddr, request, toggle, got, gotLen>>
      /\ UNCHANGED deviceVars
  BY DEF EndReset
<1>2. /\ AnswerOK' /\ PacketOK' /\ OutOK' /\ (Pending' <=> Pending)
      /\ UNCHANGED <<acked, usbRxLen, usbDeviceAddr, usbNewDeviceAddr>>
  BY <1>1, DeviceRestsLoss
<1>3. se0 /\ hostAddr = 0 /\ request = NoRequest /\ NothingReceived
  BY <1>1 DEF LossInv, ResetOK, PhaseOK, Before
<1>4. ResetOK' /\ AskedOK' /\ IdleOK' /\ LengthOK'
  BY <1>1, <1>3 DEF LossInv, ResetOK, AskedOK, IdleOK, LengthOK
<1>5. PhaseOK'
  BY <1>1, <1>3 DEF PhaseOK, NothingReceived, During, After
<1>6. SameOK'
  <2>1. resetSeen => /\ usbRxLen = 0 /\ usbDeviceAddr = 0
                     /\ usbNewDeviceAddr = 0
    BY DEF LossInv, ResetOK
  <2>2. resetSeen => ~Pending
    BY <2>1 DEF Pending
  <2> QED
    BY <1>1, <1>2, <1>3, <2>1, <2>2 DEF SameOK, SameAddress, Assigning
<1> QED
  BY <1>2, <1>4, <1>5, <1>6 DEF LossInv

-----------------------------------------------------------------------------
(* The invariant, and what follows from it *)

LEMMA InitLossInv == BusInit => LossInv
  BY DEF BusInit, DeviceInit, LossInv, AnswerOK, PacketOK, ResetOK, OutOK,
         PhaseOK, NothingReceived, LengthOK, AskedOK, IdleOK, SameOK,
         SameAddress, Assigning, Pending, Before, During, After, NoRequest

LEMMA StepLossInv ==
  ASSUME IInv, HostInv, ReplyInv, LossInv, NoEvenFill, [BusNext]_busVars
  PROVE  LossInv'
<1>1. CASE DeviceStep
  BY <1>1, DeviceLoss
<1>2. ASSUME NEW r \in Requests, Ask(r) PROVE LossInv'
  BY <1>2, AskLoss
<1>3. CASE SendSetupData
  <2>1. /\ phase = "setupData" /\ HandleData(request, 11)
        /\ phase' = IF DataHandshake(11) = "ACK" THEN AfterSetup ELSE "setup"
        /\ UNCHANGED <<request, toggle, got, gotLen, hostAddr, se0, resetSeen,
                       missed>>
    BY <1>3 DEF SendSetupData
  <2>2. \/ phase' = "setup"
        \/ phase' \in {"dataIn", "statusIn"} /\ DataHandshake(11) = "ACK"
    BY <2>1 DEF AfterSetup
  <2> QED
    BY <2>1, <2>2, SetupDataLoss
<1>4. CASE SendIn
  BY <1>4, InStepLoss
<1>5. CASE Finish
  BY <1>5, FinishLoss
<1>6. CASE \/ SendSetup \/ SendAck \/ SendStatusOut \/ SendStatusOutData
           \/ ForeignTraffic \/ LoseToken \/ LoseDataOut \/ LoseAck
           \/ LoseHandshake /\ phase # "setupData"
  BY <1>6, QuietLoss
<1>7. CASE Abort
  BY <1>7, AbortLoss
<1>8. CASE BeginReset
  BY <1>8, BeginResetLoss
<1>9. CASE EndReset
  BY <1>9, EndResetLoss
<1>10. CASE LoseHandshake /\ phase = "setupData"
  <2>1. /\ HandleData(request, 11) /\ phase' = "setup"
        /\ UNCHANGED <<request, toggle, got, gotLen, hostAddr, se0, resetSeen,
                       missed>>
    BY <1>10 DEF LoseHandshake, RepeatTransaction
  <2> QED
    BY <1>10, <2>1, SetupDataLoss
<1>11. CASE LoseDataIn
  <2>1. /\ phase \in {"dataIn", "statusIn"} /\ phase' = phase
        /\ InHandshake = "DATA" /\ HandleIn(hostAddr)
        /\ UNCHANGED <<request, toggle, got, gotLen, hostAddr, se0, resetSeen,
                       missed>>
    BY <1>11 DEF LoseDataIn
  <2>2. phase' \in During
    BY <2>1 DEF During
  <2> QED
    BY <2>1, <2>2, PacketDropped
<1>12. CASE UNCHANGED busVars
  <2>1. /\ UNCHANGED <<phase, request, toggle, got, gotLen, hostAddr, se0,
                       resetSeen, missed>>
        /\ UNCHANGED <<usbCurrentTok, acked, current, answer, usbRxLen,
                       usbRxToken, usbMsgLen, usbTxBuf, usbTxLen, pc,
                       usbDeviceAddr, usbNewDeviceAddr>>
    BY <1>12 DEF busVars
  <2>2. (Pending' <=> Pending) /\ (Unsent' <=> Unsent)
    BY <2>1 DEF Pending, Unsent
  <2>3. /\ BytesBefore' = BytesBefore /\ Sent' = Sent
        /\ Drained' <=> Drained
    BY <2>1, <2>2 DEF BytesBefore, Packed, Sent, Drained
  <2>4. (AnswerOK /\ PacketOK /\ OutOK)'
    BY <2>1, <2>2, <2>3 DEF LossInv, AnswerOK, PacketOK, OutOK
  <2>5. (ResetOK /\ LengthOK /\ AskedOK /\ IdleOK)'
    BY <2>1 DEF LossInv, ResetOK, LengthOK, AskedOK, IdleOK
  <2>6. SameOK'
    BY <2>1, <2>2 DEF LossInv, SameOK, SameAddress, Assigning
  <2>7. PhaseOK'
    <3>1. (Taken' <=> Taken) /\ (NothingReceived' <=> NothingReceived)
      BY <2>1, <2>3 DEF Taken, InOrder, Prefix, NothingReceived
    <3>2. Ended' <=> Ended
      BY <2>1, <2>3 DEF Ended, Complete
    <3> QED
      BY <2>1, <2>3, <3>1, <3>2 DEF LossInv, PhaseOK, Swallowed
  <2> QED
    BY <2>4, <2>5, <2>6, <2>7 DEF LossInv
<1> QED
  BY <1>1, <1>2, <1>3, <1>4, <1>5, <1>6, <1>7, <1>8, <1>9, <1>10, <1>11, <1>12
     DEF BusNext, HostStep, Fault

LEMMA LossInvAlways ==
  ASSUME NoEvenFill
  PROVE  BusSpec => [](IInv /\ HostInv /\ ReplyInv /\ LossInv)
<1>1. BusSpec => []HostInv
  BY InitHost, StepHost, PTL DEF BusSpec
<1>2. DeviceSpec => []ReplyInv
  BY InitReplyInv, StepReplyInv, IInvAlways, PTL DEF DeviceSpec
<1>3. IInv /\ HostInv /\ ReplyInv /\ LossInv /\ [BusNext]_busVars => LossInv'
  BY StepLossInv
<1> QED
  BY <1>1, <1>2, <1>3, IInvAlways, BusImplementsDevice, InitLossInv, PTL
     DEF BusSpec

\* Whatever the bus loses, a transfer that ends was served: set_led has
\* happened when a setLed returns (usbProcessRx, against a lost handshake that
\* makes the host repeat a SETUP and a lost token that hides one).
THEOREM LossyTransfersAreServed ==
  ASSUME NoEvenFill
  PROVE  BusSpec => []DoneMeansServed
<1>1. LossInv => DoneMeansServed
  BY DEF LossInv, PhaseOK, Ended, DoneMeansServed, Answered, After
<1> QED
  BY <1>1, LossInvAlways, PTL

\* Whatever the bus loses, a getEnv that ends does so with all sixteen bytes
\* of its own answer, which are of one measurement, or with none
\* (usbBuildTxBlock, handleIn and the DATA toggle).
THEOREM EnvironmentAllOrNothing ==
  ASSUME NoEvenFill
  PROVE  BusSpec => []AllOrNothing
<1>1. HostInv /\ LossInv => AllOrNothing
  <2> SUFFICES ASSUME HostInv, LossInv, phase = "done", request.name = "getEnv"
               PROVE  Answered /\ (gotLen = 0 \/ got = answer.words)
    BY DEF AllOrNothing
  <2>1. Ended
    BY DEF LossInv, PhaseOK, After
  <2>2. Answered
    BY <2>1 DEF Ended, Answered
  <2>3. answer.len = ReplyLength(request)
    BY <2>1 DEF Ended, LossInv, AnswerOK
  <2>4. ReplyLength(request) <= 16
    BY PayloadType, ReplyLengthBound DEF HostInv
  <2> QED
    BY <2>1, <2>2, <2>3, <2>4 DEF Ended, Complete
<1> QED
  BY <1>1, LossInvAlways, PTL

\* Whatever the bus loses, the host is never sent more than it asked for (the
\* length limit of usbProcessRx): a packet it drops as a repetition was sent.
THEOREM LossyNothingOverruns ==
  ASSUME NoEvenFill
  PROVE  BusSpec => []NeverOverrun
<1>1. HostInv /\ LossInv => NeverOverrun
  <2> SUFFICES ASSUME HostInv, LossInv PROVE NeverOverrun
    OBVIOUS
  <2>1. request.wLength \in Nat
    BY ReplyLimit DEF HostInv
  <2> QED
    BY <2>1 DEF LossInv, LengthOK, NeverOverrun
<1> QED
  BY <1>1, LossInvAlways, PTL

\* Whatever the bus loses, device and host agree on the address while it does
\* not change (usbNewDeviceAddr against usbDeviceAddr, handleIn), unless the
\* last reset passed unnoticed.
THEOREM LossyAddressesAgree ==
  ASSUME NoEvenFill
  PROVE  BusSpec => []AddressAgreement
<1>1. LossInv => AddressAgreement
  BY DEF LossInv, SameOK, SameAddress, AddressAgreement, AddressChanging
<1> QED
  BY <1>1, LossInvAlways, PTL
=============================================================================
