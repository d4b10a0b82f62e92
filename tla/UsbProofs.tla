-------------------------------- MODULE UsbProofs ---------------------------
(* Proofs about the firmware and about a host on a bus, in three parts.      *)
(*                                                                           *)
(* 1. UsbDevice: for every set of requests, addresses and samples and every  *)
(*    CNTMAX, whatever packets arrive and wherever they interrupt the main   *)
(*    loop.                                                                  *)
(* 2. The device of UsbBus is that of UsbDevice: a host and a bus, with      *)
(*    their faults, are one of the environments UsbDevice is proved correct  *)
(*    in, so what the first part proves carries over.                        *)
(* 3. What a host can rely on when the bus loses nothing, although callers   *)
(*    give up, the bus is reset and others use it: device and host agree on  *)
(*    the address, and a transfer that ends was served.                      *)
EXTENDS UsbBus, TLAPS

-----------------------------------------------------------------------------
(* Part 1: the device in any environment *)

\* Acknowledged by the interrupt, not yet served by usbPoll.
Pending == usbRxLen = 11 /\ usbRxToken = "SETUP" /\ pc # "free"

\* While usbProcessRx runs, its arguments describe the packet in the buffer.
RxArguments ==
  /\ pc \in {"process", "abort", "setup", "free"} =>
       /\ usbRxLen # 0
       /\ rx.half = 1 - usbInputBufOffset
       /\ rx.len = usbRxLen - 3
  /\ pc \in {"abort", "setup"} => usbRxLen = 11 /\ usbRxToken = "SETUP"

\* The interrupt's half is never the one that holds an unserved SETUP.
RxKept ==
  /\ usbRxLen = 11 /\ usbRxToken = "SETUP" =>
       usbRxBuf[1 - usbInputBufOffset] = acked
  /\ Pending => current \in {{"rx"}}

\* The main loop fills the transmit buffer only when there is nothing in it.
TxIdle == pc \in {"setup", "build", "publish"} => usbTxLen = USBPID_NAK

\* Once no SETUP waits, message and packet belong to the last one.
Fresh ==
  ~Pending =>
    /\ usbMsgLen # USB_NO_MSG => "msg" \in current
    /\ usbTxLen # USBPID_NAK \/ pc = "publish" => "tx" \in current

BuildsMessage == pc = "build" => usbMsgLen # USB_NO_MSG

Counting == pc = "poll" => cnt <= CntMax

IInv == /\ DeviceTypeOK /\ ReadInBounds
        /\ RxArguments /\ RxKept /\ TxIdle /\ Fresh /\ BuildsMessage
        /\ Counting

-----------------------------------------------------------------------------
(* What a request and its answer look like. *)

USE RequestsAssumption, SamplesAssumption, AddressesAssumption,
    CntMaxAssumption

LEMMA PayloadType == Payloads \subseteq RequestType
  BY DEF Payloads, NoRequest, RequestType, VendorNames, StandardNames

\* No answer is longer than the longest descriptor, and only descriptors are
\* longer than the sixteen bytes of getEnv.
LEMMA ReplyLengthBound ==
  ASSUME NEW r \in RequestType
  PROVE  /\ ReplyLength(r) \in 0 .. 28
         /\ r.name # "getDescriptor" => ReplyLength(r) <= 16
         /\ r.name = "getDescriptor" /\ r.value \notin 1 .. 5 =>
              ReplyLength(r) = 0
<1>1. r.value \in 0 .. 255 /\ r.wLength \in Nat
  BY DEF RequestType
<1>2. FullLength(r) \in 0 .. 28
  BY <1>1 DEF FullLength, DescriptorLength
<1>3. /\ r.name # "getDescriptor" => FullLength(r) <= 16
      /\ r.name = "getDescriptor" /\ r.value \notin 1 .. 5 =>
           FullLength(r) = 0
  BY <1>1 DEF FullLength
<1>4. \A n \in 0 .. 28 : LimitLength(n, r.wLength) \in 0 .. n
  BY <1>1 DEF LimitLength
<1> QED
  BY <1>2, <1>3, <1>4 DEF ReplyLength

LEMMA WordCounts ==
  ASSUME NEW n \in Nat
  PROVE  WordCount(n) \in Nat /\ (n <= 16 => WordCount(n) <= 4)
  BY DEF WordCount

\* Whole packets keep an offset a multiple of their size.
LEMMA PacketOffsets ==
  ASSUME NEW n \in Nat, n % 8 = 0
  PROVE  (n + 8) % 8 = 0 /\ (n + 8) \div 4 = n \div 4 + 2
  OBVIOUS

LEMMA ReplyTyped ==
  ASSUME NEW r \in RequestType, NEW s \in Readings, NEW c \in 0 .. 255
  PROVE  Reply(r, s, c) \in [len : MsgLen, words : Seq(Words)]
<1> DEFINE n == ReplyLength(r)
<1>1. n \in 0 .. 28 /\ (r.name # "getDescriptor" => n <= 16)
  BY ReplyLengthBound
<1>2. WordCount(n) \in Nat /\ (r.name # "getDescriptor" => WordCount(n) <= 4)
  BY <1>1, WordCounts
<1>3. ASSUME NEW i \in 1 .. WordCount(n)
      PROVE  ReplyWord(r, s, c, i) \in Words
  <2>1. r.value \in 0 .. 255
    BY DEF RequestType
  <2>2. CASE r.name = "getEnv"
    <3>1. i \in 1 .. 4
      BY <2>2, <1>2
    <3>2. EnvFields[i] \in {EnvFields[k] : k \in 1 .. 4}
      BY <3>1
    <3> QED
      BY <2>2, <3>2 DEF ReplyWord, Word, Words
  <2>3. CASE r.name # "getEnv"
    BY <2>1, <2>3, <1>2 DEF ReplyWord, RomWord, Word, Words
  <2> QED
    BY <2>2, <2>3
<1>4. [i \in 1 .. WordCount(n) |-> ReplyWord(r, s, c, i)] \in Seq(Words)
  BY <1>2, <1>3
<1> QED
  BY <1>1, <1>4 DEF Reply, MsgLen

-----------------------------------------------------------------------------
(* The inductive invariant *)

USE DEF rxVars, txVars, addrVars, msgVars, envVars, history, deviceVars,
        USBPID_NAK, USB_NO_MSG, MsgLen, Tokens, MainSteps, Goto, Store

LEMMA InitIInv == DeviceInit => IInv
<1> SUFFICES ASSUME DeviceInit PROVE IInv
  OBVIOUS
<1>1. Placeholder \in Readings /\ NoRequest \in Payloads
  BY DEF Readings, Payloads
<1>2. << >> \in Seq(Words) /\ Word("zero", 0) \in Words
  BY DEF Word, Words
<1>3. DeviceTypeOK
  BY <1>1, <1>2 DEF DeviceInit, InitialCount, DeviceTypeOK, RxTypeOK, TxTypeOK, AddrTypeOK,
                    MsgTypeOK, MainTypeOK, HistoryTypeOK, Uniform, NoReply
<1>4. ReadInBounds /\ RxArguments /\ RxKept /\ TxIdle /\ Fresh /\ BuildsMessage
      /\ Counting
  BY DEF DeviceInit, InitialCount, ReadInBounds, RxArguments, RxKept, Pending, TxIdle,
         Fresh, BuildsMessage, Counting
<1> QED
  BY <1>3, <1>4 DEF IInv

\* The interrupt's steps.

LEMMA HandleTokenStep ==
  ASSUME IInv, NEW pid, NEW addr, HandleToken(pid, addr)
  PROVE  IInv'
<1> USE DEF IInv, DeviceTypeOK, HandleToken
<1>1. RxTypeOK'
  BY DEF RxTypeOK, Payloads
<1>2. RxKept'
  BY DEF RxTypeOK, RxKept, Pending
<1>3. (TxTypeOK /\ AddrTypeOK /\ MsgTypeOK /\ MainTypeOK /\ HistoryTypeOK)'
  BY DEF TxTypeOK, AddrTypeOK, MsgTypeOK, MainTypeOK, HistoryTypeOK
<1>4. (ReadInBounds /\ RxArguments /\ TxIdle /\ Fresh /\ BuildsMessage
        /\ Counting)'
  BY DEF ReadInBounds, RxArguments, Pending, TxIdle, Fresh, BuildsMessage,
         Counting
<1> QED
  BY <1>1, <1>2, <1>3, <1>4

LEMMA HandleDataStep ==
  ASSUME IInv, NEW payload \in Payloads, NEW n \in PacketSizes,
         HandleData(payload, n)
  PROVE  IInv'
<1> USE DEF IInv, DeviceTypeOK, HandleData, Accepts, DataHandshake, PacketSizes
<1>1. RxTypeOK'
  BY DEF RxTypeOK
<1>2. HistoryTypeOK'
  BY DEF HistoryTypeOK
<1>3. (TxTypeOK /\ AddrTypeOK /\ MsgTypeOK /\ MainTypeOK)'
  BY DEF TxTypeOK, AddrTypeOK, MsgTypeOK, MainTypeOK
<1>4. RxArguments'
  BY DEF RxTypeOK, RxArguments
<1>5. RxKept'
  BY DEF RxTypeOK, RxKept, Pending, RxArguments
<1>6. Fresh'
  BY DEF RxTypeOK, Fresh, Pending, RxArguments
<1>7. (ReadInBounds /\ TxIdle /\ BuildsMessage /\ Counting)'
  BY DEF ReadInBounds, TxIdle, BuildsMessage, Counting
<1> QED
  BY <1>1, <1>2, <1>3, <1>4, <1>5, <1>6, <1>7

LEMMA HandleInStep ==
  ASSUME IInv, NEW addr, HandleIn(addr)
  PROVE  IInv'
<1> USE DEF IInv, DeviceTypeOK, HandleIn, InHandshake
<1>1. RxTypeOK'
  BY DEF RxTypeOK, Payloads
<1>2. TxTypeOK'
  BY DEF TxTypeOK
<1>3. AddrTypeOK'
  <2>1. usbNewDeviceAddr \in 0 .. 255 => usbNewDeviceAddr % 128 \in 0 .. 127
    OBVIOUS
  <2> QED
    BY <2>1 DEF AddrTypeOK
<1>4. (MsgTypeOK /\ MainTypeOK /\ HistoryTypeOK)'
  BY DEF MsgTypeOK, MainTypeOK, HistoryTypeOK
<1>5. RxKept'
  BY DEF RxTypeOK, RxKept, Pending
<1>6. (ReadInBounds /\ RxArguments /\ TxIdle /\ BuildsMessage /\ Counting)'
  BY DEF ReadInBounds, RxArguments, TxIdle, BuildsMessage, Counting
<1>7. Fresh'
  BY DEF Fresh, Pending, TxIdle
<1> QED
  BY <1>1, <1>2, <1>3, <1>4, <1>5, <1>6, <1>7

\* The main loop's steps.

LEMMA PollRxStep ==
  ASSUME IInv, PollRx
  PROVE  IInv'
<1> USE DEF IInv, DeviceTypeOK, PollRx
<1>1. MainTypeOK'
  BY DEF MainTypeOK, RxTypeOK, Counting
<1>2. (RxTypeOK /\ TxTypeOK /\ AddrTypeOK /\ MsgTypeOK /\ HistoryTypeOK)'
  BY DEF RxTypeOK, TxTypeOK, AddrTypeOK, MsgTypeOK, HistoryTypeOK
<1>3. RxArguments' /\ RxKept'
  BY DEF RxTypeOK, RxArguments, RxKept, Pending
<1>4. (ReadInBounds /\ TxIdle /\ Fresh /\ BuildsMessage /\ Counting)'
  BY DEF ReadInBounds, TxIdle, Fresh, Pending, BuildsMessage, Counting
<1> QED
  BY <1>1, <1>2, <1>3, <1>4

LEMMA ProcessRxStep ==
  ASSUME IInv, ProcessRx
  PROVE  IInv'
<1> USE DEF IInv, DeviceTypeOK, ProcessRx
<1>1. TxTypeOK' /\ MainTypeOK'
  BY DEF TxTypeOK, MainTypeOK
<1>2. (RxTypeOK /\ AddrTypeOK /\ MsgTypeOK /\ HistoryTypeOK)'
  BY DEF RxTypeOK, AddrTypeOK, MsgTypeOK, HistoryTypeOK
<1>3. RxArguments' /\ RxKept'
  BY DEF RxTypeOK, RxArguments, RxKept, Pending
<1>4. Fresh'
  BY DEF RxTypeOK, RxArguments, Fresh, Pending
<1>5. (ReadInBounds /\ TxIdle /\ BuildsMessage /\ Counting)'
  BY DEF ReadInBounds, TxIdle, BuildsMessage, Counting
<1> QED
  BY <1>1, <1>2, <1>3, <1>4, <1>5

LEMMA AbortTransmitStep ==
  ASSUME IInv, AbortTransmit
  PROVE  IInv'
<1> USE DEF IInv, DeviceTypeOK, AbortTransmit
<1>1. TxTypeOK' /\ MainTypeOK'
  BY DEF TxTypeOK, MainTypeOK
<1>2. (RxTypeOK /\ AddrTypeOK /\ MsgTypeOK /\ HistoryTypeOK)'
  BY DEF RxTypeOK, AddrTypeOK, MsgTypeOK, HistoryTypeOK
<1>3. (RxArguments /\ RxKept /\ TxIdle /\ Fresh)'
  BY DEF RxArguments, RxKept, Pending, TxIdle, Fresh
<1>4. (ReadInBounds /\ BuildsMessage /\ Counting)'
  BY DEF ReadInBounds, BuildsMessage, Counting
<1> QED
  BY <1>1, <1>2, <1>3, <1>4

LEMMA ServeSetupStep ==
  ASSUME IInv, ServeSetup
  PROVE  IInv'
<1> DEFINE r == usbRxBuf[rx.half]
<1> USE DEF IInv, DeviceTypeOK, ServeSetup
<1>1. r = acked /\ r \in RequestType /\ r.value \in 0 .. 255
  <2>1. r = acked /\ r \in Payloads
    BY DEF RxArguments, RxKept, RxTypeOK, MainTypeOK
  <2> QED
    BY <2>1, PayloadType DEF RequestType
<1>2. ReplyLength(r) \in 0 .. 28
      /\ (r.name # "getDescriptor" => ReplyLength(r) <= 16)
      /\ (r.name = "getDescriptor" /\ r.value \notin 1 .. 5 =>
            ReplyLength(r) = 0)
  BY <1>1, ReplyLengthBound
<1>3. \/ r.name \in VendorNames /\ usbFunctionSetup(r)
      \/ r.name \notin VendorNames /\ usbDriverSetup(r)
  OBVIOUS
<1>4. RxTypeOK'
  BY DEF RxTypeOK
<1>5. TxTypeOK'
  BY <1>3 DEF TxTypeOK, usbFunctionSetup, usbDriverSetup
<1>6. AddrTypeOK'
  BY <1>1, <1>3 DEF AddrTypeOK, usbFunctionSetup, usbDriverSetup
<1>7. MsgTypeOK'
  <2>1. usbMsgLen' \in MsgLen
    BY <1>2
  <2>2. usbMsgPtr' \in [buf : {"null", "replyBuf", "rom", "usbConfiguration",
                              "txTail"}, off : Nat]
    BY <1>1, <1>3 DEF MsgTypeOK, usbFunctionSetup, usbDriverSetup
  <2>3. usbConfiguration' \in 0 .. 255
    BY <1>1, <1>3 DEF MsgTypeOK, usbFunctionSetup, usbDriverSetup
  <2>4. \A i \in 1 .. 4 : SamplePart(i) \in Words
    BY DEF SamplePart, MainTypeOK, EnvFields, Word, Words
  <2>5. Word("echo", r.value) \in Words /\ Word("version", 0) \in Words
    BY <1>1 DEF Word, Words
  <2>6. replyBuf' \in [1 .. 4 -> Words]
    BY <1>3, <2>4, <2>5 DEF MsgTypeOK, usbFunctionSetup, usbDriverSetup
  <2> QED
    BY <2>1, <2>2, <2>3, <2>6 DEF MsgTypeOK
<1>8. MainTypeOK'
  BY <1>3 DEF MainTypeOK, usbFunctionSetup, usbDriverSetup, set_led
<1>9. HistoryTypeOK'
  <2>1. answer' \in [len : MsgLen, words : Seq(Words)]
    BY <1>1, ReplyTyped DEF MainTypeOK, MsgTypeOK
  <2> QED
    BY <2>1 DEF HistoryTypeOK
<1>10. ReadInBounds'
  <2>1. CASE r.name \in VendorNames /\ usbFunctionSetup(r)
    <3>1. usbMsgPtr'.off = 0 /\ usbMsgLen' \in 0 .. 16
      BY <1>2, <2>1 DEF usbFunctionSetup, VendorNames
    <3> QED
      BY <3>1 DEF ReadInBounds
  <2>2. CASE r.name \notin VendorNames /\ usbDriverSetup(r)
    <3>1. usbMsgPtr'.buf # "replyBuf" \/ usbMsgLen' = 0
      BY <1>2, <2>2 DEF usbDriverSetup
    <3> QED
      BY <3>1 DEF ReadInBounds
  <2> QED
    BY <1>3, <2>1, <2>2
<1>11. (RxArguments /\ RxKept /\ TxIdle /\ BuildsMessage /\ Counting)'
  BY DEF RxArguments, RxKept, Pending, TxIdle, BuildsMessage, Counting
<1>12. Fresh'
  BY DEF Fresh, Pending, TxIdle, RxKept, RxArguments
<1> QED
  BY <1>4, <1>5, <1>6, <1>7, <1>8, <1>9, <1>10, <1>11, <1>12

LEMMA FreeRxStep ==
  ASSUME IInv, FreeRx
  PROVE  IInv'
<1> USE DEF IInv, DeviceTypeOK, FreeRx
<1>1. RxTypeOK' /\ MainTypeOK'
  BY DEF RxTypeOK, MainTypeOK
<1>2. (TxTypeOK /\ AddrTypeOK /\ MsgTypeOK /\ HistoryTypeOK)'
  BY DEF TxTypeOK, AddrTypeOK, MsgTypeOK, HistoryTypeOK
<1>3. (RxArguments /\ RxKept /\ TxIdle /\ Fresh)'
  BY DEF RxArguments, RxKept, Pending, TxIdle, Fresh
<1>4. (ReadInBounds /\ BuildsMessage /\ Counting)'
  BY DEF ReadInBounds, BuildsMessage, Counting
<1> QED
  BY <1>1, <1>2, <1>3, <1>4

LEMMA CheckTxStep ==
  ASSUME IInv, CheckTx
  PROVE  IInv'
<1> USE DEF IInv, DeviceTypeOK, CheckTx
<1>1. MainTypeOK'
  BY DEF MainTypeOK
<1>2. (RxTypeOK /\ TxTypeOK /\ AddrTypeOK /\ MsgTypeOK /\ HistoryTypeOK)'
  BY DEF RxTypeOK, TxTypeOK, AddrTypeOK, MsgTypeOK, HistoryTypeOK
<1>3. (RxArguments /\ RxKept /\ TxIdle /\ Fresh /\ BuildsMessage)'
  BY DEF RxArguments, RxKept, Pending, TxIdle, Fresh, BuildsMessage
<1>4. (ReadInBounds /\ Counting)'
  BY DEF ReadInBounds, Counting
<1> QED
  BY <1>1, <1>2, <1>3, <1>4

\* What a packet holds of a message that is well placed.
LEMMA MessageWordTyped ==
  ASSUME IInv, usbMsgLen # USB_NO_MSG, NEW i \in Nat \ {0},
         i <= WordCount(IF usbMsgLen > 8 THEN 8 ELSE usbMsgLen)
  PROVE  MessageWord(i) \in Words
<1> DEFINE w == usbMsgPtr.off \div 4 + i
<1> USE DEF IInv, DeviceTypeOK, MsgTypeOK, TxTypeOK
<1>1. usbMsgPtr.off \in Nat /\ w \in Nat
  OBVIOUS
<1>2. CASE usbMsgPtr.buf = "replyBuf"
  <2>1. usbMsgLen # 0
    BY DEF WordCount
  <2>2. w \in 1 .. 4
    BY <1>1, <1>2, <2>1 DEF ReadInBounds, WordCount
  <2> QED
    BY <1>2, <2>2 DEF MessageWord
<1>3. CASE usbMsgPtr.buf # "replyBuf"
  <2>1. Word("rom", w) \in Words /\ Word("config", usbConfiguration) \in Words
    BY <1>1 DEF Word, Words
  <2>2. usbTxBuf.tail \in {"zero", "status", "crc"}
    OBVIOUS
  <2>3. Word(usbTxBuf.tail, 0) \in Words
    BY <2>2 DEF Word, Words
  <2> QED
    BY <1>3, <2>1, <2>3 DEF MessageWord, RomWord
<1> QED
  BY <1>2, <1>3

LEMMA BuildTxBlockStep ==
  ASSUME IInv, usbBuildTxBlock
  PROVE  IInv'
<1> DEFINE wantLen == IF usbMsgLen > 8 THEN 8 ELSE usbMsgLen
<1> USE DEF IInv, DeviceTypeOK, usbBuildTxBlock
<1>1. usbMsgLen \in MsgLen /\ wantLen \in 0 .. 8 /\ wantLen <= usbMsgLen
  <2>1. usbMsgLen # USB_NO_MSG /\ usbMsgLen \in MsgLen \cup {USB_NO_MSG}
    BY DEF BuildsMessage, MsgTypeOK
  <2>2. usbMsgLen \in MsgLen
    BY <2>1
  <2> HIDE DEF IInv, usbBuildTxBlock
  <2> QED
    BY <2>2
<1>2. TxTypeOK'
  <2>1. WordCount(wantLen) \in Nat
    BY <1>1, WordCounts
  <2>2. [i \in 1 .. WordCount(wantLen) |-> MessageWord(i)] \in Seq(Words)
    BY <2>1, MessageWordTyped DEF BuildsMessage
  <2>3. usbTxBuf' \in [pid : {"none", "DATA0", "DATA1"}, len : 0 .. 8,
                      words : Seq(Words), tail : {"zero", "status", "crc"}]
    BY <1>1, <2>2 DEF TxTypeOK, Toggle
  <2> QED
    BY <2>3 DEF TxTypeOK
<1>3. MsgTypeOK'
  BY <1>1 DEF MsgTypeOK
<1>4. (RxTypeOK /\ AddrTypeOK /\ MainTypeOK /\ HistoryTypeOK)'
  BY DEF RxTypeOK, AddrTypeOK, MainTypeOK, HistoryTypeOK
<1>5. ReadInBounds'
  <2> SUFFICES ASSUME usbMsgPtr'.buf = "replyBuf",
                      usbMsgLen' \notin {0, USB_NO_MSG}
               PROVE  usbMsgPtr'.off % 8 = 0 /\ usbMsgPtr'.off + usbMsgLen' <= 16
    BY DEF ReadInBounds
  <2>1. wantLen = 8 /\ usbMsgLen' = usbMsgLen - 8
    BY <1>1
  <2>2. usbMsgPtr.off \in Nat /\ usbMsgPtr.buf = "replyBuf"
        /\ usbMsgPtr'.off = usbMsgPtr.off + 8
    BY <2>1 DEF MsgTypeOK
  <2> HIDE DEF IInv, usbBuildTxBlock
  <2>3. usbMsgLen \in Nat /\ usbMsgLen \notin {0, USB_NO_MSG}
    BY <1>1, <2>1
  <2>4. usbMsgPtr.off % 8 = 0 /\ usbMsgPtr.off + usbMsgLen <= 16
    BY <2>2, <2>3 DEF IInv, ReadInBounds
  <2>5. (usbMsgPtr.off + 8) % 8 = 0
    BY <2>2, <2>4, PacketOffsets
  <2> QED
    BY <2>1, <2>2, <2>3, <2>4, <2>5
<1>6. Fresh'
  BY DEF Fresh, Pending, BuildsMessage, TxIdle
<1>7. (RxArguments /\ RxKept /\ TxIdle /\ BuildsMessage /\ Counting)'
  BY DEF RxArguments, RxKept, Pending, TxIdle, BuildsMessage, Counting
<1> QED
  BY <1>2, <1>3, <1>4, <1>5, <1>6, <1>7

LEMMA PublishTxStep ==
  ASSUME IInv, PublishTx
  PROVE  IInv'
<1> USE DEF IInv, DeviceTypeOK, PublishTx
<1>1. TxTypeOK' /\ MainTypeOK'
  BY DEF TxTypeOK, MainTypeOK
<1>2. (RxTypeOK /\ AddrTypeOK /\ MsgTypeOK /\ HistoryTypeOK)'
  BY DEF RxTypeOK, AddrTypeOK, MsgTypeOK, HistoryTypeOK
<1>3. (RxArguments /\ RxKept /\ TxIdle /\ Fresh)'
  BY DEF RxArguments, RxKept, Pending, TxIdle, Fresh
<1>4. (ReadInBounds /\ BuildsMessage /\ Counting)'
  BY DEF ReadInBounds, BuildsMessage, Counting
<1> QED
  BY <1>1, <1>2, <1>3, <1>4

LEMMA CheckResetStep ==
  ASSUME IInv, NEW seen, CheckReset(seen)
  PROVE  IInv'
<1> USE DEF IInv, DeviceTypeOK, CheckReset
<1>1. AddrTypeOK' /\ MainTypeOK'
  BY DEF AddrTypeOK, MainTypeOK
<1>2. (RxTypeOK /\ TxTypeOK /\ MsgTypeOK /\ HistoryTypeOK)'
  BY DEF RxTypeOK, TxTypeOK, MsgTypeOK, HistoryTypeOK
<1>3. (RxArguments /\ RxKept /\ TxIdle /\ Fresh)'
  BY DEF RxArguments, RxKept, Pending, TxIdle, Fresh
<1>4. (ReadInBounds /\ BuildsMessage /\ Counting)'
  BY DEF ReadInBounds, BuildsMessage, Counting
<1> QED
  BY <1>1, <1>2, <1>3, <1>4

LEMMA ConvertStep ==
  ASSUME IInv, NEW s \in Samples, Convert(s)
  PROVE  IInv'
<1> USE DEF IInv, DeviceTypeOK, Convert
<1>1. MainTypeOK'
  BY DEF MainTypeOK, Readings
<1>2. (RxTypeOK /\ TxTypeOK /\ AddrTypeOK /\ MsgTypeOK /\ HistoryTypeOK)'
  BY DEF RxTypeOK, TxTypeOK, AddrTypeOK, MsgTypeOK, HistoryTypeOK
<1>3. (RxArguments /\ RxKept /\ TxIdle /\ Fresh)'
  BY DEF RxArguments, RxKept, Pending, TxIdle, Fresh
<1>4. (ReadInBounds /\ BuildsMessage /\ Counting)'
  BY CntMaxAssumption DEF ReadInBounds, BuildsMessage, Counting
<1> QED
  BY <1>1, <1>2, <1>3, <1>4

LEMMA MeasureTemperature2Step ==
  ASSUME IInv, MeasureTemperature2
  PROVE  IInv'
<1> USE DEF IInv, DeviceTypeOK, MeasureTemperature2
<1>1. MainTypeOK'
  BY DEF MainTypeOK, Readings
<1>2. (RxTypeOK /\ TxTypeOK /\ AddrTypeOK /\ MsgTypeOK /\ HistoryTypeOK)'
  BY DEF RxTypeOK, TxTypeOK, AddrTypeOK, MsgTypeOK, HistoryTypeOK
<1>3. (RxArguments /\ RxKept /\ TxIdle /\ Fresh)'
  BY DEF RxArguments, RxKept, Pending, TxIdle, Fresh
<1>4. (ReadInBounds /\ BuildsMessage /\ Counting)'
  BY CntMaxAssumption DEF ReadInBounds, BuildsMessage, Counting
<1> QED
  BY <1>1, <1>2, <1>3, <1>4

LEMMA MeasureHumidityStep ==
  ASSUME IInv, MeasureHumidity
  PROVE  IInv'
<1> USE DEF IInv, DeviceTypeOK, MeasureHumidity, set_led
<1>1. MainTypeOK'
  BY DEF MainTypeOK, Readings
<1>2. (RxTypeOK /\ TxTypeOK /\ AddrTypeOK /\ MsgTypeOK /\ HistoryTypeOK)'
  BY DEF RxTypeOK, TxTypeOK, AddrTypeOK, MsgTypeOK, HistoryTypeOK
<1>3. (RxArguments /\ RxKept /\ TxIdle /\ Fresh)'
  BY DEF RxArguments, RxKept, Pending, TxIdle, Fresh
<1>4. (ReadInBounds /\ BuildsMessage /\ Counting)'
  BY CntMaxAssumption DEF ReadInBounds, BuildsMessage, Counting
<1> QED
  BY <1>1, <1>2, <1>3, <1>4

LEMMA StutterStep ==
  ASSUME IInv, UNCHANGED deviceVars
  PROVE  IInv'
BY DEF IInv, DeviceTypeOK, RxTypeOK, TxTypeOK, AddrTypeOK, MsgTypeOK,
       MainTypeOK, HistoryTypeOK, ReadInBounds, RxArguments, RxKept, Pending,
       TxIdle, Fresh, BuildsMessage, Counting

THEOREM StepIInv == IInv /\ [DeviceNext]_deviceVars => IInv'
<1> SUFFICES ASSUME IInv, [DeviceNext]_deviceVars PROVE IInv'
  OBVIOUS
<1>1. CASE MainStep
  BY <1>1, PollRxStep, ProcessRxStep, AbortTransmitStep, ServeSetupStep,
     FreeRxStep, CheckTxStep, BuildTxBlockStep, PublishTxStep,
     ConvertStep, MeasureTemperature2Step, MeasureHumidityStep
     DEF MainStep
<1>2. CASE \E seen \in BOOLEAN : CheckReset(seen)
  BY <1>2, CheckResetStep
<1>3. CASE Packet
  BY <1>3, HandleTokenStep, HandleDataStep, HandleInStep DEF Packet
<1>4. CASE UNCHANGED deviceVars
  BY <1>4, StutterStep
<1> QED
  BY <1>1, <1>2, <1>3, <1>4 DEF DeviceNext

-----------------------------------------------------------------------------
(* Theorems *)

LEMMA IInvAlways == DeviceSpec => []IInv
  BY InitIInv, StepIInv, PTL DEF DeviceSpec

\* Every variable of the firmware stays within its type: in particular the
\* lengths fit their 8-bit variables and a packet its eleven bytes.
THEOREM TypeCorrect == DeviceSpec => []DeviceTypeOK
<1>1. IInv => DeviceTypeOK
  BY DEF IInv
<1> QED
  BY <1>1, IInvAlways, PTL

\* usbDeviceRead copies only bytes that usbFunctionSetup has written.
THEOREM ReadsInBounds == DeviceSpec => []ReadInBounds
<1>1. IInv => ReadInBounds
  BY DEF IInv
<1> QED
  BY <1>1, IInvAlways, PTL

\* An acknowledged SETUP is served as it was received: the interrupt and the
\* main loop never share a half of usbRxBuf.
THEOREM RequestStaysIntact == DeviceSpec => []RequestIntact
<1>1. IInv => RequestIntact
  BY DEF IInv, RxArguments, RxKept, RequestIntact
<1> QED
  BY <1>1, IInvAlways, PTL

\* Whatever the interrupt can send belongs to the last acknowledged SETUP.
THEOREM NeverStale == DeviceSpec => []NoStaleReply
<1>1. IInv => NoStaleReply
  BY DEF IInv, Fresh, Pending, NoStaleReply, CanTransmit
<1> QED
  BY <1>1, IInvAlways, PTL

\* The main loop never writes a transmit buffer the interrupt could send.
THEOREM TransmitExclusive == DeviceSpec => TxBufExclusive
<1>1. ASSUME IInv, [DeviceNext]_deviceVars
      PROVE  [CanTransmit => usbTxBuf' = usbTxBuf]_deviceVars
  <2> SUFFICES ASSUME CanTransmit PROVE usbTxBuf' = usbTxBuf
    OBVIOUS
  <2> USE DEF CanTransmit
  <2>1. ~ProcessRx /\ ~ServeSetup /\ ~usbBuildTxBlock
    BY <1>1 DEF IInv, RxArguments, TxIdle, ProcessRx, ServeSetup,
                usbBuildTxBlock
  <2>2. CASE MainStep
    BY <2>1, <2>2 DEF MainStep, PollRx, AbortTransmit, FreeRx, CheckTx,
         PublishTx, Convert, MeasureTemperature2, MeasureHumidity
  <2>3. CASE \E seen \in BOOLEAN : CheckReset(seen)
    BY <2>3 DEF CheckReset
  <2>4. CASE Packet
    BY <2>4 DEF Packet, HandleToken, HandleData, HandleIn
  <2> QED
    BY <1>1, <2>2, <2>3, <2>4 DEF DeviceNext
<1> QED
  BY <1>1, IInvAlways, PTL DEF DeviceSpec, TxBufExclusive

\* No acknowledged packet is lost between the interrupt and the main loop.
THEOREM NothingIsDropped == DeviceSpec => NothingDropped
<1>1. ASSUME IInv, [DeviceNext]_deviceVars
      PROVE  [usbRxLen # 0 /\ usbRxLen' # usbRxLen =>
                pc = "free" /\ usbRxLen' = 0 /\ rx.len = usbRxLen - 3]_deviceVars
  <2> SUFFICES ASSUME usbRxLen # 0, usbRxLen' # usbRxLen
               PROVE  pc = "free" /\ usbRxLen' = 0 /\ rx.len = usbRxLen - 3
    OBVIOUS
  <2>1. CASE FreeRx
    BY <1>1, <2>1 DEF FreeRx, IInv, RxArguments
  <2>2. CASE MainStep /\ ~FreeRx
    BY <2>2 DEF MainStep, PollRx, ProcessRx, AbortTransmit, ServeSetup,
         CheckTx, usbBuildTxBlock, PublishTx, Convert, MeasureTemperature2,
         MeasureHumidity
  <2>3. CASE \E seen \in BOOLEAN : CheckReset(seen)
    BY <2>3 DEF CheckReset
  <2>4. CASE Packet
    BY <2>4 DEF Packet, HandleToken, HandleData, HandleIn, Accepts,
         DataHandshake
  <2> QED
    BY <1>1, <2>1, <2>2, <2>3, <2>4 DEF DeviceNext
<1> QED
  BY <1>1, IInvAlways, PTL DEF DeviceSpec, NothingDropped

-----------------------------------------------------------------------------
(* What the firmware sends is what it owes: every packet the interrupt could *)
(* send is the right slice of the answer to the last acknowledged SETUP.     *)

\* Between measurements the four fields belong to one measurement.
OneMeasurement ==
  /\ environment.pressure = environment.temperature
  /\ pc # "measureT2" => environment.temperature2 = environment.temperature
  /\ pc \notin {"measureT2", "measureH"} =>
       environment.humidity = environment.temperature

\* usbProcessRx has set the toggle when it serves the request.
ToggleReset == pc \in {"abort", "setup"} => usbTxBuf.pid = "DATA0"

\* Bytes of the answer that have been packed.
Packed == answer.len - usbMsgLen

\* What is left of the message is what is left of the answer.
RestCorrect ==
  "msg" \in current /\ usbMsgLen # USB_NO_MSG =>
    /\ Packed \in Nat
    /\ Packed % 8 = 0
    /\ usbTxBuf.pid = IF Packed % 16 = 0 THEN "DATA0" ELSE "DATA1"
    /\ \A i \in 1 .. WordCount(usbMsgLen) :
         MessageWord(i) = answer.words[Packed \div 4 + i]
    /\ usbMsgPtr.buf \notin {"replyBuf", "rom"} => usbMsgLen <= 2

\* The packet that is built and not yet sent.
BlockCorrect ==
  "tx" \in current /\ (usbTxLen # USBPID_NAK \/ pc = "publish") =>
    /\ BytesBefore \in Nat
    /\ usbTxBuf.words = [i \in 1 .. WordCount(usbTxBuf.len) |->
                           answer.words[BytesBefore \div 4 + i]]
    /\ usbTxBuf.pid = IF BytesBefore % 16 = 0 THEN "DATA1" ELSE "DATA0"

ReplyInv == OneMeasurement /\ ToggleReset /\ RestCorrect /\ BlockCorrect

-----------------------------------------------------------------------------
(* Arithmetic of packets and words *)

LEMMA WordArithmetic ==
  /\ WordCount(0) = 0
  /\ \A n \in 0 .. 2 : WordCount(n) <= 1
  /\ \A m, n \in Nat : m <= n => WordCount(m) <= WordCount(n)
  /\ \A n \in Nat : n >= 8 => WordCount(n) = WordCount(n - 8) + 2
  BY DEF WordCount

LEMMA ToggleArithmetic ==
  ASSUME NEW n \in Nat, n % 8 = 0
  PROVE  (n + 8) % 16 = 0 <=> n % 16 # 0
  OBVIOUS

LEMMA ReplyKinds ==
  ASSUME NEW r \in RequestType
  PROVE  /\ r.name \notin {"getEnv", "getDescriptor"} => ReplyLength(r) \in 0 .. 2
         /\ r.name \notin {"echo", "getVersion", "getStatus", "getEnv",
                         "getConfiguration", "getInterface", "getDescriptor"}
              => ReplyLength(r) = 0
<1>1. r.wLength \in Nat
  BY DEF RequestType
<1>2. /\ r.name \notin {"getEnv", "getDescriptor"} => FullLength(r) \in 0 .. 2
      /\ r.name \notin {"echo", "getVersion", "getStatus", "getEnv",
                      "getConfiguration", "getInterface", "getDescriptor"}
           => FullLength(r) = 0
  BY DEF FullLength
<1>3. \A n \in 0 .. 2 : LimitLength(n, r.wLength) \in 0 .. n
  BY <1>1 DEF LimitLength
<1> QED
  BY <1>2, <1>3 DEF ReplyLength

-----------------------------------------------------------------------------
(* Steps that touch neither message nor packet *)

MessageUnchanged ==
  UNCHANGED <<usbMsgPtr, usbMsgLen, usbConfiguration, replyBuf, usbTxBuf,
              current, answer>>

LEMMA Undisturbed ==
  ASSUME RestCorrect, BlockCorrect, MessageUnchanged,
         usbTxLen' # USBPID_NAK \/ pc' = "publish" =>
           usbTxLen # USBPID_NAK \/ pc = "publish"
  PROVE  RestCorrect' /\ BlockCorrect'
<1> USE DEF MessageUnchanged
<1>1. RestCorrect'
  <2>1. \A i : MessageWord(i)' = MessageWord(i)
    BY DEF MessageWord
  <2> QED
    BY <2>1 DEF RestCorrect, Packed
<1>2. BlockCorrect'
  BY DEF BlockCorrect, BytesBefore
<1> QED
  BY <1>1, <1>2

LEMMA PacketReplyStep ==
  ASSUME IInv, ReplyInv, Packet
  PROVE  ReplyInv'
<1>1. OneMeasurement' /\ ToggleReset'
  BY DEF ReplyInv, OneMeasurement, ToggleReset, Packet, HandleToken, HandleData,
         HandleIn
<1>2. CASE current' = {"rx"}
  BY <1>1, <1>2 DEF ReplyInv, RestCorrect, BlockCorrect
<1>3. CASE current' # {"rx"}
  <2>1. MessageUnchanged /\ pc' = pc
    BY <1>3 DEF Packet, HandleToken, HandleData, HandleIn, MessageUnchanged
  <2>2. usbTxLen' = usbTxLen \/ usbTxLen' = USBPID_NAK
    BY DEF Packet, HandleToken, HandleData, HandleIn
  <2> QED
    BY <1>1, <2>1, <2>2, Undisturbed DEF ReplyInv
<1> QED
  BY <1>2, <1>3

\* All steps of the main loop but the three that handle messages.
LEMMA QuietReplyStep ==
  ASSUME IInv, ReplyInv,
         \/ PollRx \/ AbortTransmit \/ FreeRx \/ CheckTx \/ PublishTx
         \/ \E seen \in BOOLEAN : CheckReset(seen)
         \/ \E s \in Samples : Convert(s)
         \/ MeasureTemperature2 \/ MeasureHumidity
         \/ UNCHANGED deviceVars
  PROVE  ReplyInv'
<1> USE DEF PollRx, AbortTransmit, FreeRx, CheckTx, PublishTx, CheckReset,
            Convert, MeasureTemperature2, MeasureHumidity
<1>1. MessageUnchanged
  BY DEF MessageUnchanged
<1>2. usbTxLen' # USBPID_NAK \/ pc' = "publish" =>
        usbTxLen # USBPID_NAK \/ pc = "publish"
  OBVIOUS
<1>3. ToggleReset'
  BY DEF ReplyInv, ToggleReset
<1>4. OneMeasurement'
  BY DEF ReplyInv, OneMeasurement, IInv, DeviceTypeOK, MainTypeOK
<1> QED
  BY <1>1, <1>2, <1>3, <1>4, Undisturbed DEF ReplyInv

LEMMA ProcessRxReplyStep ==
  ASSUME IInv, ReplyInv, ProcessRx
  PROVE  ReplyInv'
<1>1. OneMeasurement' /\ ToggleReset'
  BY DEF ReplyInv, OneMeasurement, ToggleReset, ProcessRx, IInv, DeviceTypeOK,
         TxTypeOK
<1>2. CASE Pending
  <2>1. current' = {"rx"}
    BY <1>2 DEF IInv, RxKept, ProcessRx
  <2> QED
    BY <1>1, <2>1 DEF ReplyInv, RestCorrect, BlockCorrect
<1>3. CASE ~Pending
  <2>1. MessageUnchanged /\ usbTxLen' = usbTxLen /\ pc' = "free"
    BY <1>3 DEF ProcessRx, MessageUnchanged, Pending, IInv, RxArguments,
                DeviceTypeOK, RxTypeOK
  <2> QED
    BY <1>1, <2>1, Undisturbed DEF ReplyInv
<1> QED
  BY <1>2, <1>3

-----------------------------------------------------------------------------
(* Serving a request starts the answer *)

LEMMA ServeSetupReplyStep ==
  ASSUME IInv, ReplyInv, ServeSetup
  PROVE  ReplyInv'
<1> DEFINE r == usbRxBuf[rx.half]
           n == ReplyLength(r)
           s == environment.temperature
<1>1. r = acked /\ r \in RequestType /\ r.value \in 0 .. 255
  <2>1. r = acked /\ r \in Payloads
    BY DEF IInv, DeviceTypeOK, RxArguments, RxKept, RxTypeOK, MainTypeOK,
           ServeSetup
  <2> QED
    BY <2>1, PayloadType DEF RequestType
<1>2. /\ n \in 0 .. 28 /\ (r.name # "getDescriptor" => n <= 16)
      /\ (r.name = "getDescriptor" /\ r.value \notin 1 .. 5 => n = 0)
      /\ (r.name \notin {"getEnv", "getDescriptor"} => n \in 0 .. 2)
      /\ (r.name \notin {"echo", "getVersion", "getStatus", "getEnv",
                       "getConfiguration", "getInterface", "getDescriptor"}
            => n = 0)
  BY <1>1, ReplyLengthBound, ReplyKinds
<1>3. WordCount(n) \in Nat /\ (n <= 16 => WordCount(n) <= 4)
      /\ (n <= 2 => WordCount(n) <= 1) /\ (n = 0 => WordCount(n) = 0)
  BY <1>2, WordCounts, WordArithmetic
<1>4. /\ answer' = Reply(r, s, usbConfiguration)
      /\ usbMsgLen' = n
      /\ current' = {"rx", "msg"}
      /\ UNCHANGED <<usbTxLen, environment>> /\ pc' = "free"
      /\ IF r.name \in VendorNames THEN usbFunctionSetup(r)
                                   ELSE usbDriverSetup(r)
  BY <1>1 DEF ServeSetup, IInv, RxKept, RxArguments, Pending
<1>5. /\ answer'.len = n
      /\ \A i \in 1 .. WordCount(n) :
            answer'.words[i] = ReplyWord(r, s, usbConfiguration, i)
  BY <1>4 DEF Reply
<1>6. Packed' = 0
  BY <1>2, <1>4, <1>5 DEF Packed
<1>7. usbTxBuf'.pid = "DATA0"
  BY <1>4 DEF ReplyInv, ToggleReset, ServeSetup, usbFunctionSetup,
              usbDriverSetup, IInv, DeviceTypeOK, TxTypeOK
<1>8. usbMsgPtr'.buf \notin {"replyBuf", "rom"} => usbMsgLen' <= 2
  BY <1>2, <1>4 DEF usbFunctionSetup, usbDriverSetup, VendorNames
<1>9. ASSUME NEW i \in 1 .. WordCount(n)
      PROVE  MessageWord(i)' = ReplyWord(r, s, usbConfiguration, i)
  <2>1. i \in Nat /\ (n <= 16 => i \in 1 .. 4) /\ (n <= 2 => i = 1) /\ n # 0
    BY <1>3
  <2> HIDE DEF r, n
  <2>2. CASE r.name \in VendorNames
    <3>1. MessageWord(i)' = replyBuf'[i]
      BY <1>4, <2>1, <2>2 DEF usbFunctionSetup, MessageWord
    <3>2. CASE r.name = "getEnv"
      <4>1. i \in 1 .. 4
        BY <1>2, <2>1, <3>2
      <4>2. replyBuf'[i] = SamplePart(i)
        BY <1>4, <2>2, <3>2, <4>1 DEF usbFunctionSetup
      <4>3. environment[EnvFields[i]] = s
        BY <4>1 DEF EnvFields, ReplyInv, OneMeasurement, ServeSetup
      <4> QED
        BY <3>1, <3>2, <4>2, <4>3 DEF SamplePart, ReplyWord
    <3>3. CASE r.name \in {"echo", "getVersion"}
      <4>1. i = 1
        BY <1>2, <2>1, <3>3
      <4> QED
        BY <1>4, <2>2, <3>1, <3>3, <4>1
           DEF usbFunctionSetup, ReplyWord, IInv, DeviceTypeOK, MsgTypeOK
    <3> QED
      BY <1>2, <2>1, <2>2, <3>2, <3>3 DEF VendorNames
  <2>3. CASE r.name \notin VendorNames
    <3>1. usbDriverSetup(r)
      BY <1>4, <2>3
    <3>2. CASE r.name = "getDescriptor"
      <4>1. r.value \in 1 .. 5
        BY <1>2, <2>1, <3>2
      <4>2. usbMsgPtr' = [buf |-> "rom", off |-> 128 * r.value]
        BY <3>1, <3>2, <4>1 DEF usbDriverSetup
      <4>3. (128 * r.value) \div 4 = 32 * r.value
        BY <4>1
      <4> QED
        BY <3>2, <4>2, <4>3 DEF MessageWord, ReplyWord
    <3>3. CASE r.name = "getConfiguration"
      BY <3>1, <3>3 DEF usbDriverSetup, MessageWord, ReplyWord
    <3>4. CASE r.name \in {"getStatus", "getInterface"}
      BY <3>1, <3>4 DEF usbDriverSetup, MessageWord, ReplyWord, IInv,
                        DeviceTypeOK, TxTypeOK
    <3> QED
      BY <1>2, <2>1, <2>3, <3>2, <3>3, <3>4 DEF VendorNames
  <2> QED
    BY <2>2, <2>3
<1>10. RestCorrect'
  <2>1. \A i \in 1 .. WordCount(n) :
          MessageWord(i)' = answer'.words[0 \div 4 + i]
    BY <1>3, <1>5, <1>9
  <2> HIDE DEF r, n
  <2> QED
    BY <1>4, <1>6, <1>7, <1>8, <2>1 DEF RestCorrect
<1>11. BlockCorrect'
  BY <1>4 DEF BlockCorrect
<1>12. OneMeasurement' /\ ToggleReset'
  BY <1>4 DEF ReplyInv, OneMeasurement, ToggleReset, ServeSetup
<1> QED
  BY <1>10, <1>11, <1>12 DEF ReplyInv

-----------------------------------------------------------------------------
(* Packing takes the next slice of the answer *)

LEMMA BuildTxBlockReplyStep ==
  ASSUME IInv, ReplyInv, usbBuildTxBlock
  PROVE  ReplyInv'
<1> DEFINE n == usbMsgLen
           w == IF n > 8 THEN 8 ELSE n
           p == Packed
<1>1. n \in 0 .. 254 /\ w \in 0 .. 8 /\ w <= n
  <2>1. n # USB_NO_MSG /\ n \in MsgLen \cup {USB_NO_MSG}
    BY DEF IInv, DeviceTypeOK, BuildsMessage, MsgTypeOK, usbBuildTxBlock
  <2> QED
    BY <2>1
<1>2. /\ usbTxBuf'.pid = Toggle(usbTxBuf.pid)
      /\ usbTxBuf'.len = w
      /\ usbTxBuf'.words = [i \in 1 .. WordCount(w) |-> MessageWord(i)]
      /\ usbMsgPtr' = [usbMsgPtr EXCEPT !.off = @ + w]
      /\ usbMsgLen' = IF w < 8 THEN USB_NO_MSG ELSE n - w
      /\ current' = IF "msg" \in current THEN current \cup {"tx"}
                    ELSE current \ {"tx"}
      /\ UNCHANGED <<replyBuf, usbConfiguration, answer, environment>>
      /\ pc' = "publish"
  BY DEF usbBuildTxBlock
<1>3. OneMeasurement' /\ ToggleReset'
  BY <1>2 DEF ReplyInv, OneMeasurement, ToggleReset, usbBuildTxBlock
<1>4. CASE "msg" \notin current
  BY <1>2, <1>3, <1>4 DEF ReplyInv, RestCorrect, BlockCorrect
<1>5. CASE "msg" \in current
  <2>1. /\ p \in Nat /\ p % 8 = 0
        /\ usbTxBuf.pid = IF p % 16 = 0 THEN "DATA0" ELSE "DATA1"
        /\ \A i \in 1 .. WordCount(n) :
             MessageWord(i) = answer.words[p \div 4 + i]
        /\ usbMsgPtr.buf \notin {"replyBuf", "rom"} => n <= 2
    BY <1>1, <1>5 DEF ReplyInv, RestCorrect
  <2>2. answer.len \in Nat /\ answer' = answer /\ p = answer.len - usbMsgLen
    <3>1. answer \in [len : MsgLen, words : Seq(Words)]
      BY DEF IInv, DeviceTypeOK, HistoryTypeOK
    <3>2. answer.len \in Nat
      <4> HIDE DEF n, w, p
      <4>1. answer.len \in 0 .. 254
        BY <3>1
      <4> QED
        BY <4>1
    <3>3. p = answer.len - usbMsgLen
      BY DEF Packed
    <3> QED
      BY <1>2, <3>2, <3>3
  <2>3. /\ usbTxBuf' \in [pid : {"none", "DATA0", "DATA1"}, len : 0 .. 8,
                          words : Seq(Words), tail : {"zero", "status", "crc"}]
        /\ usbMsgPtr \in [buf : {"null", "replyBuf", "rom", "usbConfiguration",
                                 "txTail"}, off : Nat]
    BY BuildTxBlockStep DEF IInv, DeviceTypeOK, TxTypeOK, MsgTypeOK
  <2>4. WordCount(w) \in Nat /\ WordCount(n) \in Nat
        /\ WordCount(w) <= WordCount(n)
        /\ (n >= 8 => n - 8 \in Nat /\ WordCount(n - 8) \in Nat
                       /\ WordCount(n) = WordCount(n - 8) + 2)
    BY <1>1, WordCounts, WordArithmetic
  <2>5. usbTxBuf'.pid = IF p % 16 = 0 THEN "DATA1" ELSE "DATA0"
    BY <1>2, <2>1 DEF Toggle
  <2>6. BytesBefore' = p
    <3>1. BytesBefore' = answer.len - w
                           - (IF usbMsgLen' = USB_NO_MSG THEN 0 ELSE usbMsgLen')
      BY <1>2, <2>2 DEF BytesBefore
    <3> HIDE DEF p
    <3>2. CASE w < 8
      BY <1>1, <1>2, <2>2, <3>1, <3>2
    <3>3. CASE w = 8
      <4> HIDE DEF w
      <4>1. usbMsgLen' = n - 8
        BY <1>2, <3>3
      <4>2. n - 8 # USB_NO_MSG
        BY <1>1
      <4> QED
        BY <1>1, <2>2, <3>1, <3>3, <4>1, <4>2
    <3> QED
      BY <1>1, <3>2, <3>3
  <2>7. BlockCorrect'
    <3>1. usbTxBuf'.words = [i \in 1 .. WordCount(w) |->
                               answer'.words[p \div 4 + i]]
      BY <1>2, <2>1, <2>4
    <3> HIDE DEF n, w, p
    <3> QED
      BY <1>2, <2>1, <2>5, <2>6, <3>1 DEF BlockCorrect
  <2>8. ASSUME usbMsgLen' # USB_NO_MSG
        PROVE  /\ Packed' = p + 8 /\ n >= 8 /\ usbMsgLen' = n - 8
               /\ usbMsgPtr.buf \in {"replyBuf", "rom"}
               /\ usbMsgPtr' = [usbMsgPtr EXCEPT !.off = @ + 8]
    <3>1. w = 8 /\ usbMsgLen' = n - 8 /\ n >= 8
      BY <1>1, <1>2, <2>8
    <3>2. Packed' = answer.len - (n - 8)
      BY <2>2, <3>1 DEF Packed
    <3>3. usbMsgPtr.buf \in {"replyBuf", "rom"}
      BY <1>1, <2>1, <3>1
    <3> HIDE DEF p
    <3>4. Packed' = p + 8
      BY <1>1, <2>2, <3>2
    <3> QED
      BY <1>2, <3>1, <3>3, <3>4
  <2>9. ASSUME usbMsgLen' # USB_NO_MSG, NEW i \in 1 .. WordCount(n - 8)
        PROVE  MessageWord(i)' = answer'.words[(p + 8) \div 4 + i]
    <3>1. i + 2 \in 1 .. WordCount(n) /\ i \in Nat
      BY <2>4, <2>8, <2>9
    <3>2. usbMsgPtr.off \in Nat /\ usbMsgPtr'.off = usbMsgPtr.off + 8
          /\ usbMsgPtr'.buf = usbMsgPtr.buf
      BY <2>3, <2>8, <2>9
    <3>3. usbMsgPtr'.off \div 4 + i = usbMsgPtr.off \div 4 + (i + 2)
      BY <3>1, <3>2
    <3>4. MessageWord(i)' = MessageWord(i + 2)
      BY <1>2, <2>8, <2>9, <3>2, <3>3 DEF MessageWord
    <3>5. (p + 8) \div 4 + i = p \div 4 + (i + 2)
      BY <2>1, <3>1, PacketOffsets
    <3> QED
      BY <1>2, <2>1, <3>1, <3>4, <3>5
  <2>10. RestCorrect'
    <3> SUFFICES ASSUME usbMsgLen' # USB_NO_MSG
                 PROVE  /\ Packed' \in Nat
                        /\ Packed' % 8 = 0
                        /\ usbTxBuf'.pid = IF Packed' % 16 = 0 THEN "DATA0"
                                           ELSE "DATA1"
                        /\ \A i \in 1 .. WordCount(usbMsgLen') :
                             MessageWord(i)' = answer'.words[Packed' \div 4 + i]
                        /\ usbMsgPtr'.buf \in {"replyBuf", "rom"}
      BY DEF RestCorrect
    <3>1. Packed' = p + 8 /\ p + 8 \in Nat
      BY <2>1, <2>8
    <3>2. (p + 8) % 8 = 0 /\ ((p + 8) % 16 = 0 <=> p % 16 # 0)
      BY <2>1, PacketOffsets, ToggleArithmetic
    <3>3. usbMsgPtr'.buf \in {"replyBuf", "rom"}
      BY <2>3, <2>8
    <3>4. \A i \in 1 .. WordCount(usbMsgLen') :
             MessageWord(i)' = answer'.words[Packed' \div 4 + i]
      BY <2>8, <2>9, <3>1
    <3> QED
      BY <2>5, <3>1, <3>2, <3>3, <3>4
  <2> QED
    BY <1>3, <2>7, <2>10 DEF ReplyInv
<1> QED
  BY <1>4, <1>5

-----------------------------------------------------------------------------

LEMMA InitReplyInv == DeviceInit => ReplyInv
  BY DEF DeviceInit, ReplyInv, OneMeasurement, Uniform, ToggleReset,
         RestCorrect, BlockCorrect

LEMMA StepReplyInv == IInv /\ ReplyInv /\ [DeviceNext]_deviceVars => ReplyInv'
<1> SUFFICES ASSUME IInv, ReplyInv, [DeviceNext]_deviceVars PROVE ReplyInv'
  OBVIOUS
<1>1. CASE Packet
  BY <1>1, PacketReplyStep
<1>2. CASE MainStep
  BY <1>2, ProcessRxReplyStep, ServeSetupReplyStep, BuildTxBlockReplyStep,
     QuietReplyStep DEF MainStep
<1>3. CASE \E seen \in BOOLEAN : CheckReset(seen)
  BY <1>3, QuietReplyStep
<1>4. CASE UNCHANGED deviceVars
  BY <1>4, QuietReplyStep
<1> QED
  BY <1>1, <1>2, <1>3, <1>4 DEF DeviceNext

\* Every packet the interrupt could send is the next slice of the answer to
\* the last acknowledged SETUP, with the right toggle; an answer to getEnv
\* never mixes two measurements.  This is usbBuildTxBlock, usbDeviceRead,
\* usbFunctionSetup and usbDriverSetup against the measuring main loop.
THEOREM RepliesCorrect == DeviceSpec => []ReplyCorrect
<1>1. IInv /\ ReplyInv => ReplyCorrect
  BY DEF IInv, Fresh, Pending, ReplyInv, BlockCorrect, ReplyCorrect, CanTransmit
<1>2. DeviceSpec => []ReplyInv
  BY InitReplyInv, StepReplyInv, IInvAlways, PTL DEF DeviceSpec
<1> QED
  BY <1>1, <1>2, IInvAlways, PTL
-----------------------------------------------------------------------------
(* Part 2: the device on a bus *)

\* The host names only addresses and requests it was given.
HostInv ==
  hostAddr \in Addresses /\ request \in Payloads /\ se0 \in BOOLEAN

LEMMA InitHost == BusInit => HostInv
BY HostAssumption DEF BusInit, HostInv, Payloads

LEMMA HostStepKeepsHost == HostInv /\ HostStep => HostInv'
<1> SUFFICES ASSUME HostInv, HostStep PROVE HostInv'
  OBVIOUS
<1> USE DEF HostInv, transferVars, resetVars, hostVars
<1>1. CASE SendSetup
  BY <1>1 DEF SendSetup
<1>2. CASE SendSetupData
  BY <1>2 DEF SendSetupData
<1>3. CASE SendIn
  BY <1>3 DEF SendIn
<1>4. CASE SendAck
  BY <1>4 DEF SendAck
<1>5. CASE SendStatusOut
  BY <1>5 DEF SendStatusOut
<1>6. CASE SendStatusOutData
  BY <1>6 DEF SendStatusOutData
<1>7. CASE Finish
  <2>1. request' = NoRequest /\ UNCHANGED se0
    BY <1>7 DEF Finish, ForgetTransfer
  <2>2. hostAddr' \in Addresses
    BY <1>7, HostAssumption DEF Finish, Payloads, NoRequest
  <2> QED
    BY <2>1, <2>2 DEF Payloads
<1> QED
  BY <1>1, <1>2, <1>3, <1>4, <1>5, <1>6, <1>7 DEF HostStep

LEMMA FaultKeepsHost == HostInv /\ Fault => HostInv'
<1> SUFFICES ASSUME HostInv, Fault PROVE HostInv'
  OBVIOUS
<1> USE DEF HostInv, transferVars, resetVars, hostVars
<1>1. CASE Abort
  BY <1>1 DEF Abort, ForgetTransfer, Payloads
<1>2. CASE BeginReset
  BY <1>2, HostAssumption DEF BeginReset, ForgetTransfer, Payloads
<1>3. CASE EndReset
  BY <1>3 DEF EndReset
<1>4. CASE ForeignTraffic
  BY <1>4 DEF ForeignTraffic
<1>5. CASE LoseToken \/ LoseDataOut \/ LoseHandshake \/ LoseDataIn \/ LoseAck
  BY <1>5 DEF LoseToken, LoseDataOut, LoseHandshake, LoseDataIn, LoseAck
<1> QED
  BY <1>1, <1>2, <1>3, <1>4, <1>5 DEF Fault

LEMMA StepHost == HostInv /\ [BusNext]_busVars => HostInv'
<1> SUFFICES ASSUME HostInv, [BusNext]_busVars PROVE HostInv'
  OBVIOUS
<1>1. CASE DeviceStep
  BY <1>1 DEF DeviceStep, HostInv, hostVars, transferVars, resetVars
<1>2. ASSUME NEW r \in Requests, Ask(r) PROVE HostInv'
  BY <1>2 DEF Ask, HostInv, resetVars, Payloads
<1>3. CASE UNCHANGED busVars
  BY <1>3 DEF busVars, HostInv, hostVars, transferVars, resetVars
<1> QED
  BY <1>1, <1>2, <1>3, HostStepKeepsHost, FaultKeepsHost DEF BusNext

-----------------------------------------------------------------------------
(* Every step of the composition is a step of the device or leaves it alone *)

\* What a host sends is a packet of UsbDevice's environment.
LEMMA PacketStep ==
  /\ \A pid \in {"SETUP", "OUT", "IN", "handshake"}, addr \in Addresses :
       HandleToken(pid, addr) => DeviceNext
  /\ \A payload \in Payloads, n \in PacketSizes :
       HandleData(payload, n) => DeviceNext
  /\ \A addr \in Addresses : HandleIn(addr) => DeviceNext
BY DEF DeviceNext, Packet

LEMMA HostStepIsDeviceStep ==
  HostInv /\ HostStep => DeviceNext \/ UNCHANGED deviceVars
<1> SUFFICES ASSUME HostInv, HostStep
             PROVE DeviceNext \/ UNCHANGED deviceVars
  OBVIOUS
<1> USE DEF HostInv
<1>0. 3 \in PacketSizes /\ 11 \in PacketSizes /\ NoRequest \in Payloads
  BY DEF PacketSizes, Payloads
<1>1. CASE SendSetup
  BY <1>1, PacketStep DEF SendSetup
<1>2. CASE SendSetupData
  BY <1>0, <1>2, PacketStep DEF SendSetupData
<1>3. CASE SendIn
  BY <1>3, PacketStep DEF SendIn
<1>4. CASE SendAck
  BY <1>4, PacketStep DEF SendAck
<1>5. CASE SendStatusOut
  BY <1>5, PacketStep DEF SendStatusOut
<1>6. CASE SendStatusOutData
  BY <1>0, <1>6, PacketStep DEF SendStatusOutData
<1>7. CASE Finish
  BY <1>7 DEF Finish
<1> QED
  BY <1>1, <1>2, <1>3, <1>4, <1>5, <1>6, <1>7 DEF HostStep

LEMMA FaultIsDeviceStep ==
  HostInv /\ Fault => DeviceNext \/ UNCHANGED deviceVars
<1> SUFFICES ASSUME HostInv, Fault PROVE DeviceNext \/ UNCHANGED deviceVars
  OBVIOUS
<1> USE DEF HostInv
<1>0. 3 \in PacketSizes /\ 11 \in PacketSizes /\ NoRequest \in Payloads
  BY DEF PacketSizes, Payloads
<1>1. CASE Abort \/ BeginReset \/ EndReset \/ LoseToken \/ LoseDataOut
           \/ LoseAck
  BY <1>1 DEF Abort, BeginReset, EndReset, LoseToken, LoseDataOut, LoseAck
<1>2. CASE ForeignTraffic
  BY <1>2, PacketStep DEF ForeignTraffic
<1>3. CASE LoseHandshake
  BY <1>0, <1>3, PacketStep DEF LoseHandshake
<1>4. CASE LoseDataIn
  BY <1>4, PacketStep DEF LoseDataIn
<1> QED
  BY <1>1, <1>2, <1>3, <1>4 DEF Fault

LEMMA StepDevice ==
  HostInv /\ [BusNext]_busVars => [DeviceNext]_deviceVars
<1> SUFFICES ASSUME HostInv, [BusNext]_busVars
             PROVE DeviceNext \/ UNCHANGED deviceVars
  OBVIOUS
<1>1. CASE DeviceStep
  BY <1>1 DEF DeviceStep, DeviceNext, HostInv
<1>2. ASSUME NEW r \in Requests, Ask(r) PROVE UNCHANGED deviceVars
  BY <1>2 DEF Ask
<1>3. CASE UNCHANGED busVars
  BY <1>3 DEF busVars
<1> QED
  BY <1>1, <1>2, <1>3, HostStepIsDeviceStep, FaultIsDeviceStep DEF BusNext

\* The composition implements the device's specification: whatever the host
\* and the bus do, losses and resets included, was among the packets and line
\* states UsbDevice allows.
THEOREM BusImplementsDevice == BusSpec => DeviceSpec
<1>1. BusInit => DeviceInit
  BY DEF BusInit
<1> QED
  BY <1>1, InitHost, StepHost, StepDevice, PTL DEF BusSpec, DeviceSpec

\* On any bus: what the interrupt could send is the right slice of the answer
\* to the last request it acknowledged.
THEOREM RepliesCorrectOnBus == BusSpec => [](NoStaleReply /\ ReplyCorrect)
BY BusImplementsDevice, NeverStale, RepliesCorrect, PTL

\* On any bus: an acknowledged request is served unchanged and none is lost.
THEOREM RequestsKeptOnBus == BusSpec => []RequestIntact /\ NothingDropped
BY BusImplementsDevice, RequestStaysIntact, NothingIsDropped, PTL

-----------------------------------------------------------------------------
(* On a bus that loses nothing *)

\* The host has the acknowledgement of its SETUP; it has data of the answer.
Acknowledged == {"dataIn", "statusIn", "ackMore", "ackLast", "statusOut",
                 "statusOutData", "done"}
DataReceived == {"ackMore", "ackLast", "statusOut", "statusOutData", "done"}

Lossless == lost = 0

\* A SETUP token is on its way only to the address the host uses, and what
\* the device acknowledged last is what the host asked.
TokenOK == phase = "setupData" => usbCurrentTok \in {"SETUP", "none"}
AckedOK == phase \in Acknowledged => acked = request

\* A device that has noticed a reset has the address 0 and nothing to do.
ResetOK ==
  /\ se0 <=> phase = "resetting"
  /\ se0 => request = NoRequest
  /\ se0 => hostAddr = 0
  /\ resetSeen => se0 /\ usbRxLen = 0
                  /\ usbDeviceAddr = 0 /\ usbNewDeviceAddr = 0
  /\ phase = "mustReset" => request.name = "setAddress"

\* An address to be assigned that usbPoll has not seen yet.
Assigning == Pending /\ acked.name = "setAddress"

SameAddress == usbDeviceAddr = hostAddr /\ usbNewDeviceAddr = hostAddr

\* The device takes a new address when it is served the request, puts it into
\* force with the packet of the status stage, and at no other time.
AddressOK ==
  ~missed /\ ~se0 /\ phase # "mustReset" =>
    /\ phase \notin Acknowledged \/ request.name # "setAddress" =>
         SameAddress /\ ~Assigning
    /\ phase \in Acknowledged /\ request.name = "setAddress" =>
         /\ ~Pending => usbNewDeviceAddr = request.value
         /\ phase \in DataReceived =>
              ~Pending /\ usbDeviceAddr = request.value

\* What the host received was built from a message of its own request.
ServedOK ==
  /\ "tx" \in current => "msg" \in current
  /\ phase \in DataReceived => "msg" \in current

HostIInv ==
  /\ Lossless /\ TokenOK /\ AckedOK /\ ResetOK /\ AddressOK
  /\ ServedOK

\* Where nothing is given up, the receive buffer is free whenever a SETUP may
\* come.
BufferFree ==
  /\ phase \in DataReceived \cup {"idle", "setup", "setupData"} =>
       usbRxLen = 0
  /\ phase = "setupData" => usbCurrentTok = "SETUP"
  /\ phase # "mustReset" /\ phase # "resetting" /\ ~missed

USE DEF rxVars, txVars, addrVars, msgVars, envVars, history, deviceVars,
        transferVars, resetVars, hostVars, Goto, Turn

-----------------------------------------------------------------------------
(* What a step of the main loop means to the host *)

\* Either it serves the SETUP that was pending, or it leaves the addresses
\* alone; it never makes a SETUP pending.
MainEffect ==
  /\ UNCHANGED <<usbCurrentTok, acked, usbDeviceAddr>>
  /\ usbRxLen' \in {usbRxLen, 0}
  /\ \/ /\ Pending /\ ~Pending'
        /\ usbNewDeviceAddr' = IF acked.name = "setAddress" THEN acked.value
                               ELSE usbNewDeviceAddr
     \/ /\ Pending' <=> Pending
        /\ usbNewDeviceAddr' = usbNewDeviceAddr
  /\ ("tx" \in current => "msg" \in current) =>
       ("tx" \in current' => "msg" \in current')
  /\ "msg" \in current => "msg" \in current'

LEMMA ServeEffect ==
  ASSUME IInv, ServeSetup
  PROVE  MainEffect
<1>1. /\ pc = "setup" /\ pc' = "free" /\ UNCHANGED <<usbRxBuf, usbRxLen,
            usbRxToken, usbCurrentTok, usbInputBufOffset, acked, usbDeviceAddr>>
      /\ current' = IF "rx" \in current THEN {"rx", "msg"} ELSE {}
  BY DEF ServeSetup
<1>2. usbRxLen = 11 /\ usbRxToken = "SETUP" /\ usbRxBuf[rx.half] = acked
  BY <1>1 DEF IInv, RxArguments, RxKept
<1>3. Pending /\ ~Pending' /\ current = {"rx"}
  BY <1>1, <1>2 DEF IInv, RxKept, Pending
<1>4. usbNewDeviceAddr' = IF acked.name = "setAddress" THEN acked.value
                          ELSE usbNewDeviceAddr
  <2>1. "setAddress" \notin VendorNames
    BY DEF VendorNames
  <2>2. IF acked.name \in VendorNames THEN usbFunctionSetup(acked)
                                      ELSE usbDriverSetup(acked)
    BY <1>2 DEF ServeSetup
  <2>3. CASE acked.name \in VendorNames
    BY <2>1, <2>2, <2>3 DEF usbFunctionSetup
  <2>4. CASE acked.name \notin VendorNames
    BY <2>2, <2>4 DEF usbDriverSetup
  <2> QED
    BY <2>3, <2>4
<1> QED
  BY <1>1, <1>3, <1>4 DEF MainEffect

LEMMA MainStepEffect ==
  ASSUME IInv, MainStep
  PROVE  MainEffect
<1>1. CASE PollRx
  BY <1>1 DEF PollRx, MainEffect, Pending
<1>2. CASE ProcessRx
  <2>1. Pending => rx.len = 8
    BY <1>2 DEF ProcessRx, IInv, RxArguments, Pending
  <2> QED
    BY <1>2, <2>1 DEF ProcessRx, MainEffect, Pending
<1>3. CASE AbortTransmit
  BY <1>3 DEF AbortTransmit, MainEffect, Pending
<1>4. CASE ServeSetup
  BY <1>4, ServeEffect
<1>5. CASE FreeRx
  BY <1>5 DEF FreeRx, MainEffect, Pending
<1>6. CASE CheckTx
  BY <1>6 DEF CheckTx, MainEffect, Pending
<1>7. CASE usbBuildTxBlock
  BY <1>7 DEF usbBuildTxBlock, MainEffect, Pending
<1>8. CASE PublishTx
  BY <1>8 DEF PublishTx, MainEffect, Pending
<1>9. ASSUME NEW s \in Samples, Convert(s) PROVE MainEffect
  BY <1>9 DEF Convert, MainEffect, Pending
<1>10. CASE MeasureTemperature2
  BY <1>10 DEF MeasureTemperature2, MainEffect, Pending
<1>11. CASE MeasureHumidity
  BY <1>11 DEF MeasureHumidity, MainEffect, Pending
<1> QED
  BY <1>1, <1>2, <1>3, <1>4, <1>5, <1>6, <1>7, <1>8, <1>9, <1>10, <1>11
     DEF MainStep

LEMMA MainStepHost ==
  ASSUME IInv, HostInv, HostIInv, MainStep, UNCHANGED hostVars
  PROVE  HostIInv'
<1>1. MainEffect
  BY MainStepEffect
<1>2. Lossless' /\ TokenOK' /\ AckedOK'
  BY <1>1 DEF MainEffect, HostIInv, Lossless, TokenOK, AckedOK
<1>3. ResetOK'
  <2>1. resetSeen => ~Pending
    BY DEF HostIInv, ResetOK, Pending
  <2> QED
    BY <1>1, <2>1 DEF MainEffect, HostIInv, ResetOK
<1>4. AddressOK'
  <2>1. CASE phase \notin Acknowledged \/ request.name # "setAddress"
    BY <1>1, <2>1
       DEF MainEffect, HostIInv, AddressOK, SameAddress, Assigning
  <2>2. CASE phase \in Acknowledged /\ request.name = "setAddress"
    <3>1. acked = request
      BY <2>2 DEF HostIInv, AckedOK
    <3> QED
      BY <1>1, <2>2, <3>1
         DEF MainEffect, HostIInv, AddressOK, SameAddress, Assigning
  <2> QED
    BY <2>1, <2>2
<1>5. ServedOK'
  BY <1>1 DEF MainEffect, HostIInv, ServedOK
<1> QED
  BY <1>2, <1>3, <1>4, <1>5 DEF HostIInv

LEMMA CheckResetHost ==
  ASSUME IInv, HostInv, HostIInv, CheckReset(se0),
         resetSeen' = (resetSeen \/ (se0 /\ usbRxLen = 0)),
         UNCHANGED <<phase, request, toggle, got, gotLen, hostAddr, se0,
                     missed, lost>>
  PROVE  HostIInv'
<1>1. /\ UNCHANGED <<usbCurrentTok, acked, usbRxLen, usbRxToken, current>>
      /\ IF se0 THEN usbNewDeviceAddr' = 0 /\ usbDeviceAddr' = 0
                ELSE UNCHANGED <<usbDeviceAddr, usbNewDeviceAddr>>
      /\ pc = "reset" /\ pc' # "free"
  BY DEF CheckReset
<1>2. Pending' <=> Pending
  BY <1>1 DEF Pending
<1>3. Lossless' /\ TokenOK' /\ AckedOK'
  BY <1>1 DEF HostIInv, Lossless, TokenOK, AckedOK
<1>4. ResetOK'
  BY <1>1 DEF HostIInv, ResetOK
<1>5. AddressOK'
  BY <1>1, <1>2 DEF HostIInv, AddressOK, SameAddress, Assigning
<1>6. ServedOK'
  BY <1>1 DEF HostIInv, ServedOK
<1> QED
  BY <1>3, <1>4, <1>5, <1>6 DEF HostIInv

-----------------------------------------------------------------------------
(* What a packet means to the device *)

LEMMA TokenEffect ==
  ASSUME NEW pid, NEW addr, HandleToken(pid, addr)
  PROVE  /\ UNCHANGED <<usbRxLen, usbRxToken, pc, acked, current, usbDeviceAddr,
                        usbNewDeviceAddr, usbTxLen, usbTxBuf, usbMsgLen, answer>>
         /\ Pending' <=> Pending
         /\ usbCurrentTok' = IF addr = usbDeviceAddr /\ pid \in {"SETUP", "OUT"}
                             THEN pid ELSE "none"
  BY DEF HandleToken, Pending

LEMMA EmptyDataEffect ==
  ASSUME HandleData(NoRequest, 3)
  PROVE  /\ UNCHANGED <<usbRxLen, usbRxToken, pc, acked, current, usbDeviceAddr,
                        usbNewDeviceAddr, usbTxLen, usbTxBuf, usbMsgLen, answer,
                        usbCurrentTok>>
         /\ Pending' <=> Pending
<1>1. ~Accepts(3)
  BY DEF Accepts
<1> QED
  BY <1>1 DEF HandleData, Pending

LEMMA SetupDataEffect ==
  ASSUME IInv, usbCurrentTok \in {"SETUP", "none"}, HandleData(request, 11)
  PROVE  /\ UNCHANGED <<usbCurrentTok, pc, usbDeviceAddr, usbNewDeviceAddr,
                        usbTxLen, usbTxBuf, usbMsgLen, answer>>
         /\ IF DataHandshake(11) = "ACK"
            THEN /\ acked' = request /\ current' = {"rx"} /\ Pending'
                 /\ ~Pending /\ usbRxLen = 0 /\ usbCurrentTok = "SETUP"
            ELSE /\ UNCHANGED <<usbRxLen, usbRxToken, acked, current>>
                 /\ Pending' <=> Pending
<1>1. UNCHANGED <<usbCurrentTok, pc, usbDeviceAddr, usbNewDeviceAddr, usbTxLen,
                  usbTxBuf, usbMsgLen, answer>>
  BY DEF HandleData
<1>2. CASE DataHandshake(11) = "ACK"
  <2>1. Accepts(11) /\ usbRxLen = 0 /\ usbCurrentTok = "SETUP"
    BY <1>2 DEF Accepts, DataHandshake
  <2>2. usbRxLen' = 11 /\ usbRxToken' = "SETUP" /\ acked' = request
        /\ current' = {"rx"}
    BY <2>1 DEF HandleData
  <2>3. pc # "free"
    BY <2>1 DEF IInv, RxArguments
  <2> QED
    BY <1>1, <1>2, <2>1, <2>2, <2>3 DEF Pending
<1>3. CASE DataHandshake(11) # "ACK"
  <2>1. ~Accepts(11)
    BY <1>3 DEF Accepts
  <2> QED
    BY <1>1, <1>3, <2>1 DEF HandleData, Pending
<1> QED
  BY <1>2, <1>3

LEMMA InEffect ==
  ASSUME IInv, HandleIn(hostAddr)
  PROVE  /\ UNCHANGED <<usbRxLen, usbRxToken, pc, acked, current, usbCurrentTok,
                        usbNewDeviceAddr, usbTxBuf, usbMsgLen, answer>>
         /\ Pending' <=> Pending
         /\ hostAddr = usbDeviceAddr
         /\ IF InHandshake = "DATA"
            THEN /\ usbDeviceAddr' = usbNewDeviceAddr % 128
                 /\ usbTxLen' = USBPID_NAK /\ CanTransmit /\ usbRxLen = 0
                 /\ ~Pending
            ELSE UNCHANGED <<usbDeviceAddr, usbTxLen>>
<1>1. InHandshake = "DATA" => usbRxLen = 0 /\ usbTxLen # USBPID_NAK
  BY DEF InHandshake, IInv, DeviceTypeOK, RxTypeOK
<1> QED
  BY <1>1 DEF HandleIn, Pending, CanTransmit

-----------------------------------------------------------------------------
(* The host's steps *)

LEMMA AskHost ==
  ASSUME HostInv, HostIInv, NEW r \in Requests, Ask(r)
  PROVE  HostIInv'
  BY DEF Ask, HostIInv, Lossless, TokenOK, AckedOK, ResetOK,
         AddressOK, SameAddress, Assigning, ServedOK, Acknowledged,
         DataReceived, Pending

LEMMA SetupHost ==
  ASSUME HostInv, HostIInv, SendSetup
  PROVE  HostIInv'
<1>1. /\ phase = "setup" /\ phase' = "setupData"
      /\ HandleToken("SETUP", hostAddr)
      /\ UNCHANGED <<request, hostAddr, se0, resetSeen, missed, lost>>
  BY DEF SendSetup
<1>2. /\ UNCHANGED <<usbRxLen, acked, current, usbDeviceAddr, usbNewDeviceAddr>>
      /\ Pending' <=> Pending
      /\ usbCurrentTok' \in {"SETUP", "none"}
  BY <1>1, TokenEffect
<1> QED
  BY <1>1, <1>2
     DEF HostIInv, Lossless, TokenOK, AckedOK, ResetOK,
         AddressOK, SameAddress, Assigning, ServedOK, Acknowledged,
         DataReceived

LEMMA SetupDataHost ==
  ASSUME IInv, HostInv, HostIInv, SendSetupData
  PROVE  HostIInv'
<1>1. /\ phase = "setupData"
      /\ phase' = IF DataHandshake(11) = "ACK" THEN AfterSetup ELSE "setup"
      /\ HandleData(request, 11)
      /\ UNCHANGED <<request, hostAddr, se0, resetSeen, missed, lost>>
  BY DEF SendSetupData
<1>2. usbCurrentTok \in {"SETUP", "none"}
  BY <1>1 DEF HostIInv, TokenOK
<1>3. AfterSetup \in {"statusIn", "dataIn"}
  BY DEF AfterSetup
<1>4. ~se0 /\ ~resetSeen
  BY <1>1 DEF HostIInv, ResetOK
<1>5. CASE DataHandshake(11) = "ACK"
  <2>1. /\ UNCHANGED <<usbCurrentTok, usbDeviceAddr, usbNewDeviceAddr>>
        /\ acked' = request /\ current' = {"rx"} /\ Pending'
    BY <1>1, <1>2, <1>5, SetupDataEffect
  <2>2. phase' \in {"statusIn", "dataIn"}
    BY <1>1, <1>3, <1>5
  <2>3. Lossless' /\ TokenOK' /\ AckedOK'
    BY <1>1, <2>1, <2>2
       DEF HostIInv, Lossless, TokenOK, AckedOK, Acknowledged
  <2>4. ResetOK'
    BY <1>1, <1>4, <2>2 DEF HostIInv, ResetOK
  <2>5. AddressOK'
    BY <1>1, <1>4, <2>1, <2>2
       DEF HostIInv, AddressOK, SameAddress, Assigning, Acknowledged,
           DataReceived
  <2>6. ServedOK'
    BY <2>1, <2>2 DEF ServedOK, DataReceived
  <2> QED
    BY <2>3, <2>4, <2>5, <2>6 DEF HostIInv
<1>6. CASE DataHandshake(11) # "ACK"
  <2>1. /\ UNCHANGED <<usbCurrentTok, usbDeviceAddr, usbNewDeviceAddr, acked,
                       current, usbRxLen>>
        /\ Pending' <=> Pending
    BY <1>1, <1>2, <1>6, SetupDataEffect
  <2>2. phase' = "setup"
    BY <1>1, <1>6
  <2> QED
    BY <1>1, <1>4, <2>1, <2>2
       DEF HostIInv, Lossless, TokenOK, AckedOK, ResetOK,
           AddressOK, SameAddress, Assigning, ServedOK, Acknowledged,
           DataReceived
<1> QED
  BY <1>5, <1>6

\* Data the device sends in answer to an IN.
LEMMA InDataHost ==
  ASSUME IInv, HostInv, HostIInv, phase \in {"dataIn", "statusIn"},
         HandleIn(hostAddr), InHandshake = "DATA",
         phase' \in {"ackMore", "ackLast"},
         UNCHANGED <<request, hostAddr, se0, resetSeen, missed, lost>>
  PROVE  HostIInv'
<1>1. /\ UNCHANGED <<usbRxLen, usbRxToken, pc, acked, current, usbCurrentTok,
                     usbNewDeviceAddr>>
      /\ ~Pending /\ ~Pending' /\ CanTransmit
      /\ usbDeviceAddr' = usbNewDeviceAddr % 128
  BY InEffect
<1>2. ~se0 /\ ~resetSeen
  BY DEF HostIInv, ResetOK
<1>3. "tx" \in current /\ "msg" \in current
  BY <1>1 DEF HostIInv, ServedOK, IInv, Fresh, CanTransmit
<1>4. Lossless' /\ TokenOK' /\ AckedOK' /\ ResetOK'
  BY <1>1, <1>2
     DEF HostIInv, Lossless, TokenOK, AckedOK, ResetOK,
         Acknowledged
<1>5. AddressOK'
  <2>1. \A a \in Addresses : a % 128 = a
    BY AddressesAssumption
  <2>2. CASE ~missed /\ request.name # "setAddress"
    BY <1>1, <1>2, <2>1, <2>2
       DEF HostInv, HostIInv, AddressOK, SameAddress, Assigning, Acknowledged
  <2>3. CASE ~missed /\ request.name = "setAddress"
    <3>1. request.value \in Addresses
      BY <2>3, HostAssumption DEF HostInv, Payloads, NoRequest
    <3>2. usbNewDeviceAddr = request.value
      BY <1>1, <1>2, <2>3 DEF HostIInv, AddressOK, Acknowledged
    <3> QED
      BY <1>1, <2>1, <2>3, <3>1, <3>2 DEF AddressOK, Acknowledged, DataReceived
  <2> QED
    BY <2>2, <2>3 DEF AddressOK
<1>6. ServedOK'
  BY <1>1, <1>3 DEF ServedOK
<1> QED
  BY <1>4, <1>5, <1>6 DEF HostIInv

\* A packet that changes nothing the host relies on but the device's token.
LEMMA SilentHost ==
  ASSUME IInv, HostInv, HostIInv,
         UNCHANGED <<usbRxLen, acked, current, usbDeviceAddr, usbNewDeviceAddr>>,
         Pending' <=> Pending,
         phase' # "setupData",
         \/ phase' = phase
         \/ phase \in DataReceived /\ phase' \in Acknowledged,
         UNCHANGED <<request, hostAddr, se0, resetSeen, missed, lost>>,
         phase' \in DataReceived => phase \in DataReceived
  PROVE  HostIInv'
<1>1. phase' \in Acknowledged <=> phase \in Acknowledged
  BY DEF Acknowledged, DataReceived
<1>2. Lossless' /\ TokenOK' /\ AckedOK' /\ ResetOK'
  BY <1>1
     DEF HostIInv, Lossless, TokenOK, AckedOK, ResetOK,
         Acknowledged, DataReceived
<1>3. AddressOK'
  BY <1>1 DEF HostIInv, AddressOK, SameAddress, Assigning, Acknowledged,
              DataReceived
<1>4. ServedOK'
  BY DEF HostIInv, ServedOK
<1> QED
  BY <1>2, <1>3, <1>4 DEF HostIInv

LEMMA InHost ==
  ASSUME IInv, HostInv, HostIInv, SendIn
  PROVE  HostIInv'
<1>1. /\ phase \in {"dataIn", "statusIn"}
      /\ UNCHANGED <<request, hostAddr, se0, resetSeen, missed, lost>>
  BY DEF SendIn
<1>2. CASE hostAddr = usbDeviceAddr /\ InHandshake = "DATA"
  <2>1. HandleIn(hostAddr) /\ ReceiveData
    BY <1>2 DEF SendIn
  <2>2. phase' \in {"ackMore", "ackLast"}
    BY <2>1 DEF ReceiveData
  <2> QED
    BY <1>1, <1>2, <2>1, <2>2, InDataHost
<1>3. CASE hostAddr = usbDeviceAddr /\ InHandshake # "DATA"
  <2>1. HandleIn(hostAddr) /\ phase' = phase
    BY <1>3 DEF SendIn
  <2> QED
    BY <1>1, <1>3, <2>1, InEffect, SilentHost DEF DataReceived
<1>4. CASE hostAddr # usbDeviceAddr
  <2>1. HandleToken("IN", hostAddr) /\ phase' = phase
    BY <1>4 DEF SendIn
  <2>2. /\ UNCHANGED <<usbRxLen, acked, current, usbDeviceAddr,
                       usbNewDeviceAddr>>
        /\ Pending' <=> Pending
    BY <2>1, TokenEffect
  <2> QED
    BY <1>1, <2>1, <2>2, SilentHost DEF DataReceived
<1> QED
  BY <1>2, <1>3, <1>4

LEMMA AckHost ==
  ASSUME IInv, HostInv, HostIInv, SendAck
  PROVE  HostIInv'
<1>1. /\ phase \in {"ackMore", "ackLast"} /\ phase' = AfterAck
      /\ HandleToken("handshake", hostAddr)
      /\ UNCHANGED <<request, hostAddr, se0, resetSeen, missed, lost>>
  BY DEF SendAck
<1>2. /\ UNCHANGED <<usbRxLen, acked, current, usbDeviceAddr, usbNewDeviceAddr>>
      /\ Pending' <=> Pending
  BY <1>1, TokenEffect
<1>3. phase' \in {"statusIn", "dataIn", "done", "statusOut"}
  BY <1>1 DEF AfterAck, AfterSetup
<1> QED
  BY <1>1, <1>2, <1>3, SilentHost DEF Acknowledged, DataReceived

LEMMA StatusOutHost ==
  ASSUME IInv, HostInv, HostIInv, SendStatusOut \/ SendStatusOutData
  PROVE  HostIInv'
<1>1. CASE SendStatusOut
  <2>1. /\ phase = "statusOut" /\ phase' = "statusOutData"
        /\ HandleToken("OUT", hostAddr)
        /\ UNCHANGED <<request, hostAddr, se0, resetSeen, missed, lost>>
    BY <1>1 DEF SendStatusOut
  <2>2. /\ UNCHANGED <<usbRxLen, acked, current, usbDeviceAddr,
                       usbNewDeviceAddr>>
        /\ Pending' <=> Pending
    BY <2>1, TokenEffect
  <2> QED
    BY <2>1, <2>2, SilentHost DEF Acknowledged, DataReceived
<1>2. CASE SendStatusOutData
  <2>1. /\ phase = "statusOutData" /\ phase' \in {"done", "statusOut"}
        /\ HandleData(NoRequest, 3)
        /\ UNCHANGED <<request, hostAddr, se0, resetSeen, missed, lost>>
    BY <1>2 DEF SendStatusOutData
  <2> QED
    BY <2>1, EmptyDataEffect, SilentHost DEF Acknowledged, DataReceived
<1> QED
  BY <1>1, <1>2

LEMMA FinishHost ==
  ASSUME IInv, HostInv, HostIInv, Finish
  PROVE  HostIInv'
<1>1. /\ phase = "done" /\ phase' = "idle" /\ request' = NoRequest
      /\ hostAddr' = IF request.name = "setAddress" THEN request.value
                     ELSE hostAddr
      /\ UNCHANGED <<usbRxLen, usbRxToken, usbCurrentTok, pc, acked, current,
                     usbDeviceAddr, usbNewDeviceAddr, se0, resetSeen, missed,
                     lost>>
  BY DEF Finish, ForgetTransfer
<1>2. ~se0 /\ ~resetSeen
  BY <1>1 DEF HostIInv, ResetOK
<1>3. Lossless' /\ TokenOK' /\ AckedOK' /\ ResetOK' /\ ServedOK'
  BY <1>1, <1>2
     DEF HostIInv, Lossless, TokenOK, AckedOK, ResetOK, ServedOK,
         Acknowledged, DataReceived
<1>4. acked = request
  BY <1>1 DEF HostIInv, AckedOK, Acknowledged
<1>5. AddressOK'
  <2>1. CASE ~missed /\ request.name # "setAddress"
    BY <1>1, <1>2, <2>1
       DEF HostIInv, AddressOK, SameAddress, Assigning, Pending, Acknowledged
  <2>2. CASE ~missed /\ request.name = "setAddress"
    <3>1. /\ ~Pending /\ usbDeviceAddr = request.value
          /\ usbNewDeviceAddr = request.value
      BY <1>1, <1>2, <2>2 DEF HostIInv, AddressOK, Acknowledged, DataReceived
    <3> QED
      BY <1>1, <2>2, <3>1
         DEF AddressOK, SameAddress, Assigning, Pending, Acknowledged
  <2> QED
    BY <1>1, <2>1, <2>2 DEF AddressOK
<1> QED
  BY <1>3, <1>5 DEF HostIInv

-----------------------------------------------------------------------------
(* Faults *)

LEMMA AbortHost ==
  ASSUME IInv, HostInv, HostIInv, Abort
  PROVE  HostIInv'
<1>1. /\ phase \in BetweenTransactions
      /\ UNCHANGED <<usbRxLen, usbRxToken, usbCurrentTok, pc, acked, current,
                     usbDeviceAddr, usbNewDeviceAddr, hostAddr, se0,
                     resetSeen, missed, lost>>
  BY DEF Abort
<1>2. IF request.name = "setAddress"
      THEN phase' = "mustReset" /\ request' = request
      ELSE phase' = "idle" /\ request' = NoRequest
  BY DEF Abort, ForgetTransfer
<1>3. ~se0 /\ ~resetSeen /\ phase # "mustReset"
  BY <1>1 DEF HostIInv, ResetOK, BetweenTransactions
<1>4. Lossless' /\ TokenOK' /\ AckedOK' /\ ResetOK' /\ ServedOK'
  BY <1>1, <1>2, <1>3
     DEF HostIInv, Lossless, TokenOK, AckedOK, ResetOK, ServedOK,
         Acknowledged, DataReceived
<1>5. AddressOK'
  BY <1>1, <1>2, <1>3
     DEF HostIInv, AddressOK, SameAddress, Assigning, Pending, Acknowledged
<1> QED
  BY <1>4, <1>5 DEF HostIInv

LEMMA BeginResetHost ==
  ASSUME IInv, HostInv, HostIInv, BeginReset
  PROVE  HostIInv'
<1>1. /\ phase' = "resetting" /\ request' = NoRequest /\ hostAddr' = 0
      /\ se0' = TRUE /\ resetSeen' = FALSE
      /\ UNCHANGED <<usbCurrentTok, acked, current, missed, lost>>
  BY DEF BeginReset, ForgetTransfer
<1> QED
  BY <1>1
     DEF HostIInv, Lossless, TokenOK, AckedOK, ResetOK,
         AddressOK, ServedOK, Acknowledged, DataReceived

LEMMA EndResetHost ==
  ASSUME IInv, HostInv, HostIInv, EndReset
  PROVE  HostIInv'
<1>1. /\ phase = "resetting" /\ phase' = "idle" /\ se0' = FALSE
      /\ missed' = ~resetSeen /\ resetSeen' = FALSE
      /\ UNCHANGED <<usbRxLen, usbRxToken, usbCurrentTok, pc, acked, current,
                     usbDeviceAddr, usbNewDeviceAddr, hostAddr, request, lost>>
  BY DEF EndReset
<1>2. se0 /\ request = NoRequest /\ hostAddr = 0
  BY <1>1 DEF HostIInv, ResetOK
<1>3. Lossless' /\ TokenOK' /\ AckedOK' /\ ResetOK' /\ ServedOK'
  BY <1>1, <1>2
     DEF HostIInv, Lossless, TokenOK, AckedOK, ResetOK, ServedOK,
         Acknowledged, DataReceived
<1>4. CASE resetSeen
  <2>1. SameAddress' /\ ~Pending'
    BY <1>1, <1>2, <1>4 DEF HostIInv, ResetOK, SameAddress, Pending
  <2>2. AddressOK'
    BY <1>1, <2>1 DEF AddressOK, Assigning, Acknowledged
  <2> QED
    BY <1>3, <2>2 DEF HostIInv
<1>5. CASE ~resetSeen
  <2>1. missed'
    BY <1>1, <1>5
  <2>2. AddressOK'
    BY <2>1 DEF AddressOK
  <2> QED
    BY <1>3, <2>2 DEF HostIInv
<1> QED
  BY <1>4, <1>5

LEMMA ForeignHost ==
  ASSUME IInv, HostInv, HostIInv, ForeignTraffic
  PROVE  HostIInv'
<1>1. PICK addr \in Addresses : HandleToken("OUT", addr)
  BY DEF ForeignTraffic
<1>2. /\ phase \in BetweenTransactions
      /\ UNCHANGED <<phase, request, hostAddr, se0, resetSeen, missed, lost>>
  BY DEF ForeignTraffic
<1>3. /\ UNCHANGED <<usbRxLen, acked, current, usbDeviceAddr, usbNewDeviceAddr>>
      /\ Pending' <=> Pending
  BY <1>1, TokenEffect
<1>4. phase # "setupData"
  BY <1>2 DEF BetweenTransactions
<1> QED
  BY <1>2, <1>3, <1>4, SilentHost

LEMMA NothingLost ==
  ASSUME HostIInv, MaxLoss = 0
  PROVE  ~(LoseToken \/ LoseDataOut \/ LoseHandshake \/ LoseDataIn \/ LoseAck)
<1>1. ~Lose
  BY DEF Lose, HostIInv, Lossless
<1> QED
  BY <1>1 DEF LoseToken, LoseDataOut, LoseHandshake, LoseDataIn, LoseAck

-----------------------------------------------------------------------------
(* The invariant, and what follows from it *)

LEMMA InitHostIInv == BusInit => HostIInv
  BY DEF BusInit, DeviceInit, HostIInv, Lossless, TokenOK, AckedOK,
         ResetOK, AddressOK, SameAddress, Assigning, ServedOK,
         Acknowledged, DataReceived, Pending

LEMMA StepHostIInv ==
  ASSUME IInv, HostInv, HostIInv, MaxLoss = 0, [BusNext]_busVars
  PROVE  HostIInv'
<1>1. CASE DeviceStep
  BY <1>1, MainStepHost, CheckResetHost DEF DeviceStep
<1>2. ASSUME NEW r \in Requests, Ask(r) PROVE HostIInv'
  BY <1>2, AskHost
<1>3. CASE HostStep
  BY <1>3, SetupHost, SetupDataHost, InHost, AckHost, StatusOutHost, FinishHost
     DEF HostStep
<1>4. CASE Fault
  BY <1>4, AbortHost, BeginResetHost, EndResetHost, ForeignHost, NothingLost
     DEF Fault
<1>5. CASE UNCHANGED busVars
  BY <1>5 DEF busVars, HostIInv, Lossless, TokenOK, AckedOK,
              ResetOK, AddressOK, SameAddress, Assigning, ServedOK, Pending
<1> QED
  BY <1>1, <1>2, <1>3, <1>4, <1>5 DEF BusNext

LEMMA HostIInvAlways ==
  ASSUME MaxLoss = 0
  PROVE  BusSpec => [](IInv /\ HostInv /\ HostIInv)
<1>1. BusSpec => []IInv
  BY BusImplementsDevice, IInvAlways, PTL
<1>2. BusSpec => []HostInv
  BY InitHost, StepHost, PTL DEF BusSpec
<1>3. IInv /\ HostInv /\ HostIInv /\ [BusNext]_busVars => HostIInv'
  BY StepHostIInv
<1> QED
  BY <1>1, <1>2, <1>3, InitHostIInv, PTL DEF BusSpec

\* On a bus that loses nothing, device and host agree on the address whatever
\* transfers are given up, wherever the bus is reset and whatever the main
\* loop is doing (usbNewDeviceAddr in usbDriverSetup, handleIn and
\* usbHandleResetHook), unless a reset passed unnoticed.
THEOREM AddressesAgree ==
  ASSUME MaxLoss = 0
  PROVE  BusSpec => []AddressAgreement
<1>1. HostIInv => AddressAgreement
  BY DEF HostIInv, AddressOK, AddressAgreement, AddressChanging, SameAddress,
         ResetOK
<1> QED
  BY <1>1, HostIInvAlways, PTL

\* On a bus that loses nothing, a transfer that ends has been acknowledged and
\* served (usbProcessRx), whatever was given up before it.
THEOREM TransfersAreServed ==
  ASSUME MaxLoss = 0
  PROVE  BusSpec => []DoneMeansServed
<1>1. HostIInv => DoneMeansServed
  BY DEF HostIInv, AckedOK, ServedOK, DoneMeansServed, Answered, Acknowledged,
         DataReceived
<1> QED
  BY <1>1, HostIInvAlways, PTL

-----------------------------------------------------------------------------
(* Where nothing is given up and the bus is not reset *)

LEMMA InitBufferFree == BusInit => BufferFree
  BY DEF BusInit, DeviceInit, BufferFree, DataReceived

LEMMA StepBufferFree ==
  ASSUME IInv, HostInv, HostIInv, BufferFree, MaxLoss = 0,
         "abort" \notin Faults, "reset" \notin Faults, [BusNext]_busVars
  PROVE  BufferFree'
<1> USE DEF BufferFree, DataReceived
<1>1. CASE DeviceStep
  <2>1. usbRxLen' \in {usbRxLen, 0} /\ usbCurrentTok' = usbCurrentTok
    BY <1>1, MainStepEffect DEF DeviceStep, CheckReset, MainEffect
  <2>2. UNCHANGED <<phase, missed>>
    BY <1>1 DEF DeviceStep
  <2> QED
    BY <2>1, <2>2
<1>2. ASSUME NEW r \in Requests, Ask(r) PROVE BufferFree'
  BY <1>2 DEF Ask
<1>3. CASE SendSetup
  <2>1. phase = "setup" /\ phase' = "setupData" /\ missed' = missed
        /\ HandleToken("SETUP", hostAddr)
    BY <1>3 DEF SendSetup
  <2>2. hostAddr = usbDeviceAddr
    BY <2>1 DEF HostIInv, ResetOK, AddressOK, SameAddress, Acknowledged
  <2> QED
    BY <2>1, <2>2, TokenEffect
<1>4. CASE SendSetupData
  <2>1. /\ phase = "setupData" /\ missed' = missed
        /\ phase' = IF DataHandshake(11) = "ACK" THEN AfterSetup ELSE "setup"
    BY <1>4 DEF SendSetupData
  <2>2. DataHandshake(11) = "ACK"
    BY <2>1 DEF DataHandshake
  <2> QED
    BY <2>1, <2>2 DEF AfterSetup
<1>5. CASE SendIn
  <2>1. /\ phase \in {"dataIn", "statusIn"} /\ missed' = missed
        /\ phase' = phase \/ phase' \in {"ackMore", "ackLast"}
    BY <1>5 DEF SendIn, ReceiveData
  <2>2. CASE phase' = phase
    BY <2>1, <2>2
  <2>3. CASE phase' # phase
    <3>1. HandleIn(hostAddr) /\ InHandshake = "DATA"
      BY <1>5, <2>3 DEF SendIn
    <3> QED
      BY <2>1, <2>3, <3>1, InEffect
  <2> QED
    BY <2>2, <2>3
<1>6. CASE SendAck
  <2>1. /\ phase \in {"ackMore", "ackLast"} /\ missed' = missed
        /\ phase' \in {"statusIn", "dataIn", "done", "statusOut"}
        /\ HandleToken("handshake", hostAddr)
    BY <1>6 DEF SendAck, AfterAck, AfterSetup
  <2> QED
    BY <2>1, TokenEffect
<1>7. CASE SendStatusOut
  BY <1>7, TokenEffect DEF SendStatusOut
<1>8. CASE SendStatusOutData
  <2>1. /\ phase = "statusOutData" /\ missed' = missed
        /\ phase' \in {"done", "statusOut"} /\ HandleData(NoRequest, 3)
    BY <1>8 DEF SendStatusOutData
  <2> QED
    BY <2>1, EmptyDataEffect
<1>9. CASE Finish
  BY <1>9 DEF Finish
<1>10. CASE ForeignTraffic
  <2>1. PICK addr \in Addresses : HandleToken("OUT", addr)
    BY <1>10 DEF ForeignTraffic
  <2>2. phase \in BetweenTransactions /\ UNCHANGED <<phase, missed>>
    BY <1>10 DEF ForeignTraffic
  <2> QED
    BY <2>1, <2>2, TokenEffect DEF BetweenTransactions
<1>11. CASE UNCHANGED busVars
  BY <1>11 DEF busVars
<1>12. ~(Abort \/ BeginReset \/ EndReset)
  BY DEF Abort, BeginReset, EndReset
<1> QED
  BY <1>1, <1>2, <1>3, <1>4, <1>5, <1>6, <1>7, <1>8, <1>9, <1>10, <1>11, <1>12,
     NothingLost DEF BusNext, HostStep, Fault

\* On a bus that loses nothing, with a host that gives nothing up, a SETUP is
\* acknowledged at once (asmcommon.inc, handleSetupOrOut and handleData), however
\* long a measurement has kept the main loop from usbPoll.
THEOREM SetupAcknowledged ==
  ASSUME MaxLoss = 0, "abort" \notin Faults, "reset" \notin Faults
  PROVE  BusSpec => []SetupNeverNaked
<1>1. IInv /\ HostInv /\ HostIInv /\ BufferFree /\ [BusNext]_busVars
        => BufferFree'
  BY StepBufferFree
<1>2. BusSpec => []BufferFree
  BY <1>1, HostIInvAlways, InitBufferFree, PTL DEF BusSpec
<1>3. BufferFree => SetupNeverNaked
  BY DEF BufferFree, SetupNeverNaked, DataHandshake
<1> QED
  BY <1>2, <1>3, PTL
=============================================================================
