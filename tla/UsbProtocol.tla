---------------------------- MODULE UsbProtocol ----------------------------
(* The control requests the thermometer's firmware answers on endpoint 0   *)
(* and what each answer holds.  Shared by the abstract specification        *)
(* (ControlTransfer) and by the detailed one (UsbDevice).                   *)
(*                                                                          *)
(* Data is abstracted to four-byte words: the two sensors' results are      *)
(* four 32-bit fields, so a word is the unit in which a reply could mix     *)
(* two measurements.  A measurement is identified by a member of Samples,   *)
(* never by its numbers.                                                    *)
EXTENDS Integers

CONSTANTS Requests,     \* the SETUP payloads a host may send
          Samples,      \* identities of measurements
          Placeholder   \* the values main() stores before the first measurement

VendorNames == {"echo", "setLed", "getVersion", "getEnv", "vendorOther"}

StandardNames == {"getStatus", "setAddress", "getDescriptor",
                  "getConfiguration", "setConfiguration", "getInterface",
                  "standardOther"}

\* value is the part of wValue the handler of that request reads.  wLength
\* is a 16-bit field; nothing depends on its upper bound.
RequestType == [name : VendorNames \cup StandardNames,
                value : 0 .. 255, wLength : Nat]

ASSUME RequestsAssumption == Requests \subseteq RequestType
ASSUME SamplesAssumption == Placeholder \notin Samples

Readings == Samples \cup {Placeholder}

\* What a receive buffer holds when it does not hold a SETUP payload.
NoRequest == [name |-> "standardOther", value |-> 0, wLength |-> 0]

Payloads == Requests \cup {NoRequest}

\* The descriptors kept in flash: device, configuration, language, vendor
\* and product string.  There is no serial number string.
DescriptorLength == <<18, 25, 4, 14, 28>>

\* The lengths that fit the driver's 8-bit usbMsgLen_t.
MsgLen == 0 .. 254

EnvFields == <<"temperature", "pressure", "temperature2", "humidity">>

\* Length of the complete answer, before the host's wLength limits it.
FullLength(r) ==
  IF r.name \in {"echo", "getVersion", "getStatus"} THEN 2
  ELSE IF r.name = "getEnv" THEN 16
  ELSE IF r.name \in {"getConfiguration", "getInterface"} THEN 1
  ELSE IF r.name = "getDescriptor" /\ r.value \in 1 .. 5
       THEN DescriptorLength[r.value]
  ELSE 0

\* Faulty variant, for testing the properties: wLength is ignored.
LimitLengthIgnored(n, wLength) == n

\* The driver's limit: an 8-bit comparison, taken only when wLength's high
\* byte is zero.
LimitLength(n, wLength) ==
  IF wLength \div 256 = 0 /\ n > wLength % 256 THEN wLength % 256 ELSE n

ReplyLength(r) == LimitLength(FullLength(r), r.wLength)

\* Number of words that hold n bytes.
WordCount(n) == (n + 3) \div 4

Word(src, val) == [src |-> src, val |-> val]

\* Descriptor d starts at flash word 32 * d.
RomWord(i) == Word("rom", i)

\* Word i of the answer to r when the last measurement is s, the
\* configuration is c.
ReplyWord(r, s, c, i) ==
  IF r.name = "echo" THEN Word("echo", r.value)
  ELSE IF r.name = "getVersion" THEN Word("version", 0)
  ELSE IF r.name = "getEnv" THEN Word(EnvFields[i], s)
  ELSE IF r.name = "getConfiguration" THEN Word("config", c)
  ELSE IF r.name = "getDescriptor" THEN RomWord(32 * r.value + i)
  ELSE Word("status", 0)

\* The answer a host is promised: all of it computed from one state.
Reply(r, s, c) ==
  [len |-> ReplyLength(r),
   words |-> [i \in 1 .. WordCount(ReplyLength(r)) |-> ReplyWord(r, s, c, i)]]

NoReply == [len |-> 0, words |-> << >>]
=============================================================================
