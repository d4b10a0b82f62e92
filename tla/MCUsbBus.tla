------------------------------ MODULE MCUsbBus ------------------------------
(* Small instances of UsbBus.  Each run takes one of the sets of requests:  *)
(* enumeration is needed in all of them, the rest is what the run is about. *)
EXTENDS UsbBus

Req(name, value, wLength) ==
  [name |-> name, value |-> value, wLength |-> wLength]

\* wLength as the callers choose it: 64 in app/main.c, 256 in usb.go.
GetEnv == Req("getEnv", 0, 256)
SetAddress == Req("setAddress", 1, 0)
SetLed == Req("setLed", 1, 0)

TransferRequests == {SetAddress, GetEnv, SetLed, Req("getDescriptor", 1, 64)}
FaultRequests == {SetAddress, GetEnv, Req("getDescriptor", 1, 8)}
StandardRequests ==
  {SetAddress, Req("getDescriptor", 2, 9), Req("getConfiguration", 0, 1),
   Req("setConfiguration", 1, 0), Req("getStatus", 0, 2),
   Req("echo", 7, 2), Req("getVersion", 0, 2), Req("getDescriptor", 9, 64)}

MCAddresses == {0, 1, 2}
=============================================================================
