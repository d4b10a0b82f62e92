---------------------------- MODULE MCUsbDevice ----------------------------
(* A small instance of UsbDevice.  The requests are one whose answer takes  *)
(* three packets out of replyBuf and one whose answer is built in the       *)
(* transmit buffer's own tail.                                              *)
EXTENDS UsbDevice

Req(name, value, wLength) ==
  [name |-> name, value |-> value, wLength |-> wLength]

MCRequests == {Req("getEnv", 0, 256), Req("getStatus", 0, 2)}
MCAddresses == {0, 1}
=============================================================================
