--------------------------- MODULE MCCompensation ---------------------------
(* Two devices: the example of the BMP085's data sheet, and one with ac4    *)
(* above 32767.  Each calibration word may be lost, or half of it, and one  *)
(* pair.                                                                    *)
EXTENDS Compensation

Example ==
  [ac1 |-> 408, ac2 |-> -72, ac3 |-> -14383, ac4 |-> 32741, ac5 |-> 32757,
   ac6 |-> 23153, b1 |-> 6190, b2 |-> 4, mb |-> -32768, mc |-> -8711,
   md |-> 2868]

Typical ==
  [ac1 |-> 8240, ac2 |-> -1196, ac3 |-> -14709, ac4 |-> 32912 - 65536,
   ac5 |-> 24959, ac6 |-> 16487, b1 |-> 5498, b2 |-> 59, mb |-> -32768,
   mc |-> -11075, md |-> 2432]

MCCalibrations == {Example, Typical}
Complete == [w \in Words |-> "read"]
MCLosses ==
  {Complete, [Complete EXCEPT !["ac5"] = "zero", !["md"] = "zero"]}
    \cup {[Complete EXCEPT ![w] = o] : w \in Words, o \in Outcomes}
MCRawTemps == {23153, 27898, 36000}

\* What the proofs ask of devices and raw temperatures holds of these.
ASSUME DevicesAreOrdinary == DevicesOrdinary
=============================================================================
