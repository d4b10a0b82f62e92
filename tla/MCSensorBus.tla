---------------------------- MODULE MCSensorBus ----------------------------
(* Small instances of SensorBus: three calibration words for the code's     *)
(* eleven, read by the same routine, and conversion times as the comments   *)
(* of atmega_bmp085_lib.c give them.                                        *)
EXTENDS SensorBus
=============================================================================
