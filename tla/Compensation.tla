---------------------------- MODULE Compensation ----------------------------
(* The integer arithmetic that turns raw sensor values into readings:       *)
(* bmp085Convert (atmega_bmp085_lib.c) and the two formulas of si7021.c, at *)
(* the widths of the C types.  The sweep over raw values stands for the     *)
(* measurements of a slowly changing environment.  bmp085ReadShort returns  *)
(* what it has when the bus gives up, and nobody looks at its error code: a *)
(* calibration word then stays as it is until the next boot, a raw value    *)
(* until the next measurement.  Which reads the bus lets fail, and that one *)
(* may answer with the other quantity, is SensorBus's matter.               *)
EXTENDS Integers

CONSTANTS
  Calibrations, \* contents of the sensor's EEPROM
  Losses,       \* bound: how the reads of the calibration words may end
  RawTemps,     \* raw temperatures
  Step          \* the sweep over the 16-bit words read takes this many at once

InRange(low, x, high) == low <= x /\ x <= high

Words == {"ac1", "ac2", "ac3", "ac4", "ac5", "ac6", "b1", "b2", "mb", "mc", "md"}

ASSUME CalibrationsAssumption ==
  \A c \in Calibrations :
    c \in [Words -> Int] /\ \A w \in Words : InRange(-32768, c[w], 32767)

\* Both bytes were read, the high one only, or none.
Outcomes == {"read", "partial", "zero"}

ASSUME LossesAssumption == Losses \subseteq [Words -> Outcomes]
ASSUME StepAssumption == Step \in Nat \ {0}

VARIABLES
  stored,       \* the calibration as the two arrays of int16_t hold it
  got,          \* history: how the read of each calibration word ended
  ut,           \* the raw temperature the sensor has to tell
  word,         \* the raw pressure it has to tell, or a code of the SI7021
  gotTemp,      \* how the read of ut ended
  gotPressure,  \* how the read of the raw pressure ended
  reading       \* what bmp085Convert makes of what was read

vars == <<stored, got, ut, word, gotTemp, gotPressure, reading>>

OSS == 2

-----------------------------------------------------------------------------
(* C arithmetic *)

Magnitude(a) == IF a < 0 THEN -a ELSE a

\* Division of int32_t truncates towards zero; shifts to the right round down.
Quotient(a, b) ==
  LET q == Magnitude(a) \div Magnitude(b)
  IN IF (a >= 0) = (b > 0) THEN q ELSE -q

\* The product is an int32_t: no overflow.
ProductFits(a, b) == a = 0 \/ Magnitude(b) <= 2147483647 \div Magnitude(a)

\* ac4, ac5 and ac6 are kept as int16_t and used as uint16_t.
Uint16(a) == a % 65536

\* A uint32_t as two halves of 16 bits.
Uint32(high, low) == [high |-> high % 65536, low |-> low]

\* An int32_t of at most 18 bits and a sign, times k < 2^15, as a uint32_t.
UnsignedProduct(d, k) ==
  LET low == (d % 65536) * k
  IN Uint32((d \div 65536) * k + low \div 65536, low % 65536)

ShiftLeft1(u) == Uint32(2 * u.high + u.low \div 32768, (2 * u.low) % 65536)

\* u divided by b < 2^17: long division, a byte of the low half at a time.
UnsignedQuotient(u, b) ==
  LET n1 == (u.high % b) * 256 + u.low \div 256
      n2 == (n1 % b) * 256 + (u.low % 256)
  IN ((u.high \div b) * 256 + n1 \div b) * 256 + n2 \div b

-----------------------------------------------------------------------------
(* bmp085Convert *)

Undefined(why) == [fault |-> why, temperature |-> 0, pressure |-> 0]

\* Faulty variant: the shift back is missing.
RawPressureUnshifted(w) == w * 256

\* bmp085ReadPressure: the two bytes it reads are shifted into place.
RawPressure(w) == w * 2 ^ OSS

\* Faulty variant: the divisor is x1 alone.
TemperatureTermNoMd(c, t) ==
  LET x1 == ((t - Uint16(c["ac6"])) * Uint16(c["ac5"])) \div 32768
  IN IF x1 = 0 THEN [fault |-> "divisor", b5 |-> 0]
     ELSE [fault |-> "none", b5 |-> x1 + Quotient(c["mc"] * 2048, x1)]

\* b5 and what may go wrong on the way to it.
TemperatureTerm(c, t) ==
  LET above == t - Uint16(c["ac6"])
      x1 == (above * Uint16(c["ac5"])) \div 32768
      divisor == x1 + c["md"]
  IN IF ~ProductFits(above, Uint16(c["ac5"])) THEN [fault |-> "overflow", b5 |-> 0]
     ELSE IF divisor = 0 THEN [fault |-> "divisor", b5 |-> 0]
     ELSE [fault |-> "none", b5 |-> x1 + Quotient(c["mc"] * 2048, divisor)]

B3(c, b6) ==
  LET x1 == (c["b2"] * ((b6 * b6) \div 4096)) \div 2048
      x2 == (c["ac2"] * b6) \div 2048
  IN ((c["ac1"] * 4 + x1 + x2) * 2 ^ OSS + 2) \div 4

\* The product is shifted as a uint32_t; done in parts, it never is as wide.
B4(c, b6) ==
  LET x1 == (c["ac3"] * b6) \div 8192
      x2 == (c["b1"] * ((b6 * b6) \div 4096)) \div 65536
      x3 == (x1 + x2 + 2) \div 4 + 32768
      ac4 == Uint16(c["ac4"])
  IN (ac4 * (x3 \div 32768) + (ac4 * (x3 % 32768)) \div 32768) % 131072

\* Faulty variant: the doubled quotient is used at every size.
QuotientUnsplit(b7, b4) == UnsignedQuotient(ShiftLeft1(b7), b4)

QuotientB7(b7, b4) ==
  IF b7.high < 32768 THEN UnsignedQuotient(ShiftLeft1(b7), b4)
                     ELSE 2 * UnsignedQuotient(b7, b4)

PressureOf(p) ==
  LET x1 == (((p \div 256) * (p \div 256)) * 3038) \div 65536
      x2 == (-7357 * p) \div 65536
  IN p + (x1 + x2 + 3791) \div 16

bmp085Convert(c, t, w) ==
  LET term == TemperatureTerm(c, t)
      b6 == term.b5 - 4000
      b4 == B4(c, b6)
      d == RawPressure(w) - B3(c, b6)
      p == QuotientB7(UnsignedProduct(d, 50000 \div 2 ^ OSS), b4)
  IN IF term.fault # "none" THEN Undefined(term.fault)
     ELSE IF ~ProductFits(b6, b6) \/ ~ProductFits(c["b1"], (b6 * b6) \div 4096)
             \/ ~ProductFits(c["b2"], (b6 * b6) \div 4096)
          THEN Undefined("overflow")
     ELSE IF b4 = 0 THEN Undefined("divisor")
     ELSE IF ~ProductFits(7357, p)
             \/ ~ProductFits((p \div 256) * (p \div 256), 3038)
          THEN Undefined("overflow")
     ELSE [fault |-> "none", temperature |-> (term.b5 + 8) \div 16,
           pressure |-> PressureOf(p)]

-----------------------------------------------------------------------------
(* si7021.c: tenths of a degree and of a percent.  The two lowest bits of a *)
(* code are status bits, which are masked out.  Data[0]*256 is an int of 16  *)
(* bits; the build wraps it around and Value, unsigned, undoes that.        *)

Code(w) == w - (w % 4)

\* Faulty variant: the shift of the humidity formula.
SI7021_temperature_15(w) == (Code(w) * 878) \div 32768 - 469

SI7021_temperature(w) == (Code(w) * 1757) \div 65536 - 469

SI7021_humidity(w) == (Code(w) * 625) \div 32768 - 60

-----------------------------------------------------------------------------
(* Measurements of one device *)

\* Faulty variant: the only byte is left where the low one belongs.
ReceivedUnshifted(x, outcome) ==
  CASE outcome = "read" -> x
    [] outcome = "partial" -> x \div 256
    [] outcome = "zero" -> 0

\* What bmp085ReadShort returns for x: msb << 8, with msb and lsb zero until
\* they are read.
Received(x, outcome) ==
  CASE outcome = "read" -> x
    [] outcome = "partial" -> 256 * (x \div 256)
    [] outcome = "zero" -> 0

Kept(c, outcomes) == [w \in Words |-> Received(c[w], outcomes[w])]

Init ==
  /\ got \in Losses
  /\ \E c \in Calibrations : stored = Kept(c, got)
  /\ ut \in RawTemps
  /\ word = 0
  /\ gotTemp = "read" /\ gotPressure = "read"
  /\ reading = bmp085Convert(stored, ut, word)

Measure ==
  /\ word' = IF word + Step <= 65535 THEN word + Step ELSE 0
  /\ gotTemp' \in Outcomes
  /\ gotPressure' \in Outcomes
  /\ reading' = bmp085Convert(stored, Received(ut, gotTemp'),
                              Received(word', gotPressure'))
  /\ UNCHANGED <<stored, got, ut>>

Spec == Init /\ [][Measure]_vars

-----------------------------------------------------------------------------
(* Properties *)

\* What the BMP085 measures: tenths of a degree, pascals.
TemperatureMeasured(t) == InRange(-400, t, 850)
PressureMeasured(p) == InRange(30000, p, 110000)

\* More than what sensors return in that range; it includes b7 = 2^31.
RawPressureRead(w) == InRange(10000, w, 60000)

\* A device whose pressure is of use: its EEPROM is near that of the data
\* sheet's example, and at -40.0 degrees the least raw pressure is above zero.
Ordinary(c) ==
  /\ InRange(0, c["ac1"], 9000)
  /\ InRange(-1500, c["ac2"], 0)
  /\ InRange(-14750, c["ac3"], 0)
  /\ InRange(32700, Uint16(c["ac4"]), 34000)
  /\ InRange(24000, Uint16(c["ac5"]), 32767)
  /\ InRange(16400, Uint16(c["ac6"]), 24000)
  /\ InRange(0, c["b1"], 6500)
  /\ InRange(0, c["b2"], 70)
  /\ InRange(-11500, c["mc"], 0)
  /\ InRange(2000, c["md"], 3000)
  /\ 4 * c["ac1"] + 5 * c["ac2"] >= -4000
  /\ B3(c, -6400 - 4000) <= 40000

\* t is what a device returns between -40.0 and 85.0 degrees.
Measurable(c, t) ==
  /\ t \in Int /\ InRange(Uint16(c["ac6"]), t, 65535)
  /\ InRange(-6400, TemperatureTerm(c, t).b5, 13600)

DevicesOrdinary ==
  \A c \in Calibrations :
    Ordinary(c) /\ \A t \in RawTemps : Measurable(c, t)

CalibrationRead == \A w \in Words : got[w] = "read"

\* With all calibration words and the raw temperature read nothing divides by
\* zero and no product is wider than its type, even if only the high byte of
\* the raw pressure was read.
DefinedWhenRead ==
  CalibrationRead /\ gotTemp = "read" /\ RawPressureRead(Received(word, gotPressure))
    => reading.fault = "none"

\* However the reads of the calibration words and of the raw values ended,
\* bmp085Convert divides by zero only if no byte of ac4 or none of md was
\* read; half of either is enough.
ZeroDivisorNeedsLostWord ==
  reading.fault = "divisor" => got["ac4"] = "zero" \/ got["md"] = "zero"

\* A raw value of which no byte was read, with the calibration complete, leads
\* to a value that no BMP085 measures: who looks at the range can tell.
MissingReadShows ==
  CalibrationRead /\ reading.fault = "none" =>
    /\ gotTemp = "zero" => ~TemperatureMeasured(reading.temperature)
    /\ gotPressure = "zero" => ~PressureMeasured(reading.pressure)

\* A raw value of which only the high byte was read, with the calibration
\* complete, leads to a value near the true one, which nobody can tell by its
\* range: a temperature never higher and less than 12.5 degrees lower, and
\* with the raw temperature read a pressure never higher and at most 1028 Pa
\* lower.
HalfReadLowers ==
  CalibrationRead /\ reading.fault = "none" =>
    /\ gotTemp = "partial" =>
         InRange(0, (TemperatureTerm(stored, ut).b5 + 8) \div 16
                      - reading.temperature, 124)
    /\ gotTemp = "read" /\ gotPressure = "partial"
         /\ RawPressureRead(Received(word, "partial")) /\ RawPressureRead(word) =>
         InRange(0, bmp085Convert(stored, ut, word).pressure - reading.pressure,
                 4 * 255 + 8)

\* With the calibration complete, a raw value whose read failed, a byte into
\* it or before, either shows in a reading that no BMP085 makes, or lowers the
\* reading by a bounded amount.
FailedReadBounded == MissingReadShows /\ HalfReadLowers

AllRead == CalibrationRead /\ gotTemp = "read" /\ gotPressure = "read"

\* Pressure rises with the raw pressure, on both sides of the case split of
\* line 303 and across it: by at most 4 Pa for a step of the word read, and 8
\* more where a quotient or p >> 8 steps.
PressureContinuous ==
  [][AllRead /\ AllRead' /\ RawPressureRead(word) /\ RawPressureRead(word') =>
       InRange(0, reading'.pressure - reading.pressure, 4 * Step + 8)]_vars

\* The formulas of the SI7021's data sheet, in hundredths, are undercut by
\* less than two tenths, and never exceeded.
SiNearDatasheet ==
  /\ InRange(0, (17572 * Code(word)) \div 65536 - 4685
                - 10 * SI7021_temperature(word), 19)
  /\ InRange(0, (12500 * Code(word)) \div 65536 - 600
                - 10 * SI7021_humidity(word), 9)
=============================================================================
