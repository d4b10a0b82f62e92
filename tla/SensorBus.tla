----------------------------- MODULE SensorBus -----------------------------
(* The two sensors of the thermometer on their I2C bus, the code that reads *)
(* them (twi.c, atmega_bmp085_lib.c, si7021.c) and the order in which       *)
(* main.c runs it.  The code has the bus to itself, so the concurrency is   *)
(* that of the hardware: a sensor may refuse an address or a byte, hold the *)
(* clock beyond the 90 us that i2cWaitForComplete allows, or convert longer *)
(* than the loop on its EOC pin waits.                                      *)
(*                                                                          *)
(* A routine is its script, the sequence of its bus operations; one action  *)
(* is one operation with the wait and the check that follow it.  A reading  *)
(* is abstracted to where its bits come from.                               *)
EXTENDS Integers, Sequences

CONSTANTS CalibrationWords,   \* words of calibration data, 11 in the code
          MaxFaults,          \* operations that may go wrong
          TempTime, PressureTime        \* us the BMP085 takes to convert

ASSUME WordsAssumption == CalibrationWords \in Nat \ {0}
ASSUME FaultsAssumption == MaxFaults \in Nat
ASSUME TimesAssumption == TempTime \in Nat /\ PressureTime \in Nat

VARIABLES
  \* The bus.
  twbr,         \* the bit rate register
  owned,        \* a START was sent and no STOP since
  slave,        \* who acknowledged its address, and for which direction
  stuck,        \* the running operation does not complete
  \* The sensors.
  register,     \* BMP085: the register the next read returns
  converting,   \* BMP085: the running conversion
  converted,    \* BMP085: what the result register holds
  command,      \* SI7021: the last measurement command
  \* The program.
  routine, step, word,
  data,         \* bytes received by the running routine
  error_code,
  calibrated,   \* every calibration word was read completely
  ut, up,       \* raw values of this pass
  environment,
  \* History: no code reads these.
  gap,          \* us of delay loops since the last usbPoll
  faults,       \* operations that have gone wrong
  eocLate,      \* an EOC loop has run out
  clean         \* nothing has gone wrong since the last pass ended

busVars == <<owned, slave, stuck>>
sensorVars == <<register, converting, converted, command>>
resultVars == <<calibrated, ut, up, environment>>
history == <<gap, faults, eocLate, clean>>
programVars == <<routine, step, word, data, error_code>>
vars == <<twbr, busVars, sensorVars, programVars, resultVars, history>>

-----------------------------------------------------------------------------
(* Bit rate, in kHz, at F_CPU 12 MHz. *)

F_CPU == 12000

i2cSetBitrate(bitratekHz) ==
  LET div == (F_CPU \div bitratekHz) % 256 IN        \* an uint8_t
  IF div >= 16 THEN (div - 16) \div 8 ELSE div

-----------------------------------------------------------------------------
(* Scripts *)

Op(op, arg) == [op |-> op, arg |-> arg]
Start == Op("start", "START")
Restart == Op("start", "REP_START")
Stop == Op("stop", "STOP")
Delay == Op("delay", "conversion")

bmp085ReadShort(reg) ==
  <<Start, Op("address", "bmpW"), Op("data", reg), Restart,
    Op("address", "bmpR"), Op("receive", "msb"), Op("receive", "lsb"), Stop>>

\* The command that starts a conversion, common to bmp085ReadTemp and
\* bmp085ReadPressure.
ConversionCommand(quantity) ==
  <<Start, Op("address", "bmpW"), Op("data", "control"), Op("data", quantity),
    Stop>>

SI70XX_Sensor_Measure(config) ==
  <<Start, Op("address", "siW"), Op("data", config), Delay, Restart,
    Op("address", "siR"), Op("receive", "msb"), Op("receive", "lsb"), Stop>>

Scripted == {"calibration", "tempCommand", "tempRead", "pressureCommand",
             "pressureRead", "SI7021_temperature", "SI7021_humidity"}

Script ==
  [r \in Scripted |->
     IF r = "calibration" THEN bmp085ReadShort("calibration")
     ELSE IF r = "tempCommand" THEN ConversionCommand("temperature")
     ELSE IF r = "pressureCommand" THEN ConversionCommand("pressure")
     ELSE IF r \in {"tempRead", "pressureRead"} THEN bmp085ReadShort("result")
     ELSE IF r = "SI7021_temperature" THEN SI70XX_Sensor_Measure("T")
     ELSE SI70XX_Sensor_Measure("H")]

SI7021 == {"SI7021_temperature", "SI7021_humidity"}

Waits == {"tempWait", "pressureWait"}

\* Faulty variant: a measurement that fails returns at once.
IgnoresErrorsNever(r) == FALSE

\* The SI7021's routines look at no error code; the BMP085's skip what is
\* left of the script, its STOP included.
IgnoresErrors(r) == r \in SI7021

\* Faulty variant: the result is read whether the command succeeded or not.
AfterWaitAlways(r, code) ==
  IF r = "tempWait" THEN "tempRead" ELSE "pressureRead"

\* A conversion whose command failed is not read.
AfterWait(r, code) ==
  IF r = "tempWait" THEN IF code = 0 THEN "tempRead" ELSE "pressureCommand"
  ELSE IF code = 0 THEN "pressureRead" ELSE "convert"

NextRoutine(r) ==
  CASE r = "calibration" ->
         IF word < CalibrationWords THEN "calibration" ELSE "poll"
    [] r = "tempCommand" -> "tempWait"
    [] r = "tempRead" -> "pressureCommand"
    [] r = "pressureCommand" -> "pressureWait"
    [] r = "pressureRead" -> "convert"
    [] r = "SI7021_temperature" -> "SI7021_humidity"
    [] r = "SI7021_humidity" -> "poll"

Placeholders == [temperature |-> "placeholder", pressure |-> "placeholder",
                 temperature2 |-> "placeholder", humidity |-> "placeholder"]

Init ==
  /\ twbr = 0
  /\ owned = FALSE
  /\ slave = "none"
  /\ stuck = FALSE
  /\ register = "result"
  /\ converting = "none"
  /\ converted = "old"
  /\ command = "none"
  /\ routine = "boot"
  /\ step = 1
  /\ word = 1
  /\ data = "zero"
  /\ error_code = 0
  /\ calibrated = TRUE
  /\ ut = "zero"
  /\ up = "zero"
  /\ environment = Placeholders
  /\ gap = 0
  /\ faults = 0
  /\ eocLate = FALSE
  /\ clean = TRUE

-----------------------------------------------------------------------------
(* Running a script *)

Call(r) == routine' = r /\ step' = 1 /\ data' = "zero"

\* Faulty variant: the index runs past the last calibration word.
NextWordUnbounded == word + 1

NextWord == IF word < CalibrationWords THEN word + 1 ELSE word

\* What a finished routine returns goes where its caller puts it.
Return(received) ==
  /\ calibrated' = (calibrated /\ (routine = "calibration" =>
                                     received = "calibration"))
  /\ ut' = IF routine = "tempRead" THEN received ELSE ut
  /\ up' = IF routine = "pressureRead" THEN received ELSE up
  /\ environment' =
       [environment EXCEPT
          !.temperature2 = IF routine = "SI7021_temperature" THEN received
                           ELSE @,
          !.humidity = IF routine = "SI7021_humidity" THEN received ELSE @]
  /\ word' = IF routine = "calibration" THEN NextWord ELSE word
  /\ Call(NextRoutine(routine))

\* The operation ended with this code and left received in data.
Advance(code, received) ==
  /\ error_code' = code
  /\ IF step < Len(Script[routine]) /\ (code = 0 \/ IgnoresErrors(routine))
     THEN /\ step' = step + 1
          /\ data' = received
          /\ UNCHANGED <<routine, word, resultVars>>
     ELSE Return(received)

Running(o) == routine \in Scripted /\ ~stuck /\ o = Script[routine][step]

\* The last operation of a pass starts a new account of what went wrong.
Blame(fault) ==
  clean' = (~fault /\ (clean \/ (routine = "SI7021_humidity"
                                  /\ routine' = "poll")))

i2cSendStart ==
  \E o \in {Start, Restart} :
    /\ Running(o)
    /\ owned' = TRUE
    /\ slave' = "none"
    /\ Advance(IF owned = (o = Restart) THEN 0 ELSE 10, data)
    /\ Blame(FALSE)
    /\ UNCHANGED <<twbr, stuck, sensorVars, gap, faults, eocLate>>

\* Only a master that owns the bus can have its bytes acknowledged.
SendAddress ==
  \E to \in {"bmpW", "bmpR", "siW", "siR"} :
    /\ Running(Op("address", to))
    /\ slave' = IF owned THEN to ELSE "none"
    /\ Advance(IF owned THEN 0 ELSE 100, data)
    /\ Blame(FALSE)
    /\ UNCHANGED <<twbr, owned, stuck, sensorVars, gap, faults, eocLate>>

\* The addressed sensor acts on the byte; nobody does when none answered.
SendByte ==
  \E b \in {"calibration", "result", "control", "temperature", "pressure",
            "T", "H"} :
    /\ Running(Op("data", b))
    /\ register' = IF slave = "bmpW" /\ b \in {"calibration", "result",
                                               "control"}
                   THEN b ELSE register
    /\ converting' = IF slave = "bmpW" /\ b \in {"temperature", "pressure"}
                     THEN b ELSE converting
    /\ command' = IF slave = "siW" THEN b ELSE command
    /\ Advance(IF slave \in {"bmpW", "siW"} THEN 0 ELSE 10, data)
    /\ Blame(FALSE)
    /\ UNCHANGED <<twbr, busVars, converted, gap, faults, eocLate>>

\* What the addressed sensor has to say.
Answer ==
  IF slave = "siR" THEN command
  ELSE IF slave # "bmpR" THEN "garbage"
  ELSE IF register = "result" THEN converted ELSE register

\* A word is known when its second byte is in; a byte lost from a word whose
\* routine goes on spoils it.
ReceiveByte ==
  \/ /\ Running(Op("receive", "msb"))
     /\ Advance(IF Answer = "garbage" THEN 10 ELSE 0,
                IF Answer = "garbage" THEN "garbage" ELSE "partial")
     /\ Blame(FALSE)
     /\ UNCHANGED <<twbr, busVars, sensorVars, gap, faults, eocLate>>
  \/ /\ Running(Op("receive", "lsb"))
     /\ Advance(IF Answer = "garbage" THEN 10 ELSE 0,
                IF data = "garbage" THEN data ELSE Answer)
     /\ Blame(FALSE)
     /\ UNCHANGED <<twbr, busVars, sensorVars, gap, faults, eocLate>>

i2cSendStop ==
  /\ Running(Stop)
  /\ owned' = FALSE
  /\ slave' = "none"
  /\ Advance(0, data)
  /\ Blame(FALSE)
  /\ UNCHANGED <<twbr, stuck, sensorVars, gap, faults, eocLate>>

SiDelay == 20000

DelayConversion ==
  /\ Running(Delay)
  /\ gap' = gap + SiDelay
  /\ Advance(error_code, data)
  /\ UNCHANGED <<twbr, busVars, sensorVars, faults, eocLate, clean>>

-----------------------------------------------------------------------------
(* What can go wrong with an operation *)

Fails == faults < MaxFaults /\ faults' = faults + 1

SpoiltData ==
  IF IgnoresErrors(routine) /\ Script[routine][step].op = "receive"
  THEN "garbage" ELSE data

\* The sensor does not acknowledge its address or a byte.
Refuse ==
  /\ Fails
  /\ \E o \in {Script[r][i] : r \in Scripted, i \in 1 .. 5} :
       o.op \in {"address", "data"} /\ Running(o)
  /\ slave' = "none"
  /\ Advance(10, data)
  /\ Blame(TRUE)
  /\ UNCHANGED <<twbr, owned, stuck, sensorVars, gap, eocLate>>

\* The operation does not complete while the clock is held.
Hang ==
  /\ Fails
  /\ routine \in Scripted
  /\ ~stuck
  /\ Script[routine][step].op # "delay"
  /\ stuck' = TRUE
  /\ UNCHANGED <<twbr, owned, slave, sensorVars, programVars, resultVars, gap,
                 eocLate, clean>>

\* Faulty variant: the wait has no bound.
GiveUpWaitingNever == stuck /\ UNCHANGED vars

\* The loop of i2cWaitForComplete or i2cSendStop runs out.  A START that was
\* requested may have been sent or not.
GiveUpWaiting ==
  /\ stuck
  /\ stuck' = FALSE
  /\ owned' \in IF Script[routine][step].op = "start" THEN {owned, TRUE}
                ELSE {owned}
  /\ slave' = "none"
  /\ Advance(100, SpoiltData)
  /\ Blame(TRUE)
  /\ UNCHANGED <<twbr, sensorVars, gap, faults, eocLate>>

-----------------------------------------------------------------------------
(* The BMP085's conversions and the loop on its EOC pin *)

ConversionEnds ==
  /\ converting # "none"
  /\ converted' = converting
  /\ converting' = "none"
  /\ UNCHANGED <<twbr, busVars, register, command, programVars, resultVars,
                 history>>

EocLimit == [tempWait |-> 5000, pressureWait |-> 15000]

ConversionTime == [tempWait |-> TempTime, pressureWait |-> PressureTime]

LeaveWait ==
  /\ Call(AfterWait(routine, error_code))
  /\ UNCHANGED <<twbr, busVars, sensorVars, word, error_code, resultVars,
                 faults>>

\* EOC is high: the conversion has ended, or none was started.
EocHigh ==
  /\ routine \in Waits
  /\ converting = "none"
  /\ gap' = gap + (IF error_code = 0 THEN ConversionTime[routine] ELSE 0)
  /\ LeaveWait
  /\ UNCHANGED <<eocLate, clean>>

\* The loop runs out, which sets no error code.
EocTimeout ==
  /\ routine \in Waits
  /\ converting # "none"
  /\ gap' = gap + EocLimit[routine]
  /\ eocLate' = TRUE
  /\ clean' = FALSE
  /\ LeaveWait

-----------------------------------------------------------------------------
(* main *)

SetBitrate ==
  /\ routine = "boot"
  /\ twbr' = i2cSetBitrate(1000)
  /\ Call("calibration")
  /\ UNCHANGED <<busVars, sensorVars, word, error_code, resultVars, history>>

\* The pass that starts here takes a measurement.  Passes that do not only
\* poll.
usbPoll ==
  /\ routine = "poll"
  /\ gap' = 0
  /\ ut' = "zero"
  /\ up' = "zero"
  /\ converted' = "old"
  /\ converting' = IF converting = "none" THEN "none" ELSE "old"
  /\ Call("tempCommand")
  /\ UNCHANGED <<twbr, busVars, register, command, word, error_code,
                 calibrated, environment, faults, eocLate, clean>>

\* The rest of bmp085Convert looks at no error code.  The pressure is
\* compensated with the temperature.
Convert ==
  /\ routine = "convert"
  /\ environment' =
       [environment EXCEPT
          !.temperature = IF calibrated THEN ut ELSE "uncalibrated",
          !.pressure = IF ~calibrated THEN "uncalibrated"
                       ELSE IF ut = "temperature" THEN up
                       ELSE "uncompensated"]
  /\ Call("SI7021_temperature")
  /\ UNCHANGED <<twbr, busVars, sensorVars, word, error_code, calibrated, ut,
                 up, history>>

ProgramStep ==
  \/ SetBitrate \/ usbPoll \/ Convert
  \/ i2cSendStart \/ SendAddress \/ SendByte \/ ReceiveByte \/ i2cSendStop
  \/ DelayConversion \/ EocHigh \/ EocTimeout \/ GiveUpWaiting

Fault == Refuse \/ Hang

Next == ProgramStep \/ Fault \/ ConversionEnds

Spec == Init /\ [][Next]_vars

\* Nothing but the hardware holds the program up, and its loops are bounded.
FairSpec == Spec /\ WF_vars(ProgramStep)

-----------------------------------------------------------------------------
(* Properties *)

Routines == Scripted \cup Waits \cup {"boot", "poll", "convert"}

Raw == {"zero", "partial", "calibration", "control", "old", "temperature",
        "pressure"}

\* Every variable stays within the values its use allows; in particular the
\* raw values are never a word of the SI7021.
SensorTypeOK ==
  /\ twbr \in 0 .. 255
  /\ slave \in {"none", "bmpW", "bmpR", "siW", "siR"}
  /\ slave # "none" => owned
  /\ register \in {"calibration", "result", "control"}
  /\ converting \in {"none", "old", "temperature", "pressure"}
  /\ converted \in {"old", "temperature", "pressure"}
  /\ command \in {"none", "T", "H"}
  /\ routine \in Routines
  /\ step \in 1 .. IF routine \in Scripted THEN Len(Script[routine]) ELSE 1
  /\ stuck => routine \in Scripted
  /\ word \in 1 .. CalibrationWords
  /\ error_code \in {0, 10, 100}
  /\ {ut, up} \subseteq Raw
  /\ data \in Raw \cup {"garbage", "none", "T", "H"}
  /\ faults \in 0 .. MaxFaults

\* As long as conversions end before the EOC loops run out, no error on the
\* bus makes the program take one quantity for another or an old one for a
\* new one: of what it did not read both bytes are zero, or the low one is.
QuantitiesNotConfused ==
  ~eocLate =>
    /\ ut \in {"zero", "partial", "temperature"}
    /\ up \in {"zero", "partial", "pressure"}

\* The STOP of the last measurement is still to be sent.
PassEnds ==
  routine = "SI7021_humidity" /\ step = Len(Script["SI7021_humidity"])

\* One undisturbed pass is enough to recover from any disturbance of the bus
\* since boot, although the BMP085's routines leave the bus owned when they
\* fail and then do not accept the repeated START they cause: it is the
\* SI7021's unconditional STOP that frees the bus for the next pass.
RecoversInOnePass ==
  clean =>
    /\ routine \in SI7021 => ut = "temperature" /\ up = "pressure"
    /\ PassEnds => environment.temperature2 = "T" /\ data = "H"

\* However the sensors misbehave, the main loop gets back to usbPoll: no wait
\* on the bus or on a sensor is without a bound.
PollsAgain == []<>(routine = "poll")

\* usbdrv.h on usbPoll: "Maximum delay between calls is somewhat less than
\* 50ms".  So it should be at least while the BMP085 converts in time.
PollGap == ~eocLate => gap < 50000
=============================================================================
