---------------------------- MODULE SensorProofs ----------------------------
(* What the readings and the bus can rely on, for any number of calibration *)
(* words and of failures, and whatever time conversions take.               *)
EXTENDS SensorBus, TLAPS

Reads == {"calibration", "tempRead", "pressureRead"}
Commands == {"tempCommand", "pressureCommand"}

\* The register a routine of the BMP085 reads, and the letter a measurement of
\* the SI7021 is about.
Target(r) == IF r = "calibration" THEN "calibration" ELSE "result"
Letter(r) == IF r = "SI7021_temperature" THEN "T" ELSE "H"

EnvironmentOK ==
  environment \in [{"temperature", "pressure", "temperature2", "humidity"} ->
    Raw \cup {"garbage", "none", "T", "H", "placeholder", "uncalibrated",
              "uncompensated"}]

\* A routine of the BMP085 goes on only after a success: the step it has
\* reached tells what the bus and the sensor have done.
ReadOK ==
  routine \in Reads =>
    /\ step > 1 => owned
    /\ step \in 3 .. 4 => slave = "bmpW"
    /\ step \in 6 .. 8 => slave = "bmpR"
    /\ step >= 4 => register = Target(routine)
    /\ step <= 6 => data = "zero"
    /\ step = 7 => data = "partial"
    /\ step = 8 => data \in IF routine = "calibration" THEN {"calibration"}
                            ELSE {"old", "temperature", "pressure"}

CommandOK ==
  routine \in Commands =>
    /\ step > 1 => owned
    /\ step \in 3 .. 5 => slave = "bmpW"

\* The conversion of this quantity is over, or under way.
Ended(q) == converting = "none" /\ converted = q
Started(q) == converting = q \/ Ended(q)

\* What the pass waits for or reads is the conversion it has commanded.
Follows(q, cmd, wait, read) ==
  /\ routine = cmd /\ step = 5 => Started(q)
  /\ routine = wait /\ error_code = 0 => Started(q)
  /\ routine = read => Ended(q)
  /\ routine = read /\ step = 8 => data = q

QuantityOK ==
  ~eocLate \/ clean =>
    /\ Follows("temperature", "tempCommand", "tempWait", "tempRead")
    /\ Follows("pressure", "pressureCommand", "pressureWait", "pressureRead")

ValuesOK == QuantitiesNotConfused

\* An undisturbed pass finds the bus free, succeeds in every step and has what
\* it has read so far.
CleanBus ==
  clean => /\ routine \notin Scripted \/ step = 1 => ~owned
           /\ routine \in Waits => error_code = 0

CleanValues ==
  clean =>
    /\ routine \in {"pressureCommand", "pressureWait", "pressureRead",
                    "convert"} \cup SI7021 => ut = "temperature"
    /\ routine \in {"convert"} \cup SI7021 => up = "pressure"
    /\ routine = "SI7021_humidity" => environment["temperature2"] = "T"

CleanMeasure ==
  clean /\ routine \in SI7021 =>
    /\ step > 1 => owned
    /\ step \in 3 .. 5 => slave = "siW"
    /\ step >= 4 => command = Letter(routine)
    /\ step \in 7 .. 9 => slave = "siR"
    /\ step = 8 => data = "partial"
    /\ step = 9 => data = Letter(routine)

Flags == /\ owned \in BOOLEAN /\ stuck \in BOOLEAN
         /\ eocLate \in BOOLEAN /\ clean \in BOOLEAN

IInv ==
  /\ SensorTypeOK
  /\ Flags
  /\ EnvironmentOK
  /\ ReadOK
  /\ CommandOK
  /\ QuantityOK
  /\ ValuesOK
  /\ CleanBus
  /\ CleanValues
  /\ CleanMeasure

-----------------------------------------------------------------------------
(* The scripts *)

LEMMA Elements5 ==
  ASSUME NEW a, NEW b, NEW c, NEW d, NEW e, NEW s, s = <<a, b, c, d, e>>
  PROVE  /\ Len(s) = 5
         /\ s[1] = a /\ s[2] = b /\ s[3] = c /\ s[4] = d /\ s[5] = e
  OBVIOUS

LEMMA Elements8 ==
  ASSUME NEW a, NEW b, NEW c, NEW d, NEW e, NEW f, NEW g, NEW h,
         NEW s, s = <<a, b, c, d, e, f, g, h>>
  PROVE  /\ Len(s) = 8
         /\ s[1] = a /\ s[2] = b /\ s[3] = c /\ s[4] = d
         /\ s[5] = e /\ s[6] = f /\ s[7] = g /\ s[8] = h
  OBVIOUS

LEMMA Elements9 ==
  ASSUME NEW a, NEW b, NEW c, NEW d, NEW e, NEW f, NEW g, NEW h, NEW i,
         NEW s, s = <<a, b, c, d, e, f, g, h, i>>
  PROVE  /\ Len(s) = 9
         /\ s[1] = a /\ s[2] = b /\ s[3] = c /\ s[4] = d /\ s[5] = e
         /\ s[6] = f /\ s[7] = g /\ s[8] = h /\ s[9] = i
  OBVIOUS

LEMMA ReadScript ==
  ASSUME NEW r \in Reads
  PROVE  /\ Len(Script[r]) = 8
         /\ Script[r][1] = Start
         /\ Script[r][2] = Op("address", "bmpW")
         /\ Script[r][3] = Op("data", Target(r))
         /\ Script[r][4] = Restart
         /\ Script[r][5] = Op("address", "bmpR")
         /\ Script[r][6] = Op("receive", "msb")
         /\ Script[r][7] = Op("receive", "lsb")
         /\ Script[r][8] = Stop
<1>1. Script[r] = bmp085ReadShort(Target(r))
  BY DEF Script, Scripted, Reads, Target
<1>. QED
  BY <1>1, Elements8 DEF bmp085ReadShort

Quantity(r) == IF r = "tempCommand" THEN "temperature" ELSE "pressure"

LEMMA CommandScript ==
  ASSUME NEW r \in Commands
  PROVE  /\ Len(Script[r]) = 5
         /\ Script[r][1] = Start
         /\ Script[r][2] = Op("address", "bmpW")
         /\ Script[r][3] = Op("data", "control")
         /\ Script[r][4] = Op("data", Quantity(r))
         /\ Script[r][5] = Stop
<1>1. Script[r] = ConversionCommand(Quantity(r))
  BY DEF Script, Scripted, Commands, Quantity
<1>. QED
  BY <1>1, Elements5 DEF ConversionCommand

LEMMA MeasureScript ==
  ASSUME NEW r \in SI7021
  PROVE  /\ Len(Script[r]) = 9
         /\ Script[r][1] = Start
         /\ Script[r][2] = Op("address", "siW")
         /\ Script[r][3] = Op("data", Letter(r))
         /\ Script[r][4] = Delay
         /\ Script[r][5] = Restart
         /\ Script[r][6] = Op("address", "siR")
         /\ Script[r][7] = Op("receive", "msb")
         /\ Script[r][8] = Op("receive", "lsb")
         /\ Script[r][9] = Stop
<1>1. Script[r] = SI70XX_Sensor_Measure(Letter(r))
  BY DEF Script, Scripted, SI7021, Letter
<1>2. Script[r] = <<Start, Op("address", "siW"), Op("data", Letter(r)),
                    Delay, Restart, Op("address", "siR"),
                    Op("receive", "msb"), Op("receive", "lsb"), Stop>>
  BY <1>1 DEF SI70XX_Sensor_Measure
<1>. QED
  BY <1>2, Elements9

LEMMA Kinds == routine \in Scripted <=> routine \in Reads \cup Commands \cup SI7021
  BY DEF Scripted, Reads, Commands, SI7021

LEMMA OpFields ==
  ASSUME NEW x, NEW y
  PROVE  Op(x, y)["op"] = x /\ Op(x, y)["arg"] = y
  BY DEF Op

At(o, kind, what) == o["op"] = kind /\ o["arg"] = what

LEMMA OpAt ==
  ASSUME NEW x, NEW y
  PROVE  At(Op(x, y), x, y)
  BY OpFields DEF At

LEMMA StartStopAt ==
  /\ At(Start, "start", "START")
  /\ At(Restart, "start", "REP_START")
  /\ At(Stop, "stop", "STOP")
  /\ At(Delay, "delay", "conversion")
  BY OpAt DEF Start, Restart, Stop, Delay

\* What a routine runs at each position of its script.
LEMMA Operations ==
  ASSUME SensorTypeOK, NEW o, Running(o)
  PROVE  /\ routine \in Reads =>
              /\ Len(Script[routine]) = 8
              /\ \/ step = 1 /\ At(o, "start", "START")
                 \/ step = 2 /\ At(o, "address", "bmpW")
                 \/ step = 3 /\ At(o, "data", Target(routine))
                 \/ step = 4 /\ At(o, "start", "REP_START")
                 \/ step = 5 /\ At(o, "address", "bmpR")
                 \/ step = 6 /\ At(o, "receive", "msb")
                 \/ step = 7 /\ At(o, "receive", "lsb")
                 \/ step = 8 /\ At(o, "stop", "STOP")
         /\ routine \in Commands =>
              /\ Len(Script[routine]) = 5
              /\ \/ step = 1 /\ At(o, "start", "START")
                 \/ step = 2 /\ At(o, "address", "bmpW")
                 \/ step = 3 /\ At(o, "data", "control")
                 \/ step = 4 /\ At(o, "data", Quantity(routine))
                 \/ step = 5 /\ At(o, "stop", "STOP")
         /\ routine \in SI7021 =>
              /\ Len(Script[routine]) = 9
              /\ \/ step = 1 /\ At(o, "start", "START")
                 \/ step = 2 /\ At(o, "address", "siW")
                 \/ step = 3 /\ At(o, "data", Letter(routine))
                 \/ step = 4 /\ At(o, "delay", "conversion")
                 \/ step = 5 /\ At(o, "start", "REP_START")
                 \/ step = 6 /\ At(o, "address", "siR")
                 \/ step = 7 /\ At(o, "receive", "msb")
                 \/ step = 8 /\ At(o, "receive", "lsb")
                 \/ step = 9 /\ At(o, "stop", "STOP")
<1>1. /\ routine \in Scripted
      /\ o = Script[routine][step]
      /\ step \in 1 .. Len(Script[routine])
  BY DEF Running, SensorTypeOK
<1>2. CASE routine \in Reads
  <2>1. routine \notin Commands \cup SI7021
    BY <1>2 DEF Reads, Commands, SI7021
  <2>2. Len(Script[routine]) = 8 /\ step \in 1 .. 8
    BY <1>1, <1>2, ReadScript
  <2>3. \/ step = 1 /\ o = Start
        \/ step = 2 /\ o = Op("address", "bmpW")
        \/ step = 3 /\ o = Op("data", Target(routine))
        \/ step = 4 /\ o = Restart
        \/ step = 5 /\ o = Op("address", "bmpR")
        \/ step = 6 /\ o = Op("receive", "msb")
        \/ step = 7 /\ o = Op("receive", "lsb")
        \/ step = 8 /\ o = Stop
    BY <1>1, <1>2, <2>2, ReadScript
  <2>. QED
    BY <2>1, <2>2, <2>3, OpAt, StartStopAt
<1>3. CASE routine \in Commands
  <2>1. routine \notin Reads \cup SI7021
    BY <1>3 DEF Reads, Commands, SI7021
  <2>2. Len(Script[routine]) = 5 /\ step \in 1 .. 5
    BY <1>1, <1>3, CommandScript
  <2>3. \/ step = 1 /\ o = Start
        \/ step = 2 /\ o = Op("address", "bmpW")
        \/ step = 3 /\ o = Op("data", "control")
        \/ step = 4 /\ o = Op("data", Quantity(routine))
        \/ step = 5 /\ o = Stop
    BY <1>1, <1>3, <2>2, CommandScript
  <2>. QED
    BY <2>1, <2>2, <2>3, OpAt, StartStopAt
<1>4. CASE routine \in SI7021
  <2>1. routine \notin Commands \cup Reads
    BY <1>4 DEF Reads, Commands, SI7021
  <2>2. Len(Script[routine]) = 9 /\ step \in 1 .. 9
    BY <1>1, <1>4, MeasureScript
  <2>3. \/ step = 1 /\ o = Start
        \/ step = 2 /\ o = Op("address", "siW")
        \/ step = 3 /\ o = Op("data", Letter(routine))
        \/ step = 4 /\ o = Delay
        \/ step = 5 /\ o = Restart
        \/ step = 6 /\ o = Op("address", "siR")
        \/ step = 7 /\ o = Op("receive", "msb")
        \/ step = 8 /\ o = Op("receive", "lsb")
        \/ step = 9 /\ o = Stop
    BY <1>1, <1>4, <2>2, MeasureScript
  <2>. QED
    BY <2>1, <2>2, <2>3, OpAt, StartStopAt
<1>. QED
  BY <1>1, <1>2, <1>3, <1>4, Kinds
-----------------------------------------------------------------------------
(* Where in its script a routine can be that runs this operation *)

LEMMA ScriptLengths ==
  \A r \in Scripted : Len(Script[r]) = IF r \in Reads THEN 8
                                       ELSE IF r \in Commands THEN 5 ELSE 9
  BY ReadScript, CommandScript, MeasureScript
     DEF Scripted, Reads, Commands, SI7021

LEMMA Positions ==
  ASSUME SensorTypeOK, NEW kind, NEW what, NEW o, Running(o),
         At(o, kind, what)
  PROVE  /\ routine \in Scripted /\ ~stuck /\ step \in Int
         /\ kind = "start" =>
              \/ step = 1 /\ what = "START"
              \/ routine \in Reads /\ step = 4 /\ what = "REP_START"
              \/ routine \in SI7021 /\ step = 5 /\ what = "REP_START"
         /\ kind = "address" =>
              \/ routine \in Reads \cup Commands /\ step = 2 /\ what = "bmpW"
              \/ routine \in Reads /\ step = 5 /\ what = "bmpR"
              \/ routine \in SI7021 /\ step = 2 /\ what = "siW"
              \/ routine \in SI7021 /\ step = 6 /\ what = "siR"
         /\ kind = "data" =>
              \/ routine \in Reads /\ step = 3 /\ what = Target(routine)
              \/ routine \in Commands /\ step = 3 /\ what = "control"
              \/ routine \in Commands /\ step = 4 /\ what = Quantity(routine)
              \/ routine \in SI7021 /\ step = 3 /\ what = Letter(routine)
         /\ kind = "receive" =>
              \/ routine \in Reads /\ step = 6 /\ what = "msb"
              \/ routine \in Reads /\ step = 7 /\ what = "lsb"
              \/ routine \in SI7021 /\ step = 7 /\ what = "msb"
              \/ routine \in SI7021 /\ step = 8 /\ what = "lsb"
         /\ kind = "delay" => routine \in SI7021 /\ step = 4
         /\ kind = "stop" =>
              \/ routine \in Reads /\ step = 8
              \/ routine \in Commands /\ step = 5
              \/ routine \in SI7021 /\ step = 9
<1>1. routine \in Scripted /\ ~stuck /\ step \in Int
  <2>1. routine \in Scripted /\ ~stuck
    BY DEF Running
  <2>. QED
    BY <2>1, ScriptLengths DEF SensorTypeOK
<1>2. o["op"] = kind /\ o["arg"] = what
  BY DEF At
<1>3. CASE routine \in Reads
  BY <1>1, <1>2, <1>3, Operations DEF At
<1>4. CASE routine \in Commands
  BY <1>1, <1>2, <1>4, Operations DEF At
<1>5. CASE routine \in SI7021
  BY <1>1, <1>2, <1>5, Operations DEF At
<1>. QED
  BY <1>1, <1>3, <1>4, <1>5, Kinds

-----------------------------------------------------------------------------
(* What an operation leads to *)

\* The routine goes on with the next operation of its script.
GoesOn(received) ==
  /\ step < Len(Script[routine])
  /\ step' = step + 1
  /\ routine' = routine
  /\ data' = received
  /\ UNCHANGED <<word, calibrated, ut, up, environment>>

LEMMA AdvanceCases ==
  ASSUME NEW code, NEW received, Advance(code, received)
  PROVE  /\ error_code' = code
         /\ \/ GoesOn(received) /\ (code = 0 \/ routine \in SI7021)
            \/ /\ Return(received)
               /\ \/ ~(step < Len(Script[routine]))
                  \/ code # 0 /\ routine \notin SI7021
  BY DEF Advance, GoesOn, IgnoresErrors, resultVars

LEMMA NextRoutines ==
  /\ NextRoutine("calibration") \in {"calibration", "poll"}
  /\ NextRoutine("tempCommand") = "tempWait"
  /\ NextRoutine("tempRead") = "pressureCommand"
  /\ NextRoutine("pressureCommand") = "pressureWait"
  /\ NextRoutine("pressureRead") = "convert"
  /\ NextRoutine("SI7021_temperature") = "SI7021_humidity"
  /\ NextRoutine("SI7021_humidity") = "poll"
  BY DEF NextRoutine

\* The part of SensorTypeOK that a script does not depend on.
HardwareOK ==
  /\ twbr \in 0 .. 255
  /\ slave \in {"none", "bmpW", "bmpR", "siW", "siR"}
  /\ slave # "none" => owned
  /\ register \in {"calibration", "result", "control"}
  /\ converting \in {"none", "old", "temperature", "pressure"}
  /\ converted \in {"old", "temperature", "pressure"}
  /\ command \in {"none", "T", "H"}
  /\ error_code \in {0, 10, 100}
  /\ faults \in 0 .. MaxFaults
  /\ Flags

Bytes == Raw \cup {"garbage", "none", "T", "H"}

\* A routine may return when what it has read and done is what its caller
\* takes it for.
MayReturn(received) ==
  /\ routine \in Scripted
  /\ HardwareOK' /\ ~stuck'
  /\ received \in Bytes
  /\ routine \in {"tempRead", "pressureRead"} => received \in Raw
  /\ ~eocLate /\ routine = "tempRead" =>
       received \in {"zero", "partial", "temperature"}
  /\ ~eocLate /\ routine = "pressureRead" =>
       received \in {"zero", "partial", "pressure"}
  /\ eocLate' = eocLate
  /\ clean' => clean \/ routine = "SI7021_humidity"
  /\ (~eocLate \/ clean) /\ error_code' = 0 =>
       /\ routine = "tempCommand" => Started("temperature")'
       /\ routine = "pressureCommand" => Started("pressure")'
  /\ clean' =>
       /\ ~owned'
       /\ routine \in Commands => error_code' = 0
       /\ routine = "tempRead" => received = "temperature"
       /\ routine = "pressureRead" => received = "pressure"
       /\ routine = "SI7021_temperature" => received = "T"

LEMMA Returned ==
  ASSUME IInv, NEW received, MayReturn(received), Return(received)
  PROVE  IInv'
<1>1. /\ routine \in Scripted /\ routine' = NextRoutine(routine)
      /\ step' = 1 /\ data' = "zero"
  BY DEF Return, Call, MayReturn
<1>2. routine' \in {"calibration", "poll", "tempWait", "pressureCommand",
                    "pressureWait", "convert", "SI7021_humidity"}
  BY <1>1, NextRoutines DEF Scripted
<1>3. SensorTypeOK'
  <2>1. routine' \in Routines
    BY <1>2 DEF Routines, Scripted, Waits
  <2>2. step' \in 1 .. IF routine' \in Scripted THEN Len(Script[routine']) ELSE 1
    BY <1>1, ScriptLengths
  <2>3. word' \in 1 .. CalibrationWords
    BY WordsAssumption DEF Return, NextWord, IInv, SensorTypeOK
  <2>4. {ut', up'} \subseteq Raw
    BY DEF Return, MayReturn, IInv, SensorTypeOK
  <2>5. data' \in Raw \cup {"garbage", "none", "T", "H"}
    BY <1>1 DEF Raw
  <2>. QED
    BY <2>1, <2>2, <2>3, <2>4, <2>5 DEF MayReturn, HardwareOK, SensorTypeOK
<1>4. EnvironmentOK'
  <2>1. EnvironmentOK
    BY DEF IInv
  <2>. QED
    BY <2>1 DEF Return, EnvironmentOK, MayReturn, Bytes
<1>5. ReadOK' /\ CommandOK' /\ CleanMeasure'
  BY <1>1 DEF ReadOK, CommandOK, CleanMeasure
<1>6. QuantityOK'
  <2>1. clean' => clean \/ routine' = "poll"
    BY <1>1, NextRoutines DEF MayReturn
  <2>2. routine' = "tempWait" => routine = "tempCommand"
    BY <1>1, NextRoutines DEF Scripted
  <2>3. routine' = "pressureWait" => routine = "pressureCommand"
    BY <1>1, NextRoutines DEF Scripted
  <2>. QED
    BY <1>1, <1>2, <2>1, <2>2, <2>3 DEF QuantityOK, Follows, MayReturn
<1>7. ValuesOK'
  BY DEF ValuesOK, QuantitiesNotConfused, Return, MayReturn, IInv
<1>8. CleanBus'
  BY <1>1, <1>2, NextRoutines
     DEF CleanBus, MayReturn, Scripted, Waits, Commands
<1>9. CleanValues'
  <2>1. CleanValues
    BY DEF IInv
  <2>. QED
    BY <1>1, <1>2, <2>1, NextRoutines, <1>4
       DEF CleanValues, MayReturn, Return, Scripted, SI7021, IInv, EnvironmentOK
<1>10. Flags'
  BY DEF MayReturn, HardwareOK
<1>. QED
  BY <1>3, <1>4, <1>5, <1>6, <1>7, <1>8, <1>9, <1>10 DEF IInv

\* A routine may go on when what it has read and done is what its next
\* operation relies on.
MayGoOn ==
  /\ routine \in Scripted
  /\ HardwareOK' /\ ~stuck'
  /\ data' \in Bytes
  /\ eocLate' = eocLate
  /\ clean' => clean
  /\ ReadOK' /\ CommandOK' /\ CleanMeasure'
  /\ ~eocLate \/ clean =>
       /\ routine = "tempCommand" /\ step = 4 => Started("temperature")'
       /\ routine = "pressureCommand" /\ step = 4 => Started("pressure")'
       /\ routine = "tempRead" =>
            Ended("temperature")' /\ (step = 7 => data' = "temperature")
       /\ routine = "pressureRead" =>
            Ended("pressure")' /\ (step = 7 => data' = "pressure")

LEMMA WentOn ==
  ASSUME IInv, NEW received, GoesOn(received), MayGoOn
  PROVE  IInv'
<1>1. /\ routine \in Scripted /\ routine' = routine /\ step' = step + 1
      /\ UNCHANGED <<word, calibrated, ut, up, environment>>
      /\ step \in 1 .. Len(Script[routine]) /\ step < Len(Script[routine])
      /\ step \in Int
  BY ScriptLengths DEF GoesOn, MayGoOn, IInv, SensorTypeOK
<1>2. SensorTypeOK'
  <2>1. step' \in 1 .. Len(Script[routine])
    BY <1>1, ScriptLengths
  <2>. QED
    BY <1>1, <2>1 DEF IInv, SensorTypeOK, MayGoOn, HardwareOK, Bytes
<1>3. EnvironmentOK' /\ ReadOK' /\ CommandOK' /\ CleanMeasure'
  BY <1>1 DEF IInv, EnvironmentOK, MayGoOn
<1>4. QuantityOK'
  BY <1>1 DEF QuantityOK, Follows, MayGoOn, Scripted
<1>5. ValuesOK'
  BY <1>1 DEF ValuesOK, QuantitiesNotConfused, IInv, MayGoOn
<1>6. CleanBus' /\ CleanValues'
  BY <1>1 DEF CleanBus, CleanValues, MayGoOn, IInv, Scripted, Waits
<1>7. Flags'
  BY DEF MayGoOn, HardwareOK
<1>. QED
  BY <1>2, <1>3, <1>4, <1>5, <1>6, <1>7 DEF IInv

-----------------------------------------------------------------------------
(* One lemma per action *)

LEMMA HardwareNow ==
  ASSUME IInv
  PROVE  HardwareOK
  BY DEF IInv, HardwareOK, SensorTypeOK

LEMMA BlameNobody ==
  ASSUME IInv, Blame(FALSE)
  PROVE  /\ clean' \in BOOLEAN
         /\ clean' => clean \/ routine = "SI7021_humidity"
         /\ routine' = routine => (clean' => clean)
  BY DEF Blame, IInv, Flags

LEMMA BlameSomebody ==
  ASSUME Blame(TRUE)
  PROVE  clean' = FALSE
  BY DEF Blame

LEMMA StopStep ==
  ASSUME IInv, i2cSendStop
  PROVE  IInv'
<1>1. /\ Running(Stop) /\ owned' = FALSE /\ slave' = "none"
      /\ Advance(0, data) /\ Blame(FALSE)
      /\ UNCHANGED <<twbr, stuck, register, converting, converted, command,
                     faults, eocLate>>
  BY DEF i2cSendStop, sensorVars
<1>2. SensorTypeOK /\ routine \in Scripted /\ ~stuck
  BY <1>1 DEF IInv, Running
<1>3. \/ routine \in Reads /\ step = 8
      \/ routine \in Commands /\ step = 5
      \/ routine \in SI7021 /\ step = 9
  BY <1>1, <1>2, Positions, StartStopAt
<1>4. Return(data) /\ error_code' = 0
  <2>1. error_code' = 0 /\ (GoesOn(data) \/ Return(data))
    BY <1>1, AdvanceCases
  <2>2. ~(step < Len(Script[routine]))
    BY <1>2, <1>3, ScriptLengths DEF Reads, Commands, SI7021
  <2>3. ~GoesOn(data)
    BY <2>2 DEF GoesOn
  <2>. QED
    BY <2>1, <2>3
<1>5. MayReturn(data)
  <2>1. HardwareOK' /\ ~stuck'
    BY <1>1, <1>2, <1>4, HardwareNow, BlameNobody DEF HardwareOK, Flags
  <2>2. data \in Bytes
    BY <1>2 DEF SensorTypeOK, Bytes
  <2>3. /\ routine \in {"tempRead", "pressureRead"} =>
             data \in {"old", "temperature", "pressure"}
        /\ (~eocLate \/ clean) =>
             /\ routine = "tempRead" => data = "temperature"
             /\ routine = "pressureRead" => data = "pressure"
             /\ routine = "tempCommand" => Started("temperature")
             /\ routine = "pressureCommand" => Started("pressure")
    BY <1>3 DEF IInv, ReadOK, QuantityOK, Follows, Reads, Commands, SI7021
  <2>4. clean /\ routine \in SI7021 => data = Letter(routine)
    BY <1>3 DEF IInv, CleanMeasure, Reads, Commands, SI7021
  <2>. QED
    BY <1>1, <1>2, <1>4, <2>1, <2>2, <2>3, <2>4, BlameNobody
       DEF MayReturn, Started, Ended, Raw, Letter, SI7021
<1>. QED
  BY <1>4, <1>5, Returned

LEMMA StartStep ==
  ASSUME IInv, i2cSendStart
  PROVE  IInv'
<1>1. PICK o \in {Start, Restart} :
        /\ Running(o) /\ owned' = TRUE /\ slave' = "none"
        /\ Advance(IF owned = (o = Restart) THEN 0 ELSE 10, data)
        /\ Blame(FALSE)
        /\ UNCHANGED <<twbr, stuck, register, converting, converted, command,
                       faults, eocLate>>
  BY DEF i2cSendStart, sensorVars
<1>. DEFINE code == IF owned = (o = Restart) THEN 0 ELSE 10
<1>2. SensorTypeOK
  BY DEF IInv
<1>3. /\ routine \in Scripted /\ ~stuck /\ step \in Int
      /\ \/ o = Start /\ step = 1 /\ code = IF owned THEN 10 ELSE 0
         \/ /\ o = Restart /\ code = IF owned THEN 0 ELSE 10
            /\ \/ routine \in Reads /\ step = 4
               \/ routine \in SI7021 /\ step = 5
  <2>1. At(Start, "start", "START") /\ At(Restart, "start", "REP_START")
    BY StartStopAt
  <2>2. Start # Restart
    BY <2>1 DEF At
  <2>3. CASE o = Start
    BY <1>1, <1>2, <2>1, <2>2, <2>3, Positions DEF IInv, Flags
  <2>4. CASE o = Restart
    BY <1>1, <1>2, <2>1, <2>2, <2>4, Positions DEF IInv, Flags
  <2>. QED
    BY <2>3, <2>4
<1>4. /\ error_code' = code
      /\ \/ GoesOn(data) /\ (code = 0 \/ routine \in SI7021)
         \/ Return(data) /\ code # 0 /\ routine \notin SI7021
  <2>1. step < Len(Script[routine])
    BY <1>2, <1>3, ScriptLengths DEF Reads, Commands, SI7021
  <2>. QED
    BY <1>1, <2>1, AdvanceCases
<1>5. HardwareOK' /\ ~stuck' /\ data \in Bytes
  <2>1. error_code' \in {0, 10}
    BY <1>3, <1>4
  <2>. QED
    BY <1>1, <1>2, <1>3, <2>1, HardwareNow, BlameNobody
       DEF HardwareOK, Flags, SensorTypeOK, Bytes
<1>6. CASE GoesOn(data)
  <2>1. routine' = routine /\ step' = step + 1 /\ data' = data
    BY <1>6 DEF GoesOn
  <2>2. clean' => clean
    BY <1>1, <2>1, BlameNobody
  <2>3. ReadOK' /\ CommandOK' /\ CleanMeasure'
    BY <1>1, <1>3, <2>1, <2>2
       DEF IInv, ReadOK, CommandOK, CleanMeasure, Reads, Commands, SI7021
  <2>4. ~eocLate \/ clean =>
          /\ routine = "tempRead" => Ended("temperature")'
          /\ routine = "pressureRead" => Ended("pressure")'
    BY <1>1 DEF IInv, QuantityOK, Follows, Ended
  <2>5. /\ ~(routine \in Commands /\ step = 4)
        /\ ~(routine \in Reads /\ step = 7)
    BY <1>3 DEF Reads, Commands, SI7021
  <2>6. MayGoOn
    BY <1>1, <1>3, <1>5, <2>1, <2>2, <2>3, <2>4, <2>5
       DEF MayGoOn, Reads, Commands
  <2>. QED
    BY <1>6, <2>6, WentOn
<1>7. CASE Return(data) /\ code # 0 /\ routine \notin SI7021
  <2>1. ~clean'
    <3>1. clean => code = 0
      BY <1>3, <1>7 DEF IInv, ReadOK, CleanBus
    <3>. QED
      BY <1>1, <1>7, <3>1, BlameNobody DEF SI7021
  <2>2. routine \in Reads => data = "zero"
    BY <1>3, <1>7 DEF IInv, ReadOK
  <2>3. MayReturn(data)
    BY <1>1, <1>3, <1>4, <1>5, <1>7, <2>1, <2>2
       DEF MayReturn, Reads, Raw
  <2>. QED
    BY <1>7, <2>3, Returned
<1>. QED
  BY <1>4, <1>6, <1>7

LEMMA AddressStep ==
  ASSUME IInv, SendAddress
  PROVE  IInv'
<1>1. PICK to \in {"bmpW", "bmpR", "siW", "siR"} :
        /\ Running(Op("address", to))
        /\ slave' = IF owned THEN to ELSE "none"
        /\ Advance(IF owned THEN 0 ELSE 100, data) /\ Blame(FALSE)
        /\ UNCHANGED <<twbr, owned, stuck, register, converting, converted,
                       command, faults, eocLate>>
  BY DEF SendAddress, sensorVars
<1>2. SensorTypeOK
  BY DEF IInv
<1>3. /\ routine \in Scripted /\ ~stuck /\ step \in Int
      /\ \/ routine \in Reads \cup Commands /\ step = 2 /\ to = "bmpW"
         \/ routine \in Reads /\ step = 5 /\ to = "bmpR"
         \/ routine \in SI7021 /\ step = 2 /\ to = "siW"
         \/ routine \in SI7021 /\ step = 6 /\ to = "siR"
  BY <1>1, <1>2, Positions, OpAt
<1>4. routine \in Reads \cup Commands => owned
  BY <1>3 DEF IInv, ReadOK, CommandOK
<1>5. GoesOn(data) /\ error_code' \in {0, 100}
  <2>1. step < Len(Script[routine])
    BY <1>3, ScriptLengths DEF Reads, Commands, SI7021
  <2>. QED
    BY <1>1, <1>3, <1>4, <2>1, AdvanceCases
<1>6. /\ routine' = routine /\ step' = step + 1 /\ data' = data
      /\ clean' => clean
  BY <1>1, <1>5, BlameNobody DEF GoesOn
<1>7. HardwareOK' /\ ~stuck' /\ data \in Bytes
  BY <1>1, <1>2, <1>3, <1>5, HardwareNow, BlameNobody
     DEF HardwareOK, Flags, SensorTypeOK, Bytes
<1>8. ReadOK' /\ CommandOK' /\ CleanMeasure'
  BY <1>1, <1>3, <1>4, <1>6
     DEF IInv, ReadOK, CommandOK, CleanMeasure, Reads, Commands, SI7021
<1>9. MayGoOn
  <2>1. ~eocLate \/ clean =>
          /\ routine = "tempRead" => Ended("temperature")'
          /\ routine = "pressureRead" => Ended("pressure")'
    BY <1>1 DEF IInv, QuantityOK, Follows, Ended
  <2>2. /\ ~(routine \in Commands /\ step = 4)
        /\ ~(routine \in Reads /\ step = 7)
    BY <1>3 DEF Reads, Commands, SI7021
  <2>. QED
    BY <1>1, <1>3, <1>6, <1>7, <1>8, <2>1, <2>2
       DEF MayGoOn, Reads, Commands
<1>. QED
  BY <1>5, <1>9, WentOn

LEMMA ByteStep ==
  ASSUME IInv, SendByte
  PROVE  IInv'
<1>1. PICK b \in {"calibration", "result", "control", "temperature",
                  "pressure", "T", "H"} :
        /\ Running(Op("data", b))
        /\ register' = IF slave = "bmpW" /\ b \in {"calibration", "result",
                                                   "control"}
                       THEN b ELSE register
        /\ converting' = IF slave = "bmpW" /\ b \in {"temperature", "pressure"}
                         THEN b ELSE converting
        /\ command' = IF slave = "siW" THEN b ELSE command
        /\ Advance(IF slave \in {"bmpW", "siW"} THEN 0 ELSE 10, data)
        /\ Blame(FALSE)
        /\ UNCHANGED <<twbr, owned, slave, stuck, converted, faults, eocLate>>
  BY DEF SendByte, busVars
<1>2. SensorTypeOK
  BY DEF IInv
<1>3. /\ routine \in Scripted /\ ~stuck /\ step \in Int
      /\ \/ routine \in Reads /\ step = 3 /\ b = Target(routine)
         \/ routine \in Commands /\ step = 3 /\ b = "control"
         \/ routine \in Commands /\ step = 4 /\ b = Quantity(routine)
         \/ routine \in SI7021 /\ step = 3 /\ b = Letter(routine)
  BY <1>1, <1>2, Positions, OpAt
<1>4. routine \in Reads \cup Commands => owned /\ slave = "bmpW"
  BY <1>3 DEF IInv, ReadOK, CommandOK, Reads, Commands, SI7021
<1>5. GoesOn(data) /\ error_code' \in {0, 10}
  <2>1. step < Len(Script[routine])
    BY <1>3, ScriptLengths DEF Reads, Commands, SI7021
  <2>. QED
    BY <1>1, <1>3, <1>4, <2>1, AdvanceCases
<1>6. /\ routine' = routine /\ step' = step + 1 /\ data' = data
      /\ clean' => clean
  BY <1>1, <1>5, BlameNobody DEF GoesOn
<1>7. HardwareOK' /\ ~stuck' /\ data \in Bytes
  <2>1. slave = "siW" => b \in {"T", "H"}
    BY <1>3, <1>4 DEF Letter
  <2>. QED
    BY <1>1, <1>2, <1>3, <1>5, <2>1, HardwareNow, BlameNobody
       DEF HardwareOK, Flags, SensorTypeOK, Bytes
<1>8. ReadOK' /\ CommandOK' /\ CleanMeasure'
  <2>1. ReadOK'
    BY <1>1, <1>3, <1>4, <1>6
       DEF IInv, ReadOK, Target, Reads, Commands, SI7021
  <2>2. CommandOK'
    BY <1>1, <1>3, <1>4, <1>6 DEF CommandOK, Reads, Commands, SI7021
  <2>3. CleanMeasure'
    BY <1>1, <1>3, <1>6 DEF IInv, CleanMeasure, Reads, Commands, SI7021
  <2>. QED
    BY <2>1, <2>2, <2>3
<1>9. MayGoOn
  <2>1. /\ routine = "tempCommand" /\ step = 4 => Started("temperature")'
        /\ routine = "pressureCommand" /\ step = 4 => Started("pressure")'
    BY <1>1, <1>3, <1>4 DEF Started, Quantity, Reads, Commands, SI7021
  <2>2. ~eocLate \/ clean =>
          /\ routine = "tempRead" => Ended("temperature")'
          /\ routine = "pressureRead" => Ended("pressure")'
    BY <1>1, <1>3
       DEF IInv, QuantityOK, Follows, Ended, Target, Reads, Commands, SI7021
  <2>3. ~(routine \in Reads /\ step = 7)
    BY <1>3 DEF Reads, Commands, SI7021
  <2>. QED
    BY <1>1, <1>3, <1>6, <1>7, <1>8, <2>1, <2>2, <2>3 DEF MayGoOn, Reads
<1>. QED
  BY <1>5, <1>9, WentOn

LEMMA Answers ==
  ASSUME IInv
  PROVE  /\ Answer \in Bytes
         /\ slave = "bmpR" => Answer = IF register = "result" THEN converted
                                       ELSE register
         /\ slave = "siR" => Answer = command
         /\ slave \in {"bmpR", "siR"} => Answer # "garbage"
  BY DEF Answer, IInv, SensorTypeOK, Bytes, Raw

LEMMA ReceiveStep ==
  ASSUME IInv, ReceiveByte
  PROVE  IInv'
<1>1. PICK half \in {"msb", "lsb"} :
        /\ Running(Op("receive", half))
        /\ Advance(IF Answer = "garbage" THEN 10 ELSE 0,
                   IF half = "msb"
                   THEN IF Answer = "garbage" THEN "garbage" ELSE "partial"
                   ELSE IF data = "garbage" THEN data ELSE Answer)
        /\ Blame(FALSE)
        /\ UNCHANGED <<twbr, owned, slave, stuck, register, converting,
                       converted, command, faults, eocLate>>
  BY DEF ReceiveByte, busVars, sensorVars
<1>. DEFINE got == IF half = "msb"
                   THEN IF Answer = "garbage" THEN "garbage" ELSE "partial"
                   ELSE IF data = "garbage" THEN data ELSE Answer
<1>2. SensorTypeOK
  BY DEF IInv
<1>3. /\ routine \in Scripted /\ ~stuck /\ step \in Int
      /\ \/ routine \in Reads /\ step = 6 /\ half = "msb"
         \/ routine \in Reads /\ step = 7 /\ half = "lsb"
         \/ routine \in SI7021 /\ step = 7 /\ half = "msb"
         \/ routine \in SI7021 /\ step = 8 /\ half = "lsb"
  BY <1>1, <1>2, Positions, OpAt
<1>4. routine \in Reads => /\ owned /\ slave = "bmpR"
                           /\ register = Target(routine)
                           /\ step = 7 => data = "partial"
  BY <1>3 DEF IInv, ReadOK, Reads, SI7021
<1>5. GoesOn(got) /\ error_code' \in {0, 10}
  <2>1. step < Len(Script[routine])
    BY <1>3, ScriptLengths DEF Reads, Commands, SI7021
  <2>2. routine \in Reads => Answer # "garbage"
    BY <1>4, Answers
  <2>. QED
    BY <1>1, <1>3, <2>1, <2>2, AdvanceCases
<1>6. /\ routine' = routine /\ step' = step + 1 /\ data' = got
      /\ clean' => clean
  BY <1>1, <1>5, BlameNobody DEF GoesOn
<1>7. HardwareOK' /\ ~stuck' /\ got \in Bytes
  <2>1. HardwareOK' /\ ~stuck'
    BY <1>1, <1>3, <1>5, HardwareNow, BlameNobody DEF HardwareOK, Flags
  <2>. QED
    BY <2>1, Answers DEF Bytes, Raw
<1>8. ReadOK' /\ CommandOK' /\ CleanMeasure'
  <2>1. routine \in Reads => /\ step = 6 => got = "partial"
                             /\ step = 7 => got = Answer
    BY <1>3, <1>4, Answers DEF Reads, SI7021
  <2>2. routine \in Reads =>
          Answer \in IF routine = "calibration" THEN {"calibration"}
                     ELSE {"old", "temperature", "pressure"}
    BY <1>2, <1>4, Answers DEF SensorTypeOK, Target
  <2>3. ReadOK'
    BY <1>1, <1>3, <1>4, <1>6, <2>1, <2>2 DEF ReadOK, Target, Reads, SI7021
  <2>4. CommandOK'
    BY <1>3, <1>6 DEF CommandOK, Reads, Commands, SI7021
  <2>5. clean /\ routine \in SI7021 =>
          /\ owned /\ slave = "siR" /\ command = Letter(routine)
          /\ step = 7 => got = "partial"
          /\ step = 8 => got = Letter(routine)
    <3>1. clean /\ routine \in SI7021 =>
            /\ owned /\ slave = "siR" /\ command = Letter(routine)
            /\ step = 8 => data = "partial"
      BY <1>3 DEF IInv, CleanMeasure, Reads, SI7021
    <3>. QED
      BY <1>3, <3>1, Answers DEF Reads, SI7021
  <2>6. CleanMeasure'
    BY <1>1, <1>3, <1>6, <2>5 DEF CleanMeasure, Letter, Reads, SI7021
  <2>. QED
    BY <2>3, <2>4, <2>6
<1>9. MayGoOn
  <2>1. ~eocLate \/ clean =>
          /\ routine = "tempRead" =>
               Ended("temperature")' /\ (step = 7 => got = "temperature")
          /\ routine = "pressureRead" =>
               Ended("pressure")' /\ (step = 7 => got = "pressure")
    <3>1. ~eocLate \/ clean =>
            /\ routine = "tempRead" => Ended("temperature")
            /\ routine = "pressureRead" => Ended("pressure")
      BY DEF IInv, QuantityOK, Follows
    <3>. QED
      BY <1>1, <1>3, <1>4, <3>1, Answers DEF Ended, Target, Reads, SI7021
  <2>2. ~(routine \in Commands)
    BY <1>3 DEF Reads, Commands, SI7021
  <2>. QED
    BY <1>1, <1>3, <1>6, <1>7, <1>8, <2>1, <2>2 DEF MayGoOn, Commands
<1>. QED
  BY <1>5, <1>9, WentOn

LEMMA DelayStep ==
  ASSUME IInv, DelayConversion
  PROVE  IInv'
<1>1. /\ Running(Delay) /\ Advance(error_code, data)
      /\ UNCHANGED <<twbr, owned, slave, stuck, register, converting,
                     converted, command, faults, eocLate, clean>>
  BY DEF DelayConversion, busVars, sensorVars
<1>2. SensorTypeOK
  BY DEF IInv
<1>3. routine \in SI7021 /\ step = 4 /\ routine \in Scripted /\ ~stuck
  BY <1>1, <1>2, Positions, StartStopAt
<1>4. GoesOn(data) /\ error_code' = error_code
  <2>1. step < Len(Script[routine])
    BY <1>3, ScriptLengths DEF Reads, Commands, SI7021
  <2>. QED
    BY <1>1, <1>3, <2>1, AdvanceCases
<1>5. routine' = routine /\ step' = step + 1 /\ data' = data
  BY <1>4 DEF GoesOn
<1>6. HardwareOK' /\ ~stuck' /\ data \in Bytes
  BY <1>1, <1>2, <1>3, <1>4, HardwareNow
     DEF HardwareOK, Flags, SensorTypeOK, Bytes
<1>7. MayGoOn
  BY <1>1, <1>3, <1>5, <1>6
     DEF MayGoOn, ReadOK, CommandOK, CleanMeasure, IInv, Reads, Commands, SI7021
<1>. QED
  BY <1>4, <1>7, WentOn

\* A disturbed operation: a routine of the BMP085 returns what it has, one of
\* the SI7021 goes on.
LEMMA Disturbed ==
  ASSUME IInv, NEW code \in {10, 100}, NEW received \in Bytes,
         Advance(code, received), routine \in Scripted,
         routine \notin SI7021 => received = data,
         ~clean', eocLate' = eocLate, HardwareOK', ~stuck'
  PROVE  IInv'
<1>1. error_code' # 0
  BY AdvanceCases
<1>2. CASE GoesOn(received) /\ routine \in SI7021
  <2>1. routine' = routine /\ data' = received
    BY <1>2 DEF GoesOn
  <2>2. ReadOK' /\ CommandOK' /\ CleanMeasure'
    BY <1>2, <2>1 DEF ReadOK, CommandOK, CleanMeasure, Reads, Commands, SI7021
  <2>3. MayGoOn
    BY <1>2, <2>1, <2>2 DEF MayGoOn, SI7021
  <2>. QED
    BY <1>2, <2>3, WentOn
<1>3. CASE Return(received)
  <2>1. routine \in {"tempRead", "pressureRead"} =>
          received \in {"zero", "partial", "old", "temperature", "pressure"}
    <3>1. SensorTypeOK /\ ReadOK
      BY DEF IInv
    <3>2. routine \in {"tempRead", "pressureRead"} => step \in 1 .. 8
      BY <3>1, ScriptLengths DEF SensorTypeOK, Reads, Commands, Scripted
    <3>. QED
      BY <3>1, <3>2 DEF ReadOK, Reads, SI7021
  <2>2. /\ ~eocLate /\ routine = "tempRead" =>
             received \in {"zero", "partial", "temperature"}
        /\ ~eocLate /\ routine = "pressureRead" =>
             received \in {"zero", "partial", "pressure"}
    <3>1. SensorTypeOK /\ ReadOK /\ QuantityOK
      BY DEF IInv
    <3>2. routine \in {"tempRead", "pressureRead"} => step \in 1 .. 8
      BY <3>1, ScriptLengths DEF SensorTypeOK, Reads, Commands, Scripted
    <3>. QED
      BY <3>1, <3>2 DEF ReadOK, QuantityOK, Follows, Reads, SI7021
  <2>3. MayReturn(received)
    BY <1>1, <2>1, <2>2 DEF MayReturn, Raw
  <2>. QED
    BY <1>3, <2>3, Returned
<1>. QED
  BY <1>2, <1>3, AdvanceCases

LEMMA RefuseStep ==
  ASSUME IInv, Refuse
  PROVE  IInv'
<1>1. /\ routine \in Scripted /\ ~stuck /\ slave' = "none"
      /\ Advance(10, data) /\ clean' = FALSE
      /\ faults < MaxFaults /\ faults' = faults + 1
      /\ UNCHANGED <<twbr, owned, stuck, register, converting, converted,
                     command, eocLate>>
  <2>1. PICK o : Running(o)
    BY DEF Refuse
  <2>. QED
    <3>1. routine \in Scripted /\ ~stuck
      BY <2>1 DEF Running
    <3>2. faults < MaxFaults /\ faults' = faults + 1
      BY DEF Refuse, Fails
    <3>3. slave' = "none" /\ Advance(10, data)
      BY DEF Refuse
    <3>5. clean' = FALSE
      BY DEF Refuse, Blame
    <3>4. UNCHANGED <<twbr, owned, stuck, register, converting, converted,
                      command, eocLate>>
      BY DEF Refuse, sensorVars
    <3>. QED
      BY <3>1, <3>2, <3>3, <3>4, <3>5
<1>2. SensorTypeOK
  BY DEF IInv
<1>3. clean' = FALSE
  BY <1>1
<1>4. error_code' = 10
  BY <1>1, AdvanceCases
<1>5. HardwareOK' /\ ~stuck'
  <2>1. faults' \in 0 .. MaxFaults
    BY <1>1, <1>2, FaultsAssumption DEF SensorTypeOK
  <2>2. Flags'
    BY <1>1, <1>3 DEF IInv, Flags
  <2>. QED
    BY <1>1, <1>4, <2>1, <2>2, HardwareNow DEF HardwareOK
<1>6. data \in Bytes
  BY <1>2 DEF SensorTypeOK, Bytes
<1>. QED
  BY <1>1, <1>3, <1>5, <1>6, Disturbed

LEMMA GiveUpStep ==
  ASSUME IInv, GiveUpWaiting
  PROVE  IInv'
<1>1. /\ stuck /\ ~stuck' /\ slave' = "none"
      /\ Advance(100, SpoiltData) /\ Blame(TRUE)
      /\ UNCHANGED <<twbr, register, converting, converted, command, faults,
                     eocLate>>
  BY DEF GiveUpWaiting, sensorVars
<1>2. SensorTypeOK /\ Flags
  BY DEF IInv
<1>3. owned' \in {owned, TRUE}
  BY DEF GiveUpWaiting
<1>4. clean' = FALSE
  BY <1>1, BlameSomebody
<1>5. error_code' = 100
  BY <1>1, AdvanceCases
<1>6. stuck' \in BOOLEAN
  BY DEF GiveUpWaiting
<1>7. HardwareOK'
  <2>1. Flags'
    BY <1>1, <1>2, <1>3, <1>4, <1>6 DEF Flags
  <2>. QED
    BY <1>1, <1>5, <2>1, HardwareNow DEF HardwareOK
<1>8. SpoiltData \in Bytes /\ (routine \notin SI7021 => SpoiltData = data)
  BY <1>2 DEF SpoiltData, IgnoresErrors, SensorTypeOK, Bytes
<1>9. routine \in Scripted
  BY <1>1, <1>2 DEF SensorTypeOK
<1>. QED
  BY <1>1, <1>4, <1>7, <1>8, <1>9, Disturbed

LEMMA HangStep ==
  ASSUME IInv, Hang
  PROVE  IInv'
<1>1. /\ routine \in Scripted /\ stuck' = TRUE
      /\ faults < MaxFaults /\ faults' = faults + 1
      /\ UNCHANGED <<twbr, owned, slave, register, converting, converted,
                     command, routine, step, word, data, error_code,
                     calibrated, ut, up, environment, eocLate, clean>>
  BY DEF Hang, Fails, sensorVars, programVars, resultVars
<1>2. SensorTypeOK'
  BY <1>1, FaultsAssumption DEF IInv, SensorTypeOK
<1>3. Flags' /\ EnvironmentOK' /\ ReadOK' /\ CommandOK'
  BY <1>1 DEF IInv, Flags, EnvironmentOK, ReadOK, CommandOK
<1>4. QuantityOK' /\ ValuesOK'
  BY <1>1 DEF IInv, QuantityOK, Follows, Started, Ended, ValuesOK,
              QuantitiesNotConfused
<1>5. CleanBus' /\ CleanValues' /\ CleanMeasure'
  BY <1>1 DEF IInv, CleanBus, CleanValues, CleanMeasure
<1>. QED
  BY <1>2, <1>3, <1>4, <1>5 DEF IInv

LEMMA ConversionEndsStep ==
  ASSUME IInv, ConversionEnds
  PROVE  IInv'
<1>1. /\ converting # "none" /\ converted' = converting
      /\ converting' = "none"
      /\ UNCHANGED <<twbr, owned, slave, stuck, register, command, routine,
                     step, word, data, error_code, calibrated, ut, up,
                     environment, faults, eocLate, clean>>
  BY DEF ConversionEnds, busVars, programVars, resultVars, history
<1>2. SensorTypeOK'
  BY <1>1 DEF IInv, SensorTypeOK
<1>3. Flags' /\ EnvironmentOK' /\ ReadOK' /\ CommandOK'
  BY <1>1 DEF IInv, Flags, EnvironmentOK, ReadOK, CommandOK
<1>4. QuantityOK' /\ ValuesOK'
  BY <1>1 DEF IInv, QuantityOK, Follows, Started, Ended, ValuesOK,
              QuantitiesNotConfused
<1>5. CleanBus' /\ CleanValues' /\ CleanMeasure'
  BY <1>1 DEF IInv, CleanBus, CleanValues, CleanMeasure
<1>. QED
  BY <1>2, <1>3, <1>4, <1>5 DEF IInv

LEMMA WaitStep ==
  ASSUME IInv, EocHigh \/ EocTimeout
  PROVE  IInv'
<1>1. /\ routine \in Waits /\ step' = 1 /\ data' = "zero"
      /\ routine' = AfterWait(routine, error_code)
      /\ UNCHANGED <<twbr, owned, slave, stuck, register, converting,
                     converted, command, word, error_code, calibrated, ut,
                     up, environment, faults>>
  BY DEF EocHigh, EocTimeout, LeaveWait, Call, busVars, sensorVars, resultVars
<1>2. \/ converting = "none" /\ eocLate' = eocLate /\ clean' = clean
      \/ eocLate' = TRUE /\ clean' = FALSE
  BY DEF EocHigh, EocTimeout
<1>3. /\ routine = "tempWait" =>
           routine' = IF error_code = 0 THEN "tempRead" ELSE "pressureCommand"
      /\ routine = "pressureWait" =>
           routine' = IF error_code = 0 THEN "pressureRead" ELSE "convert"
      /\ routine' \in {"tempRead", "pressureCommand", "pressureRead",
                       "convert"}
  BY <1>1 DEF AfterWait, Waits
<1>4. SensorTypeOK'
  <2>1. step' \in 1 .. IF routine' \in Scripted THEN Len(Script[routine'])
                       ELSE 1
    BY <1>1, ScriptLengths
  <2>2. ~stuck
    BY <1>1 DEF IInv, SensorTypeOK, Waits, Scripted
  <2>. QED
    BY <1>1, <1>3, <2>1, <2>2
       DEF IInv, SensorTypeOK, Routines, Scripted, Waits, Raw
<1>5. Flags'
  BY <1>1, <1>2 DEF IInv, Flags
<1>6. EnvironmentOK' /\ ReadOK' /\ CommandOK'
  BY <1>1 DEF IInv, EnvironmentOK, ReadOK, CommandOK
<1>7. QuantityOK'
  <2>1. (~eocLate' \/ clean') => converting = "none" /\ (~eocLate \/ clean)
    BY <1>2
  <2>2. (~eocLate \/ clean) =>
          /\ routine = "tempWait" /\ error_code = 0 => Started("temperature")
          /\ routine = "pressureWait" /\ error_code = 0 => Started("pressure")
    BY DEF IInv, QuantityOK, Follows
  <2>. QED
    BY <1>1, <1>3, <2>1, <2>2 DEF QuantityOK, Follows, Started, Ended, Waits
<1>8. ValuesOK'
  BY <1>1, <1>2 DEF IInv, ValuesOK, QuantitiesNotConfused
<1>9. CleanBus' /\ CleanValues'
  BY <1>1, <1>2, <1>3
     DEF IInv, CleanBus, CleanValues, Waits, Scripted, SI7021
<1>10. CleanMeasure'
  BY <1>3 DEF CleanMeasure, SI7021
<1>. QED
  BY <1>4, <1>5, <1>6, <1>7, <1>8, <1>9, <1>10 DEF IInv

LEMMA SetBitrateStep ==
  ASSUME IInv, SetBitrate
  PROVE  IInv'
<1>1. /\ routine = "boot" /\ twbr' = i2cSetBitrate(1000)
      /\ routine' = "calibration" /\ step' = 1 /\ data' = "zero"
      /\ UNCHANGED <<owned, slave, stuck, register, converting, converted,
                     command, word, error_code, calibrated, ut, up,
                     environment, faults, eocLate, clean>>
  BY DEF SetBitrate, Call, busVars, sensorVars, resultVars, history
<1>2. SensorTypeOK'
  <2>1. twbr' = 12
    BY <1>1 DEF i2cSetBitrate, F_CPU
  <2>2. step' \in 1 .. IF routine' \in Scripted THEN Len(Script[routine'])
                       ELSE 1
    BY <1>1, ScriptLengths
  <2>3. ~stuck
    BY <1>1 DEF IInv, SensorTypeOK, Scripted
  <2>. QED
    BY <1>1, <2>1, <2>2, <2>3 DEF IInv, SensorTypeOK, Routines, Scripted, Raw
<1>3. Flags' /\ EnvironmentOK' /\ ReadOK' /\ CommandOK'
  BY <1>1 DEF IInv, Flags, EnvironmentOK, ReadOK, CommandOK
<1>4. QuantityOK' /\ ValuesOK'
  BY <1>1 DEF IInv, QuantityOK, Follows, ValuesOK, QuantitiesNotConfused
<1>5. CleanBus' /\ CleanValues' /\ CleanMeasure'
  BY <1>1 DEF IInv, CleanBus, CleanValues, CleanMeasure, Scripted, Waits,
              SI7021
<1>. QED
  BY <1>2, <1>3, <1>4, <1>5 DEF IInv

LEMMA PollStep ==
  ASSUME IInv, usbPoll
  PROVE  IInv'
<1>1. /\ routine = "poll" /\ ut' = "zero" /\ up' = "zero"
      /\ converted' = "old"
      /\ converting' = IF converting = "none" THEN "none" ELSE "old"
      /\ routine' = "tempCommand" /\ step' = 1 /\ data' = "zero"
      /\ UNCHANGED <<twbr, owned, slave, stuck, register, command, word,
                     error_code, calibrated, environment, faults, eocLate,
                     clean>>
  BY DEF usbPoll, Call, busVars
<1>2. SensorTypeOK'
  <2>1. step' \in 1 .. IF routine' \in Scripted THEN Len(Script[routine'])
                       ELSE 1
    BY <1>1, ScriptLengths
  <2>2. ~stuck
    BY <1>1 DEF IInv, SensorTypeOK, Scripted
  <2>. QED
    BY <1>1, <2>1, <2>2 DEF IInv, SensorTypeOK, Routines, Scripted, Raw
<1>3. Flags' /\ EnvironmentOK' /\ ReadOK' /\ CommandOK'
  BY <1>1 DEF IInv, Flags, EnvironmentOK, ReadOK, CommandOK
<1>4. QuantityOK' /\ ValuesOK'
  BY <1>1 DEF QuantityOK, Follows, ValuesOK, QuantitiesNotConfused
<1>5. CleanBus' /\ CleanValues' /\ CleanMeasure'
  BY <1>1 DEF IInv, CleanBus, CleanValues, CleanMeasure, Scripted, Waits,
              SI7021
<1>. QED
  BY <1>2, <1>3, <1>4, <1>5 DEF IInv

LEMMA ConvertStep ==
  ASSUME IInv, Convert
  PROVE  IInv'
<1>1. /\ routine = "convert"
      /\ routine' = "SI7021_temperature" /\ step' = 1 /\ data' = "zero"
      /\ UNCHANGED <<twbr, owned, slave, stuck, register, converting,
                     converted, command, word, error_code, calibrated, ut,
                     up, faults, eocLate, clean>>
  BY DEF Convert, Call, busVars, sensorVars, history
<1>2. SensorTypeOK'
  <2>1. step' \in 1 .. IF routine' \in Scripted THEN Len(Script[routine'])
                       ELSE 1
    BY <1>1, ScriptLengths
  <2>2. ~stuck
    BY <1>1 DEF IInv, SensorTypeOK, Scripted
  <2>. QED
    BY <1>1, <2>1, <2>2 DEF IInv, SensorTypeOK, Routines, Scripted, Raw
<1>3. EnvironmentOK'
  <2>1. EnvironmentOK /\ ut \in Raw /\ up \in Raw
    BY DEF IInv, SensorTypeOK
  <2>. QED
    BY <2>1 DEF Convert, EnvironmentOK
<1>4. Flags' /\ ReadOK' /\ CommandOK'
  BY <1>1 DEF IInv, Flags, ReadOK, CommandOK
<1>5. QuantityOK' /\ ValuesOK'
  BY <1>1 DEF IInv, QuantityOK, Follows, ValuesOK, QuantitiesNotConfused
<1>6. CleanBus' /\ CleanValues' /\ CleanMeasure'
  BY <1>1 DEF IInv, CleanBus, CleanValues, CleanMeasure, Scripted, Waits,
              SI7021
<1>. QED
  BY <1>2, <1>3, <1>4, <1>5, <1>6 DEF IInv

-----------------------------------------------------------------------------
(* The invariant, and what follows from it *)

LEMMA InitIInv ==
  ASSUME Init
  PROVE  IInv
<1>1. SensorTypeOK
  <2>1. word \in 1 .. CalibrationWords /\ faults \in 0 .. MaxFaults
    BY WordsAssumption, FaultsAssumption DEF Init
  <2>2. /\ routine \in Routines /\ routine \notin Scripted
        /\ step \in 1 .. IF routine \in Scripted THEN Len(Script[routine])
                         ELSE 1
    BY DEF Init, Routines, Scripted
  <2>3. {ut, up} \subseteq Raw /\ data \in Raw
    BY DEF Init, Raw
  <2>. QED
    BY <2>1, <2>2, <2>3 DEF Init, SensorTypeOK
<1>2. EnvironmentOK
  <2>1. Placeholders \in [{"temperature", "pressure", "temperature2",
                          "humidity"} -> {"placeholder"}]
    BY DEF Placeholders
  <2>. QED
    BY <2>1 DEF Init, EnvironmentOK
<1>3. Flags /\ ReadOK /\ CommandOK
  BY DEF Init, Flags, ReadOK, CommandOK, Reads, Commands
<1>4. QuantityOK /\ ValuesOK
  BY DEF Init, QuantityOK, Follows, ValuesOK, QuantitiesNotConfused
<1>5. CleanBus /\ CleanValues /\ CleanMeasure
  BY DEF Init, CleanBus, CleanValues, CleanMeasure, Waits, SI7021
<1>. QED
  BY <1>1, <1>2, <1>3, <1>4, <1>5 DEF IInv

LEMMA StepIInv ==
  ASSUME IInv, [Next]_vars
  PROVE  IInv'
<1>1. CASE UNCHANGED vars
  BY <1>1 DEF vars, busVars, sensorVars, programVars, resultVars, history,
              IInv, SensorTypeOK, Flags, EnvironmentOK, ReadOK, CommandOK,
              QuantityOK, Follows, Started, Ended, ValuesOK,
              QuantitiesNotConfused, CleanBus, CleanValues, CleanMeasure
<1>2. CASE ProgramStep
  BY <1>2, SetBitrateStep, PollStep, ConvertStep, StartStep, AddressStep,
     ByteStep, ReceiveStep, StopStep, DelayStep, WaitStep, GiveUpStep
     DEF ProgramStep
<1>3. CASE Fault
  BY <1>3, RefuseStep, HangStep DEF Fault
<1>4. CASE ConversionEnds
  BY <1>4, ConversionEndsStep
<1>. QED
  BY <1>1, <1>2, <1>3, <1>4 DEF Next

LEMMA InvariantHolds == Spec => []IInv
<1>1. Init => IInv
  BY InitIInv
<1>2. IInv /\ [Next]_vars => IInv'
  BY StepIInv
<1>. QED
  BY <1>1, <1>2, PTL DEF Spec

\* Whatever the sensors do, a routine stays within its script and a calibration
\* word within its table, and only a master that owns the bus has a sensor
\* listening (twi.c, bmp085GetCalibration).
THEOREM SensorTypeCorrect == Spec => []SensorTypeOK
<1>1. IInv => SensorTypeOK
  BY DEF IInv
<1>. QED
  BY <1>1, InvariantHolds, PTL

\* As long as no EOC loop of atmega_bmp085_lib.c runs out, no failure on the bus
\* makes bmp085Convert take one quantity for another or an old one for a new one.
THEOREM QuantitiesKept == Spec => []QuantitiesNotConfused
<1>1. IInv => QuantitiesNotConfused
  BY DEF IInv, ValuesOK
<1>. QED
  BY <1>1, InvariantHolds, PTL

\* One undisturbed pass of main gives all four readings anew, whatever happened
\* on the bus since boot: the STOP of si7021.c has freed it.
THEOREM OnePassRecovers == Spec => []RecoversInOnePass
<1>1. ASSUME IInv PROVE RecoversInOnePass
  <2>1. CleanValues /\ CleanMeasure /\ Len(Script["SI7021_humidity"]) = 9
    BY <1>1, MeasureScript DEF IInv, SI7021
  <2>. QED
    BY <2>1
       DEF RecoversInOnePass, PassEnds, CleanValues, CleanMeasure, Letter, SI7021
<1>. QED
  BY <1>1, InvariantHolds, PTL
=============================================================================
