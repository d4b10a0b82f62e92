--------------------------- MODULE DisplaysProofs ---------------------------
(* Proofs for both display drivers, for every admitted loop time, every set  *)
(* of masks and lengths, and every state displays are found in.  First what  *)
(* the controller does with a pulse and with a byte; then 1602.c, which      *)
(* trusts its delays; then lcd.c, whose lcd_init brings displays into step   *)
(* one pulse after the other; then the board with the one or the other.      *)
EXTENDS Displays, SequenceTheorems, TLAPS

\* The records of the controller, a field at a time.
SetWidth(d, x) == [d EXCEPT !.width = x]
SetHigh(d, x) == [d EXCEPT !.high = x]
SetBusy(d, x) == [d EXCEPT !.busy = x]
SetLines(d, x) == [d EXCEPT !.lines = x]
SetOn(d, x) == [d EXCEPT !.on = x]
SetAddr(d, x) == [d EXCEPT !.addr = x]

LEMMA SetWidthFields ==
  ASSUME NEW d \in Display, NEW x \in {4, 8}
  PROVE  /\ SetWidth(d, x) \in Display
         /\ SetWidth(d, x).present = d.present
         /\ SetWidth(d, x).width = x
         /\ SetWidth(d, x).high = d.high
         /\ SetWidth(d, x).busy = d.busy
         /\ SetWidth(d, x).lines = d.lines
         /\ SetWidth(d, x).on = d.on
         /\ SetWidth(d, x).addr = d.addr
  BY DEF Display, Nibbles, SetWidth

LEMMA SetHighFields ==
  ASSUME NEW d \in Display, NEW x \in Nat, x <= 16
  PROVE  /\ SetHigh(d, x) \in Display
         /\ SetHigh(d, x).present = d.present
         /\ SetHigh(d, x).width = d.width
         /\ SetHigh(d, x).high = x
         /\ SetHigh(d, x).busy = d.busy
         /\ SetHigh(d, x).lines = d.lines
         /\ SetHigh(d, x).on = d.on
         /\ SetHigh(d, x).addr = d.addr
  BY DEF Display, Nibbles, SetHigh

LEMMA SetBusyFields ==
  ASSUME NEW d \in Display, NEW x \in Nat, x <= 15000
  PROVE  /\ SetBusy(d, x) \in Display
         /\ SetBusy(d, x).present = d.present
         /\ SetBusy(d, x).width = d.width
         /\ SetBusy(d, x).high = d.high
         /\ SetBusy(d, x).busy = x
         /\ SetBusy(d, x).lines = d.lines
         /\ SetBusy(d, x).on = d.on
         /\ SetBusy(d, x).addr = d.addr
<1>1. x \in 0 .. 15000
  OBVIOUS
<1> QED
  BY <1>1 DEF Display, SetBusy

LEMMA SetLinesFields ==
  ASSUME NEW d \in Display, NEW x \in Nat, x <= 2
  PROVE  /\ SetLines(d, x) \in Display
         /\ SetLines(d, x).present = d.present
         /\ SetLines(d, x).width = d.width
         /\ SetLines(d, x).high = d.high
         /\ SetLines(d, x).busy = d.busy
         /\ SetLines(d, x).lines = x
         /\ SetLines(d, x).on = d.on
         /\ SetLines(d, x).addr = d.addr
  BY DEF Display, Nibbles, SetLines

LEMMA SetOnFields ==
  ASSUME NEW d \in Display, NEW x \in BOOLEAN
  PROVE  /\ SetOn(d, x) \in Display
         /\ SetOn(d, x).present = d.present
         /\ SetOn(d, x).width = d.width
         /\ SetOn(d, x).high = d.high
         /\ SetOn(d, x).busy = d.busy
         /\ SetOn(d, x).lines = d.lines
         /\ SetOn(d, x).on = x
         /\ SetOn(d, x).addr = d.addr
  BY DEF Display, Nibbles, SetOn

LEMMA SetAddrFields ==
  ASSUME NEW d \in Display, NEW x \in Nat, x <= 127
  PROVE  /\ SetAddr(d, x) \in Display
         /\ SetAddr(d, x).present = d.present
         /\ SetAddr(d, x).width = d.width
         /\ SetAddr(d, x).high = d.high
         /\ SetAddr(d, x).busy = d.busy
         /\ SetAddr(d, x).lines = d.lines
         /\ SetAddr(d, x).on = d.on
         /\ SetAddr(d, x).addr = x
<1>1. x \in 0 .. 127
  OBVIOUS
<1> QED
  BY <1>1 DEF Display, SetAddr

LEMMA PulseIs ==
  ASSUME NEW d, NEW reg, NEW n
  PROVE  Pulse(d, reg, n) =
           IF ~d.present \/ d.busy > 0 THEN d
           ELSE IF d.width = 8 THEN SetLines(Accept(d, reg, 16 * n), 0)
           ELSE IF d.high = NoNibble THEN SetHigh(d, n)
           ELSE Accept(SetHigh(d, NoNibble), reg, 16 * d.high + n)
  BY Zenon DEF Pulse, SetHigh, SetLines

LEMMA ElapseIs ==
  ASSUME NEW d, NEW t
  PROVE  Elapse(d, t) = SetBusy(d, IF d.busy > t THEN d.busy - t ELSE 0)
  BY DEF Elapse, SetBusy

LEMMA DataByteIs ==
  ASSUME NEW d
  PROVE  DataByte(d) = SetAddr(SetBusy(d, 41), (d.addr + 1) % 128)
  BY DEF DataByte, SetBusy, SetAddr

LEMMA InstructionIs ==
  ASSUME NEW d, NEW b
  PROVE  Instruction(d, b) =
    IF b >= 128 THEN SetAddr(SetBusy(d, 37), b - 128)
    ELSE IF b \in 32 .. 63 THEN SetLines(SetWidth(SetBusy(d, 37), IF (b \div 16) % 2 = 1 THEN 8 ELSE 4), 1 + ((b \div 8) % 2))
    ELSE IF b \in 8 .. 15 THEN SetOn(SetBusy(d, 37), (b \div 4) % 2 = 1)
    ELSE IF b \in 1 .. 3 THEN SetAddr(SetBusy(d, 1520), 0)
    ELSE SetBusy(d, 37)
<1> DEFINE slow == [d EXCEPT !.busy = 1520, !.addr = 0]
           fast == [d EXCEPT !.busy = 37]
           moved == [fast EXCEPT !.addr = b - 128]
           o1 == (b \div 4) % 2 = 1
           w1 == IF (b \div 16) % 2 = 1 THEN 8 ELSE 4
           l1 == 1 + ((b \div 8) % 2)
           shaped == [fast EXCEPT !.width = w1, !.lines = l1]
           switched == [fast EXCEPT !.on = o1]
<1>0. /\ slow = [[d EXCEPT !.busy = 1520] EXCEPT !.addr = 0]
      /\ [fast EXCEPT !.width = w1, !.lines = l1] = [[fast EXCEPT !.width = w1] EXCEPT !.lines = l1]
  <2> HIDE DEF w1, l1
  <2> QED OBVIOUS
<1>1. slow = SetAddr(SetBusy(d, 1520), 0)
  BY <1>0, Zenon DEF SetBusy, SetAddr
<1>2. fast = SetBusy(d, 37)
  BY Zenon DEF SetBusy
<1>3. moved = SetAddr(SetBusy(d, 37), b - 128)
  BY Zenon DEF SetAddr, SetBusy
<1>4. shaped
        = SetLines(SetWidth(SetBusy(d, 37), w1), l1)
  <2> HIDE DEF w1, l1
  <2> QED
    BY <1>0, Zenon DEF SetWidth, SetLines, SetBusy
<1>5. switched = SetOn(SetBusy(d, 37), o1)
  BY Zenon DEF SetOn, SetBusy
<1>6. Instruction(d, b) =
        IF b >= 128 THEN moved
        ELSE IF b \in 32 .. 63 THEN shaped
        ELSE IF b \in 8 .. 15 THEN switched
        ELSE IF b \in 1 .. 3 THEN slow
        ELSE fast
  BY Zenon DEF Instruction
<1>7. Instruction(d, b) =
        IF b >= 128 THEN SetAddr(SetBusy(d, 37), b - 128)
        ELSE IF b \in 32 .. 63 THEN SetLines(SetWidth(SetBusy(d, 37), w1), l1)
        ELSE IF b \in 8 .. 15 THEN SetOn(SetBusy(d, 37), o1)
        ELSE IF b \in 1 .. 3 THEN SetAddr(SetBusy(d, 1520), 0)
        ELSE SetBusy(d, 37)
  <2> HIDE DEF slow, fast, moved, shaped, switched, w1, l1, o1
  <2>1. CASE b >= 128
    BY <2>1, <1>3, <1>6, Zenon
  <2>2. CASE ~(b >= 128) /\ b \in 32 .. 63
    BY <2>2, <1>4, <1>6, Zenon
  <2>3. CASE ~(b >= 128) /\ b \notin 32 .. 63 /\ b \in 8 .. 15
    BY <2>3, <1>5, <1>6, Zenon
  <2>4. CASE /\ ~(b >= 128) /\ b \notin 32 .. 63 /\ b \notin 8 .. 15
             /\ b \in 1 .. 3
    BY <2>4, <1>1, <1>6
  <2>5. CASE /\ ~(b >= 128) /\ b \notin 32 .. 63 /\ b \notin 8 .. 15
             /\ b \notin 1 .. 3
    BY <2>5, <1>2, <1>6
  <2> QED
    BY <2>1, <2>2, <2>3, <2>4, <2>5, Zenon
<1> QED
  BY <1>7, Zenon

LEMMA FieldTypes ==
  ASSUME NEW d \in Display
  PROVE  /\ d.present \in BOOLEAN /\ d.on \in BOOLEAN
         /\ d.width \in {4, 8}
         /\ d.high \in Nat /\ d.high <= 16
         /\ d.busy \in Nat /\ d.busy <= 15000
         /\ d.lines \in Nat /\ d.lines <= 2
         /\ d.addr \in Nat /\ d.addr <= 127
<1>1. /\ d.present \in BOOLEAN /\ d.on \in BOOLEAN
      /\ d.width \in {4, 8}
  BY DEF Display
<1>2. d.high \in Nibbles \cup {16} /\ d.lines \in 0 .. 2
  BY DEF Display
<1>3. d.busy \in 0 .. 15000 /\ d.addr \in 0 .. 127
  BY DEF Display
<1>4. d.high \in Nat /\ d.high <= 16
  BY <1>2 DEF Nibbles
<1>5. d.lines \in Nat /\ d.lines <= 2
  BY <1>2
<1>6. d.busy \in Nat /\ d.busy <= 15000
  <2> DEFINE n == d.busy
  <2>1. n \in 0 .. 15000
    BY <1>3
  <2>2. n \in Nat /\ n <= 15000
    <3> HIDE DEF n
    <3> QED
      BY <2>1
  <2> QED
    BY <2>2
<1>7. d.addr \in Nat /\ d.addr <= 127
  BY <1>3
<1> QED
  BY <1>1, <1>4, <1>5, <1>6, <1>7

LEMMA ElapseFields ==
  ASSUME NEW d \in Display, NEW t \in Nat
  PROVE  /\ Elapse(d, t) \in Display
         /\ Elapse(d, t).present = d.present
         /\ Elapse(d, t).width = d.width
         /\ Elapse(d, t).high = d.high
         /\ Elapse(d, t).busy = IF d.busy > t THEN d.busy - t ELSE 0
         /\ Elapse(d, t).lines = d.lines
         /\ Elapse(d, t).on = d.on
         /\ Elapse(d, t).addr = d.addr
<1> DEFINE left == IF d.busy > t THEN d.busy - t ELSE 0
<1>1. left \in Nat /\ left <= 15000
  BY FieldTypes
<1>2. Elapse(d, t) = SetBusy(d, left)
  BY ElapseIs
<1> HIDE DEF left
<1>3. /\ Elapse(d, t) \in Display
      /\ Elapse(d, t).present = d.present
      /\ Elapse(d, t).width = d.width
      /\ Elapse(d, t).high = d.high
      /\ Elapse(d, t).busy = left
      /\ Elapse(d, t).lines = d.lines
      /\ Elapse(d, t).on = d.on
      /\ Elapse(d, t).addr = d.addr
  BY <1>1, <1>2, SetBusyFields
<1> QED
  BY <1>3 DEF left

LEMMA DataByteFields ==
  ASSUME NEW d \in Display
  PROVE  /\ DataByte(d) \in Display
         /\ DataByte(d).present = d.present
         /\ DataByte(d).width = d.width
         /\ DataByte(d).high = d.high
         /\ DataByte(d).busy = 41
         /\ DataByte(d).lines = d.lines
         /\ DataByte(d).on = d.on
         /\ DataByte(d).addr = (d.addr + 1) % 128
<1> DEFINE e == SetBusy(d, 41)
           next == (d.addr + 1) % 128
<1>1. next \in Nat /\ next <= 127
  BY FieldTypes
<1>2. e \in Display
  BY SetBusyFields
<1>3. DataByte(d) = SetAddr(e, next)
  BY DataByteIs
<1> HIDE DEF next
<1>4. /\ DataByte(d) \in Display
      /\ DataByte(d).present = e.present
      /\ DataByte(d).width = e.width
      /\ DataByte(d).high = e.high
      /\ DataByte(d).busy = e.busy
      /\ DataByte(d).lines = e.lines
      /\ DataByte(d).on = e.on
      /\ DataByte(d).addr = next
  <2> HIDE DEF e
  <2> QED
    BY <1>1, <1>2, <1>3, SetAddrFields
<1> QED
  BY <1>4, SetBusyFields DEF next

Reads(e, p, w, h, b, l, o, a) ==
  /\ e \in Display
  /\ e.present = p /\ e.width = w /\ e.high = h /\ e.busy = b /\ e.lines = l
  /\ e.on = o /\ e.addr = a

LEMMA ElapseReads ==
  ASSUME NEW d \in Display, NEW t \in Nat, d.busy <= t
  PROVE  Reads(Elapse(d, t), d.present, d.width, d.high, 0, d.lines, d.on, d.addr)
<1>1. ~(d.busy > t)
  BY FieldTypes
<1> QED
  BY <1>1, ElapseFields DEF Reads

LEMMA SetHighReads ==
  ASSUME NEW d \in Display, NEW x \in Nat, x <= 16
  PROVE  Reads(SetHigh(d, x), d.present, d.width, x, d.busy, d.lines, d.on, d.addr)
  BY SetHighFields DEF Reads

\* What the instructions that the two drivers send do.
LEMMA ClearReads ==
  ASSUME NEW d \in Display
  PROVE  Reads(Instruction(d, 1), d.present, d.width, d.high, 1520, d.lines, d.on, 0)
<1> DEFINE e == SetBusy(d, 1520)
<1>1. Instruction(d, 1) = SetAddr(e, 0)
  BY InstructionIs
<1>3. Reads(e, d.present, d.width, d.high, 1520, d.lines, d.on, d.addr)
  BY SetBusyFields DEF Reads
<1> HIDE DEF e
<1> QED
  BY <1>1, <1>3, SetAddrFields DEF Reads

LEMMA EntryModeReads ==
  ASSUME NEW d \in Display
  PROVE  Reads(Instruction(d, 6), d.present, d.width, d.high, 37, d.lines, d.on, d.addr)
<1>1. Instruction(d, 6) = SetBusy(d, 37)
  BY InstructionIs
<1> QED
  BY <1>1, SetBusyFields DEF Reads

LEMMA OffReads ==
  ASSUME NEW d \in Display
  PROVE  Reads(Instruction(d, 8), d.present, d.width, d.high, 37, d.lines, FALSE, d.addr)
<1> DEFINE e == SetBusy(d, 37)
<1>1. /\ ~(8 >= 128) /\ 8 \notin 32 .. 63 /\ 8 \in 8 .. 15
      /\ ((8 \div 4) % 2 = 1) = FALSE
  OBVIOUS
<1>2. Instruction(d, 8) = SetOn(e, FALSE)
  BY <1>1, InstructionIs, Zenon
<1>3. Reads(e, d.present, d.width, d.high, 37, d.lines, d.on, d.addr)
  BY SetBusyFields DEF Reads
<1> HIDE DEF e
<1> QED
  BY <1>2, <1>3, SetOnFields DEF Reads

LEMMA OnReads ==
  ASSUME NEW d \in Display
  PROVE  Reads(Instruction(d, 12), d.present, d.width, d.high, 37, d.lines, TRUE, d.addr)
<1> DEFINE e == SetBusy(d, 37)
<1>1. /\ ~(12 >= 128) /\ 12 \notin 32 .. 63 /\ 12 \in 8 .. 15
      /\ ((12 \div 4) % 2 = 1) = TRUE
  OBVIOUS
<1>2. Instruction(d, 12) = SetOn(e, TRUE)
  BY <1>1, InstructionIs, Zenon
<1>3. Reads(e, d.present, d.width, d.high, 37, d.lines, d.on, d.addr)
  BY SetBusyFields DEF Reads
<1> HIDE DEF e
<1> QED
  BY <1>2, <1>3, SetOnFields DEF Reads

LEMMA FunctionReads ==
  ASSUME NEW d \in Display
  PROVE  /\ Reads(Instruction(d, 32), d.present, 4, d.high, 37, 1, d.on, d.addr)
         /\ Reads(Instruction(d, 40), d.present, 4, d.high, 37, 2, d.on, d.addr)
         /\ Reads(Instruction(d, 48), d.present, 8, d.high, 37, 1, d.on, d.addr)
<1> DEFINE e == SetBusy(d, 37)
<1>1. /\ Instruction(d, 32) = SetLines(SetWidth(e, 4), 1)
      /\ Instruction(d, 40) = SetLines(SetWidth(e, 4), 2)
      /\ Instruction(d, 48) = SetLines(SetWidth(e, 8), 1)
  BY InstructionIs
<1>2. Reads(e, d.present, d.width, d.high, 37, d.lines, d.on, d.addr)
  BY SetBusyFields DEF Reads
<1> HIDE DEF e
<1>3. /\ Reads(SetWidth(e, 4), d.present, 4, d.high, 37, d.lines, d.on, d.addr)
      /\ Reads(SetWidth(e, 8), d.present, 8, d.high, 37, d.lines, d.on, d.addr)
  BY <1>2, SetWidthFields DEF Reads
<1> QED
  BY <1>1, <1>3, SetLinesFields DEF Reads

LEMMA AddressReads ==
  ASSUME NEW d \in Display, NEW n \in Nat, n <= 127
  PROVE  Reads(Instruction(d, 128 + n), d.present, d.width, d.high, 37, d.lines, d.on, n)
<1> DEFINE e == SetBusy(d, 37)
<1>1. Instruction(d, 128 + n) = SetAddr(e, n)
  BY InstructionIs
<1>3. Reads(e, d.present, d.width, d.high, 37, d.lines, d.on, d.addr)
  BY SetBusyFields DEF Reads
<1> HIDE DEF e
<1> QED
  BY <1>1, <1>3, SetAddrFields DEF Reads

\* A display that is not there, or busy, ignores a pulse.
LEMMA PulseIgnored ==
  ASSUME NEW d, ~d.present \/ d.busy > 0, NEW reg, NEW n
  PROVE  Pulse(d, reg, n) = d
  BY DEF Pulse

\* In 8-bit mode a pulse is a byte; in 4-bit mode it is the first half of one,
\* or the second.
LEMMA PulseWide ==
  ASSUME NEW d \in Display, d.present, d.busy = 0, d.width = 8, NEW reg, NEW n
  PROVE  Pulse(d, reg, n) = SetLines(Accept(d, reg, 16 * n), 0)
<1>1. ~(~d.present \/ d.busy > 0)
  OBVIOUS
<1> QED
  BY <1>1, PulseIs, Zenon

LEMMA PulseFirst ==
  ASSUME NEW d \in Display, d.present, d.busy = 0, d.width = 4, d.high = 16,
         NEW reg, NEW n
  PROVE  Pulse(d, reg, n) = SetHigh(d, n)
<1>1. ~(~d.present \/ d.busy > 0) /\ d.width # 8 /\ d.high = NoNibble
  BY DEF NoNibble
<1> QED
  BY <1>1, PulseIs, Zenon

LEMMA PulseSecond ==
  ASSUME NEW d \in Display, d.present, d.busy = 0, d.width = 4, d.high # 16,
         NEW reg, NEW n
  PROVE  Pulse(d, reg, n) = Accept(SetHigh(d, 16), reg, 16 * d.high + n)
<1>1. ~(~d.present \/ d.busy > 0) /\ d.width # 8 /\ d.high # NoNibble
  BY DEF NoNibble
<1>2. NoNibble = 16
  BY DEF NoNibble
<1> QED
  BY <1>1, <1>2, PulseIs, Zenon

-----------------------------------------------------------------------------
(* 1602.c *)

\* Displays has the controller twice, once for each driver.
LEMMA SameController ==
  ASSUME NEW d, NEW reg, NEW n
  PROVE  /\ Simple!Pulse(d, reg, n) = Pulse(d, reg, n)
         /\ Simple!Elapse(d, n) = Elapse(d, n)
         /\ Simple!Working(d) <=> Working(d)
<1>1. ASSUME NEW e, NEW b
      PROVE  Simple!Instruction(e, b) = Instruction(e, b)
  BY Zenon DEF Simple!Instruction, Instruction
<1>2. ASSUME NEW e, NEW b
      PROVE  Simple!Accept(e, reg, b) = Accept(e, reg, b)
  BY <1>1, Zenon DEF Simple!Accept, Accept, Simple!DataByte, DataByte
<1>3. Simple!Pulse(d, reg, n) = Pulse(d, reg, n)
  BY <1>2, Zenon DEF Simple!Pulse, Pulse, Simple!NoNibble, NoNibble
<1>4. Simple!Elapse(d, n) = Elapse(d, n)
  BY Zenon DEF Simple!Elapse, Elapse
<1>5. Simple!Working(d) <=> Working(d)
  BY Zenon DEF Simple!Working, Working, Simple!InSync, InSync,
               Simple!NoNibble, NoNibble
<1> QED
  BY <1>3, <1>4, <1>5, Zenon

\* What a turn of the loop is worth: the display is ready for an instruction
\* or a character when the 19 turns after the one before and the 16 before
\* this one have passed.  Left is what may be left after the 19.
Left == (16 * Loop) \div 10

LEMMA Delays ==
  /\ Left \in Nat
  /\ (3 * Loop) \div 10 \in Nat /\ (3 * Loop) \div 10 < 37
  /\ (19 * Loop) \div 10 \in Nat
  /\ 41 - ((19 * Loop) \div 10) <= Left
<1>1. ASSUME NEW n \in Nat, n <= 123, n >= 12
      PROVE  /\ (16 * n) \div 10 \in Nat
             /\ (3 * n) \div 10 \in Nat /\ (3 * n) \div 10 < 37
             /\ (19 * n) \div 10 \in Nat
             /\ 41 - ((19 * n) \div 10) <= (16 * n) \div 10
  BY <1>1
<1>2. Loop \in Nat /\ Loop <= 123 /\ Loop >= 12
  BY LoopAssumption
<1> QED
  BY <1>1, <1>2 DEF Left

LEMMA WriteIsPulses ==
  ASSUME NEW d, NEW reg, NEW b
  PROVE  Simple!LCD_write(d, reg, b)
           = Elapse(Pulse(Elapse(Pulse(Elapse(d, Left), reg, b \div 16),
                                 (3 * Loop) \div 10),
                          reg, b % 16), (19 * Loop) \div 10)
<1>1. ASSUME NEW x, NEW n
      PROVE  Simple!delay_nus(x, n) = Elapse(x, (n * Loop) \div 10)
  BY SameController, Zenon DEF Simple!delay_nus
<1>2. 3 + 16 = 19
  OBVIOUS
<1>3. Simple!LCD_write(d, reg, b)
        = Elapse(Pulse(Elapse(Pulse(Elapse(d, (16 * Loop) \div 10), reg, b \div 16),
                              (3 * Loop) \div 10),
                       reg, b % 16), ((3 + 16) * Loop) \div 10)
  <2>1. Simple!LCD_write(d, reg, b)
          = Simple!delay_nus(
              Simple!Pulse(
                Simple!delay_nus(Simple!Pulse(Simple!delay_nus(d, 16), reg, b \div 16), 3),
                reg, b % 16), 3 + 16)
    BY Zenon DEF Simple!LCD_write
  <2> QED
    BY <1>1, <2>1, SameController
<1> QED
  BY <1>2, <1>3, Zenon DEF Left

\* A display in step takes what LCD_write sends it as one byte.
LEMMA WriteIsByte ==
  ASSUME NEW d \in Display, d.present, d.width = 4, d.high = 16, d.busy <= Left,
         NEW reg, NEW b \in Nat, b <= 255
  PROVE  \E e \in Display :
           /\ Reads(e, d.present, 4, 16, 0, d.lines, d.on, d.addr)
           /\ Simple!LCD_write(d, reg, b)
                = Elapse(Accept(e, reg, b), (19 * Loop) \div 10)
<1> DEFINE e == Elapse(d, Left)
           h == b \div 16
           f == SetHigh(e, h)
           g == Elapse(f, (3 * Loop) \div 10)
<1>1. 0 <= Left /\ 0 <= (3 * Loop) \div 10
  BY Delays
<1>2. Reads(e, d.present, 4, 16, 0, d.lines, d.on, d.addr)
  BY ElapseReads, Delays
<1>3. h \in Nat /\ h <= 15 /\ 16 * h + (b % 16) = b
  OBVIOUS
<1>4. Pulse(e, reg, h) = f
  <2> HIDE DEF e, h
  <2> QED
    BY <1>2, PulseFirst DEF Reads
<1>5. Reads(f, d.present, 4, h, 0, d.lines, d.on, d.addr)
  <2> HIDE DEF e, h
  <2>1. e \in Display /\ h <= 16
    BY <1>2, <1>3 DEF Reads
  <2>2. Reads(f, e.present, e.width, h, e.busy, e.lines, e.on, e.addr)
    BY <1>3, <2>1, SetHighReads
  <2> QED
    BY <1>2, <2>2 DEF Reads
<1>6. Reads(g, d.present, 4, h, 0, d.lines, d.on, d.addr)
  <2> HIDE DEF f, h
  <2>1. f \in Display /\ f.busy <= (3 * Loop) \div 10
    BY <1>1, <1>5 DEF Reads
  <2>2. Reads(g, f.present, f.width, f.high, 0, f.lines, f.on, f.addr)
    BY <2>1, Delays, ElapseReads
  <2> QED
    BY <1>5, <2>2 DEF Reads
<1>7. Reads(SetHigh(g, 16), d.present, 4, 16, 0, d.lines, d.on, d.addr)
  <2> HIDE DEF g, h
  <2>1. g \in Display
    BY <1>6 DEF Reads
  <2>2. Reads(SetHigh(g, 16), g.present, g.width, 16, g.busy, g.lines, g.on, g.addr)
    BY <2>1, SetHighReads
  <2> QED
    BY <1>6, <2>2 DEF Reads
<1>8. Pulse(g, reg, b % 16) = Accept(SetHigh(g, 16), reg, b)
  <2> HIDE DEF g, h
  <2>1. g.high # 16
    BY <1>3, <1>6 DEF Reads
  <2>2. 16 * g.high + (b % 16) = b
    BY <1>3, <1>6 DEF Reads
  <2> QED
    BY <1>6, <2>1, <2>2, PulseSecond DEF Reads
<1>9. Simple!LCD_write(d, reg, b)
        = Elapse(Pulse(Elapse(Pulse(Elapse(d, Left), reg, h), (3 * Loop) \div 10),
                       reg, b % 16), (19 * Loop) \div 10)
  BY WriteIsPulses
<1>10. Simple!LCD_write(d, reg, b)
         = Elapse(Accept(SetHigh(g, 16), reg, b), (19 * Loop) \div 10)
  BY <1>4, <1>8, <1>9
<1>11. SetHigh(g, 16) \in Display
  BY <1>7 DEF Reads
<1> HIDE DEF g
<1> QED
  BY <1>7, <1>10, <1>11

\* Between two bytes.
InStep(d) ==
  /\ d \in Display
  /\ d.present /\ d.width = 4 /\ d.high = 16
  /\ d.busy <= Left

\* After the delay that follows a byte of at most 41 microseconds.
LEMMA ByteTakesItsTime ==
  ASSUME NEW d \in Display, d.present, d.width = 4, d.high = 16, d.busy <= 41
  PROVE  LET after == Elapse(d, (19 * Loop) \div 10) IN
         /\ InStep(after)
         /\ after.lines = d.lines /\ after.on = d.on /\ after.addr = d.addr
<1> DEFINE t == (19 * Loop) \div 10
           after == Elapse(d, t)
<1>1. t \in Nat /\ Left \in Nat /\ 41 - t <= Left
  BY Delays
<1> HIDE DEF t
<1>2. d.busy \in Nat
  BY FieldTypes
<1>3. after.busy = IF d.busy > t THEN d.busy - t ELSE 0
  BY <1>1, ElapseFields
<1>4. after.busy <= Left
  <2> DEFINE n == d.busy
  <2>1. n \in Nat /\ n <= 41
    BY <1>2
  <2>2. (IF n > t THEN n - t ELSE 0) <= Left
    <3> HIDE DEF n
    <3> QED
      BY <1>1, <2>1
  <2> QED
    BY <1>3, <2>2
<1>5. /\ after \in Display /\ after.present /\ after.width = 4 /\ after.high = 16
      /\ after.lines = d.lines /\ after.on = d.on /\ after.addr = d.addr
  BY <1>1, ElapseFields
<1> QED
  BY <1>4, <1>5 DEF InStep, t

LEMMA WriteData ==
  ASSUME NEW d, InStep(d), NEW b \in Nat, b <= 255
  PROVE  LET after == Simple!LCD_write(d, 1, b) IN
         /\ InStep(after)
         /\ after.lines = d.lines /\ after.on = d.on
         /\ after.addr = (d.addr + 1) % 128
<1>1. PICK e \in Display :
        /\ Reads(e, d.present, 4, 16, 0, d.lines, d.on, d.addr)
        /\ Simple!LCD_write(d, 1, b) = Elapse(Accept(e, 1, b), (19 * Loop) \div 10)
  BY WriteIsByte DEF InStep
<1>2. Accept(e, 1, b) = DataByte(e)
  BY DEF Accept
<1> DEFINE r == DataByte(e)
<1>3. /\ r \in Display /\ r.present /\ r.width = 4 /\ r.high = 16 /\ r.busy <= 41
      /\ r.lines = d.lines /\ r.on = d.on /\ r.addr = (d.addr + 1) % 128
  <2>1. Reads(r, e.present, e.width, e.high, 41, e.lines, e.on, (e.addr + 1) % 128)
    BY DataByteFields DEF Reads
  <2>2. d.present
    BY DEF InStep
  <2> HIDE DEF r
  <2> QED
    BY <1>1, <2>1, <2>2 DEF Reads
<1>4. Simple!LCD_write(d, 1, b) = Elapse(r, (19 * Loop) \div 10)
  BY <1>1, <1>2
<1> HIDE DEF r
<1> QED
  BY <1>3, <1>4, ByteTakesItsTime

\* An instruction but for the one that clears.
LEMMA WriteInstruction ==
  ASSUME NEW d, InStep(d), NEW b \in Nat, b <= 255
  PROVE  \E e \in Display :
           /\ Reads(e, d.present, 4, 16, 0, d.lines, d.on, d.addr)
           /\ LET r == Instruction(e, b)
                  after == Simple!LCD_write(d, 0, b)
              IN r \in Display /\ r.present /\ r.width = 4 /\ r.high = 16 /\ r.busy <= 41
                 => /\ InStep(after)
                    /\ after.lines = r.lines /\ after.on = r.on /\ after.addr = r.addr
<1>1. PICK e \in Display :
        /\ Reads(e, d.present, 4, 16, 0, d.lines, d.on, d.addr)
        /\ Simple!LCD_write(d, 0, b) = Elapse(Accept(e, 0, b), (19 * Loop) \div 10)
  BY WriteIsByte DEF InStep
<1>2. Accept(e, 0, b) = Instruction(e, b)
  BY DEF Accept
<1> DEFINE r == Instruction(e, b)
           after == Simple!LCD_write(d, 0, b)
<1>3. after = Elapse(r, (19 * Loop) \div 10)
  BY <1>1, <1>2
<1>4. r \in Display /\ r.present /\ r.width = 4 /\ r.high = 16 /\ r.busy <= 41
      => /\ InStep(after)
         /\ after.lines = r.lines /\ after.on = r.on /\ after.addr = r.addr
  <2> HIDE DEF r, after
  <2> QED
    BY <1>3, ByteTakesItsTime
<1> QED
  BY <1>1, <1>4

LEMMA WriteFunction ==
  ASSUME NEW d, InStep(d)
  PROVE  LET after == Simple!LCD_write(d, 0, 40) IN
         /\ InStep(after)
         /\ after.lines = 2
<1> DEFINE b == 40
           after == Simple!LCD_write(d, 0, b)
<1>1. b \in Nat /\ b <= 255
  OBVIOUS
<1>2. PICK e \in Display :
        /\ Reads(e, d.present, 4, 16, 0, d.lines, d.on, d.addr)
        /\ LET r == Instruction(e, b)
           IN r \in Display /\ r.present /\ r.width = 4 /\ r.high = 16 /\ r.busy <= 41
              => /\ InStep(after)
                 /\ after.lines = r.lines /\ after.on = r.on /\ after.addr = r.addr
  <2> HIDE DEF b
  <2> QED
    BY <1>1, WriteInstruction
<1>3. Reads(Instruction(e, b), e.present, 4, e.high, 37, 2, e.on, e.addr)
  BY FunctionReads
<1> HIDE DEF b, after
<1>4. d.present
  BY DEF InStep
<1>5. InStep(after) /\ after.lines = 2
  BY <1>2, <1>3, <1>4 DEF Reads
<1> QED
  BY <1>5 DEF after, b

LEMMA WriteEntryMode ==
  ASSUME NEW d, InStep(d)
  PROVE  LET after == Simple!LCD_write(d, 0, 6) IN
         /\ InStep(after)
         /\ after.lines = d.lines
<1> DEFINE b == 6
           after == Simple!LCD_write(d, 0, b)
<1>1. b \in Nat /\ b <= 255
  OBVIOUS
<1>2. PICK e \in Display :
        /\ Reads(e, d.present, 4, 16, 0, d.lines, d.on, d.addr)
        /\ LET r == Instruction(e, b)
           IN r \in Display /\ r.present /\ r.width = 4 /\ r.high = 16 /\ r.busy <= 41
              => /\ InStep(after)
                 /\ after.lines = r.lines /\ after.on = r.on /\ after.addr = r.addr
  <2> HIDE DEF b
  <2> QED
    BY <1>1, WriteInstruction
<1>3. Reads(Instruction(e, b), e.present, e.width, e.high, 37, e.lines, e.on, e.addr)
  BY EntryModeReads
<1> HIDE DEF b, after
<1>4. d.present
  BY DEF InStep
<1>5. InStep(after) /\ after.lines = d.lines
  BY <1>2, <1>3, <1>4 DEF Reads
<1> QED
  BY <1>5 DEF after, b

LEMMA WriteOn ==
  ASSUME NEW d, InStep(d)
  PROVE  LET after == Simple!LCD_write(d, 0, 12) IN
         /\ InStep(after)
         /\ after.lines = d.lines /\ after.on
<1> DEFINE b == 12
           after == Simple!LCD_write(d, 0, b)
<1>1. b \in Nat /\ b <= 255
  OBVIOUS
<1>2. PICK e \in Display :
        /\ Reads(e, d.present, 4, 16, 0, d.lines, d.on, d.addr)
        /\ LET r == Instruction(e, b)
           IN r \in Display /\ r.present /\ r.width = 4 /\ r.high = 16 /\ r.busy <= 41
              => /\ InStep(after)
                 /\ after.lines = r.lines /\ after.on = r.on /\ after.addr = r.addr
  <2> HIDE DEF b
  <2> QED
    BY <1>1, WriteInstruction
<1>3. Reads(Instruction(e, b), e.present, e.width, e.high, 37, e.lines, TRUE, e.addr)
  BY OnReads
<1> HIDE DEF b, after
<1>4. d.present
  BY DEF InStep
<1>5. InStep(after) /\ after.lines = d.lines /\ after.on
  BY <1>2, <1>3, <1>4 DEF Reads
<1> QED
  BY <1>5 DEF after, b

LEMMA WriteAddress ==
  ASSUME NEW d, InStep(d), NEW n \in Nat, n <= 127
  PROVE  LET after == Simple!LCD_write(d, 0, 128 + n) IN
         /\ InStep(after)
         /\ after.lines = d.lines /\ after.on = d.on /\ after.addr = n
<1> DEFINE b == 128 + n
           after == Simple!LCD_write(d, 0, b)
<1>1. b \in Nat /\ b <= 255
  OBVIOUS
<1>2. PICK e \in Display :
        /\ Reads(e, d.present, 4, 16, 0, d.lines, d.on, d.addr)
        /\ LET r == Instruction(e, b)
           IN r \in Display /\ r.present /\ r.width = 4 /\ r.high = 16 /\ r.busy <= 41
              => /\ InStep(after)
                 /\ after.lines = r.lines /\ after.on = r.on /\ after.addr = r.addr
  <2> HIDE DEF b
  <2> QED
    BY <1>1, WriteInstruction
<1>3. Reads(Instruction(e, b), e.present, e.width, e.high, 37, e.lines, e.on, n)
  BY AddressReads
<1> HIDE DEF b, after
<1>4. d.present
  BY DEF InStep
<1>5. InStep(after) /\ after.lines = d.lines /\ after.on = d.on /\ after.addr = n
  BY <1>2, <1>3, <1>4 DEF Reads
<1> QED
  BY <1>5 DEF after, b

\* Long enough for any instruction.
LEMMA LongDelay ==
  ASSUME NEW d \in Display, d.present, d.width = 4, d.high = 16
  PROVE  LET after == Elapse(d, 40000) IN
         InStep(after) /\ after.lines = d.lines /\ after.on = d.on
<1> DEFINE t == 40000
           after == Elapse(d, t)
<1>1. t \in Nat /\ d.busy <= t
  BY FieldTypes
<1>2. Reads(after, d.present, d.width, d.high, 0, d.lines, d.on, d.addr)
  <2> HIDE DEF t
  <2> QED
    BY <1>1, ElapseReads
<1>3. 0 <= Left
  BY Delays
<1>4. InStep(after) /\ after.lines = d.lines /\ after.on = d.on
  <2> HIDE DEF after
  <2> QED
    BY <1>2, <1>3 DEF Reads, InStep
<1> QED
  BY <1>4

LEMMA WriteClear ==
  ASSUME NEW d, InStep(d)
  PROVE  LET after == Elapse(Simple!LCD_write(d, 0, 1), 40000) IN
         InStep(after) /\ after.lines = d.lines /\ after.on = d.on
<1> DEFINE b == 1
<1>0. b \in Nat /\ b <= 255
  OBVIOUS
<1>1. PICK e \in Display :
        /\ Reads(e, d.present, 4, 16, 0, d.lines, d.on, d.addr)
        /\ Simple!LCD_write(d, 0, b) = Elapse(Accept(e, 0, b), (19 * Loop) \div 10)
  <2> HIDE DEF b
  <2> QED
    BY <1>0, WriteIsByte DEF InStep
<1> DEFINE r == Instruction(e, b)
           s == Elapse(r, (19 * Loop) \div 10)
<1>2. Simple!LCD_write(d, 0, b) = s
  BY <1>1 DEF Accept
<1>3. r \in Display /\ r.present /\ r.width = 4 /\ r.high = 16
      /\ r.lines = d.lines /\ r.on = d.on
  <2>1. Reads(r, e.present, e.width, e.high, 1520, e.lines, e.on, 0)
    BY ClearReads
  <2>2. d.present
    BY DEF InStep
  <2> HIDE DEF r
  <2> QED
    BY <1>1, <2>1, <2>2 DEF Reads
<1>4. s \in Display /\ s.present /\ s.width = 4 /\ s.high = 16
      /\ s.lines = d.lines /\ s.on = d.on
  <2> DEFINE t == (19 * Loop) \div 10
  <2>1. t \in Nat
    BY Delays
  <2>2. s = Elapse(r, t)
    OBVIOUS
  <2> HIDE DEF r, s, t
  <2> QED
    BY <1>3, <2>1, <2>2, ElapseFields
<1> HIDE DEF s, b
<1>5. LET after == Elapse(Simple!LCD_write(d, 0, b), 40000) IN
      InStep(after) /\ after.lines = d.lines /\ after.on = d.on
  BY <1>2, <1>4, LongDelay
<1> QED
  BY <1>5 DEF b

\* The first command: in 8-bit mode its first half is the whole instruction,
\* and its second half meets a busy display.
LEMMA WriteFirst ==
  ASSUME NEW d \in Display, d.present, d.high = 16, d.busy = 0
  PROVE  InStep(Elapse(Simple!LCD_write(d, 0, 32), 40000))
<1>1. d.width = 4 \/ d.width = 8
  BY FieldTypes
<1>2. CASE d.width = 4
  <2> DEFINE b == 32
             after == Simple!LCD_write(d, 0, b)
  <2>0. b \in Nat /\ b <= 255
    OBVIOUS
  <2>1. InStep(d)
    <3>1. 0 <= Left
      BY Delays
    <3> QED
      BY <1>2, <3>1 DEF InStep
  <2>2. PICK e \in Display :
          /\ Reads(e, d.present, 4, 16, 0, d.lines, d.on, d.addr)
          /\ LET r == Instruction(e, b)
             IN r \in Display /\ r.present /\ r.width = 4 /\ r.high = 16 /\ r.busy <= 41
                => /\ InStep(after)
                   /\ after.lines = r.lines /\ after.on = r.on /\ after.addr = r.addr
    <3> HIDE DEF b
    <3> QED
      BY <2>0, <2>1, WriteInstruction
  <2>3. Reads(Instruction(e, b), e.present, 4, e.high, 37, 1, e.on, e.addr)
    BY FunctionReads
  <2> HIDE DEF after, b
  <2>4. InStep(after)
    BY <2>2, <2>3 DEF Reads
  <2>5. InStep(Elapse(after, 40000))
    BY <2>4, LongDelay DEF InStep
  <2> QED
    BY <2>5 DEF after, b
<1>3. CASE d.width = 8
  <2> DEFINE e == Elapse(d, Left)
             f == SetLines(Instruction(e, 32), 0)
             g == Elapse(f, (3 * Loop) \div 10)
             k == Elapse(g, (19 * Loop) \div 10)
  <2>1. Reads(e, d.present, 8, 16, 0, d.lines, d.on, d.addr)
    <3>1. d.busy <= Left /\ Left \in Nat
      BY Delays
    <3> QED
      BY <1>3, <3>1, ElapseReads
  <2>2. Pulse(e, 0, 2) = f
    <3>1. Accept(e, 0, 32) = Instruction(e, 32)
      BY DEF Accept
    <3> HIDE DEF e
    <3>2. Pulse(e, 0, 2) = SetLines(Accept(e, 0, 16 * 2), 0)
      BY <2>1, PulseWide DEF Reads
    <3>3. 16 * 2 = 32
      OBVIOUS
    <3> QED
      BY <3>1, <3>2, <3>3
  <2>3. Reads(f, d.present, 4, 16, 37, 0, d.on, d.addr)
    <3> DEFINE r == Instruction(e, 32)
    <3>1. Reads(r, e.present, 4, e.high, 37, 1, e.on, e.addr)
      <4> HIDE DEF e
      <4> QED
        BY <2>1, FunctionReads DEF Reads
    <3> HIDE DEF e, r
    <3>2. Reads(SetLines(r, 0), r.present, r.width, r.high, r.busy, 0, r.on, r.addr)
      BY <3>1, SetLinesFields DEF Reads
    <3>3. Reads(SetLines(r, 0), d.present, 4, 16, 37, 0, d.on, d.addr)
      BY <2>1, <3>1, <3>2 DEF Reads
    <3> QED
      BY <3>3 DEF r
  <2>4. /\ g \in Display /\ g.present /\ g.width = 4 /\ g.high = 16
        /\ g.busy > 0
    <3> DEFINE t == (3 * Loop) \div 10
    <3>1. t \in Nat /\ t < 37
      BY Delays
    <3>0. g = Elapse(f, t)
      OBVIOUS
    <3> HIDE DEF f, g, t
    <3>2. /\ g \in Display /\ g.present /\ g.width = 4 /\ g.high = 16
          /\ g.busy = IF f.busy > t THEN f.busy - t ELSE 0
      <4>1. f \in Display /\ f.present /\ f.width = 4 /\ f.high = 16
        BY <2>3 DEF Reads
      <4> QED
        BY <3>0, <3>1, <4>1, ElapseFields
    <3>3. f.busy = 37
      BY <2>3 DEF Reads
    <3> QED
      BY <3>1, <3>2, <3>3
  <2>5. Pulse(g, 0, 0) = g
    <3> HIDE DEF g
    <3> QED
      BY <2>4, PulseIgnored
  <2>6. k \in Display /\ k.present /\ k.width = 4 /\ k.high = 16
    <3> HIDE DEF g
    <3> QED
      BY <2>4, ElapseFields, Delays
  <2>7. Simple!LCD_write(d, 0, 32) = k
    <3>1. Simple!LCD_write(d, 0, 32)
            = Elapse(Pulse(Elapse(Pulse(Elapse(d, Left), 0, 32 \div 16),
                                  (3 * Loop) \div 10),
                           0, 32 % 16), (19 * Loop) \div 10)
      BY WriteIsPulses
    <3>2. 32 \div 16 = 2 /\ 32 % 16 = 0
      OBVIOUS
    <3> HIDE DEF e, f, g, k
    <3>3. Simple!LCD_write(d, 0, 32)
            = Elapse(Pulse(Elapse(Pulse(Elapse(d, Left), 0, 2), (3 * Loop) \div 10), 0, 0),
                     (19 * Loop) \div 10)
      BY <3>1, <3>2
    <3> QED
      BY <2>2, <2>5, <3>3 DEF e, g, k
  <2> HIDE DEF k
  <2> QED
    BY <2>6, <2>7, LongDelay
<1> QED
  BY <1>1, <1>2, <1>3
-----------------------------------------------------------------------------
(* The invariant of 1602.c *)

\* LCD_init brings the display into step with its first command, to two rows
\* with its second, and switches it on with its fourth.
SettingUp ==
  pc = "init" =>
    /\ pos <= 4
    /\ pos = 0 => /\ panel \in Display /\ panel.present
                  /\ panel.high = 16 /\ panel.busy = 0
    /\ pos >= 1 => InStep(panel)
    /\ pos >= 2 => panel.lines = 2
    /\ pos >= 4 => panel.on

SetUp == pc # "init" => InStep(panel) /\ panel.lines = 2 /\ panel.on

\* The places of the first n characters.
Written(n) == {Simple!Cell(p) : p \in 1 .. n}

\* Between two characters of lcd1602_puts the display's address is the place
\* of the next, except at the start of a row, where it is going to be set.
Putting ==
  pc = "puts" =>
    /\ pos <= len /\ pos <= 32
    /\ pos # 0 /\ pos <= 15 => panel.addr = pos
    /\ pos >= 17 /\ pos <= 31 => panel.addr = 48 + pos
    /\ DOMAIN cells = DOMAIN before \cup Written(pos)
    /\ \A p \in 1 .. pos : cells[Simple!Cell(p)] = p
    /\ \A a \in DOMAIN before \ Written(pos) : cells[a] = before[a]

SimpleInv ==
  /\ pc \in {"init", "idle", "puts", "string"}
  /\ pos \in Nat /\ len \in Nat
  /\ SettingUp /\ SetUp /\ Putting

LEMMA SimpleInvInit == Simple!Init => SimpleInv
<1> SUFFICES ASSUME Simple!Init PROVE SimpleInv
  OBVIOUS
<1>1. PICK w \in {4, 8} :
        panel = [present |-> TRUE, width |-> w, high |-> 16, busy |-> 0,
                 lines |-> 0, on |-> FALSE, addr |-> 0]
  BY DEF Simple!Init, Simple!Start, Simple!NoNibble
<1>2. /\ panel \in Display /\ panel.present
      /\ panel.high = 16 /\ panel.busy = 0
  BY <1>1 DEF Display, Nibbles
<1>3. pc = "init" /\ pos = 0 /\ len = 0
  BY DEF Simple!Init
<1> QED
  BY <1>2, <1>3 DEF SimpleInv, SettingUp, SetUp, Putting

LEMMA InitStep ==
  SimpleInv /\ Simple!LCD_init => SimpleInv'
<1> SUFFICES ASSUME SimpleInv, Simple!LCD_init PROVE SimpleInv'
  OBVIOUS
<1> DEFINE command == Simple!InitCommands[pos + 1]
           sent == Simple!LCD_write(panel, 0, command)
<1>1. /\ pc = "init" /\ pos \in Nat /\ len \in Nat /\ pos <= 4
      /\ SettingUp
  BY DEF SimpleInv, SettingUp, Simple!LCD_init
<1>2. /\ panel' = IF pos + 1 \in {1, 5} THEN Elapse(sent, 40000) ELSE sent
      /\ len' = len
  BY SameController DEF Simple!LCD_init
<1>3. /\ pos + 1 < 5 => pos' = pos + 1 /\ pc' = pc
      /\ ~(pos + 1 < 5) => pos' = 0 /\ pc' = "idle"
  BY DEF Simple!LCD_init
<1>4. pos = 0 \/ pos = 1 \/ pos = 2 \/ pos = 3 \/ pos = 4
  BY <1>1
<1>5. CASE pos = 0
  <2>1. command = 32 /\ panel' = Elapse(sent, 40000)
    BY <1>2, <1>5 DEF Simple!InitCommands
  <2>2. InStep(panel')
    <3>1. /\ panel \in Display /\ panel.present
          /\ panel.high = 16 /\ panel.busy = 0
      BY <1>1, <1>5 DEF SettingUp
    <3> QED
      BY <2>1, <3>1, WriteFirst
  <2> QED
    BY <1>1, <1>2, <1>3, <1>5, <2>2 DEF SimpleInv, SettingUp, SetUp, Putting
<1>6. CASE pos = 1
  <2>1. command = 40 /\ panel' = sent
    BY <1>2, <1>6 DEF Simple!InitCommands
  <2>2. InStep(panel') /\ panel'.lines = 2
    BY <1>1, <1>6, <2>1, WriteFunction DEF SettingUp
  <2> QED
    BY <1>1, <1>2, <1>3, <1>6, <2>2 DEF SimpleInv, SettingUp, SetUp, Putting
<1>7. CASE pos = 2
  <2>1. command = 6 /\ panel' = sent
    BY <1>2, <1>7 DEF Simple!InitCommands
  <2>2. InStep(panel') /\ panel'.lines = 2
    BY <1>1, <1>7, <2>1, WriteEntryMode DEF SettingUp
  <2> QED
    BY <1>1, <1>2, <1>3, <1>7, <2>2 DEF SimpleInv, SettingUp, SetUp, Putting
<1>8. CASE pos = 3
  <2>1. command = 12 /\ panel' = sent
    BY <1>2, <1>8 DEF Simple!InitCommands
  <2>2. InStep(panel') /\ panel'.lines = 2 /\ panel'.on
    BY <1>1, <1>8, <2>1, WriteOn DEF SettingUp
  <2> QED
    BY <1>1, <1>2, <1>3, <1>8, <2>2 DEF SimpleInv, SettingUp, SetUp, Putting
<1>9. CASE pos = 4
  <2>1. command = 1 /\ panel' = Elapse(sent, 40000)
    BY <1>2, <1>9 DEF Simple!InitCommands
  <2>2. InStep(panel') /\ panel'.lines = 2 /\ panel'.on
    BY <1>1, <1>9, <2>1, WriteClear DEF SettingUp
  <2> QED
    BY <1>1, <1>2, <1>3, <1>9, <2>2 DEF SimpleInv, SettingUp, SetUp, Putting
<1> QED
  BY <1>4, <1>5, <1>6, <1>7, <1>8, <1>9

\* The places of the characters are places, and differ.
LEMMA NextPlace ==
  ASSUME NEW n \in Nat, n <= 31
  PROVE  /\ Written(n + 1) = Written(n) \cup {Simple!Cell(n + 1)}
         /\ \A p \in 1 .. n : Simple!Cell(p) # Simple!Cell(n + 1)
         /\ Simple!Cell(n + 1) \notin Written(n)
<1>1. \A p \in 1 .. n + 1 : p \in 1 .. n \/ p = n + 1
  OBVIOUS
<1>2. \A p \in 1 .. n : p \in 1 .. n + 1
  OBVIOUS
<1>3. n + 1 \in 1 .. n + 1
  OBVIOUS
<1>4. Written(n + 1) = Written(n) \cup {Simple!Cell(n + 1)}
  BY <1>1, <1>2, <1>3, Zenon DEF Written
<1>5. ASSUME NEW p \in 1 .. n
      PROVE  Simple!Cell(p) # Simple!Cell(n + 1)
  BY DEF Simple!Cell
<1>6. Simple!Cell(n + 1) \notin Written(n)
  BY <1>5, Zenon DEF Written
<1> QED
  BY <1>4, <1>5, <1>6

LEMMA AddressStep ==
  ASSUME NEW d, InStep(d), d.lines = 2, d.on, NEW n \in Nat, n <= 127
  PROVE  LET after == Simple!LCD_write(d, 0, 128 + n) IN
         InStep(after) /\ after.lines = 2 /\ after.on /\ after.addr = n
<1> DEFINE after == Simple!LCD_write(d, 0, 128 + n)
<1>1. InStep(after) /\ after.lines = d.lines /\ after.on = d.on /\ after.addr = n
  <2>1. InStep(after) /\ after.addr = n
    BY WriteAddress
  <2>2. after.lines = d.lines
    BY WriteAddress
  <2>3. after.on = d.on
    BY WriteAddress
  <2> QED
    BY <2>1, <2>2, <2>3
<1> HIDE DEF after
<1>2. InStep(after) /\ after.lines = 2 /\ after.on /\ after.addr = n
  BY <1>1
<1> QED
  BY <1>2 DEF after

\* A character goes where the address points, which moves on.
LEMMA CharacterStep ==
  ASSUME NEW d, InStep(d), NEW ch \in Nat, Simple!WriteData(d, ch)
  PROVE  /\ InStep(panel')
         /\ panel'.lines = d.lines /\ panel'.on = d.on
         /\ panel'.addr = (d.addr + 1) % 128
         /\ cells' = [a \in DOMAIN cells \cup {d.addr} |->
                       IF a = d.addr THEN ch ELSE cells[a]]
<1> DEFINE b == 32 + (ch % 95)
<1>1. b \in Nat /\ b <= 255
  OBVIOUS
<1>2. panel' = Simple!LCD_write(d, 1, b)
  BY DEF Simple!WriteData
<1>3. /\ InStep(panel')
      /\ panel'.lines = d.lines /\ panel'.on = d.on
      /\ panel'.addr = (d.addr + 1) % 128
  <2> HIDE DEF b
  <2> QED
    BY <1>1, <1>2, WriteData
<1>4. panel'.addr # d.addr
  <2>1. d.addr \in Nat /\ d.addr <= 127
    BY FieldTypes DEF InStep
  <2>2. ASSUME NEW n \in Nat, n <= 127
        PROVE  (n + 1) % 128 # n
    OBVIOUS
  <2> QED
    BY <1>3, <2>1, <2>2
<1>5. cells' = [a \in DOMAIN cells \cup {d.addr} |->
                 IF a = d.addr THEN ch ELSE cells[a]]
  BY <1>4, Zenon DEF Simple!WriteData
<1> QED
  BY <1>3, <1>5

LEMMA CallPutsStep ==
  SimpleInv /\ Simple!CallPuts => SimpleInv'
<1> SUFFICES ASSUME SimpleInv, Simple!CallPuts PROVE SimpleInv'
  OBVIOUS
<1>1. /\ pc = "idle" /\ pc' = "puts" /\ len' \in Nat /\ pos' = 0
      /\ before' = cells /\ panel' = panel /\ cells' = cells
  BY LengthsAssumption DEF Simple!CallPuts, Simple!Call
<1>2. InStep(panel) /\ panel.lines = 2 /\ panel.on
  BY <1>1 DEF SimpleInv, SetUp
<1>3. Written(0) = {}
  <2>1. 1 .. 0 = {}
    OBVIOUS
  <2> QED
    BY <2>1, Zenon DEF Written
<1>4. Putting'
  BY <1>1, <1>3 DEF Putting
<1>5. SettingUp' /\ SetUp'
  BY <1>1, <1>2 DEF SettingUp, SetUp
<1> QED
  BY <1>1, <1>4, <1>5 DEF SimpleInv

LEMMA CallStringStep ==
  SimpleInv /\ Simple!CallString => SimpleInv'
<1> SUFFICES ASSUME SimpleInv, Simple!CallString PROVE SimpleInv'
  OBVIOUS
<1>1. /\ pc = "idle" /\ pc' = "string" /\ len' \in Nat /\ pos' = 0
  BY LengthsAssumption DEF Simple!CallString, Simple!Call
<1>2. InStep(panel) /\ panel.lines = 2 /\ panel.on
  BY <1>1 DEF SimpleInv, SetUp
<1>3. PICK n \in Nat : n <= 127 /\ panel' = Simple!LCD_write(panel, 0, 128 + n)
  <2>1. PICK y \in {0, 1} : /\ at' = Simple!LCD_set_xy(3, y)
                            /\ panel' = Simple!LCD_write(panel, 0, at')
    BY Zenon DEF Simple!CallString
  <2>2. at' = 128 + 3 \/ at' = 128 + 67
    BY <2>1 DEF Simple!LCD_set_xy
  <2>3. 3 \in Nat /\ 3 <= 127 /\ 67 \in Nat /\ 67 <= 127
    OBVIOUS
  <2> QED
    BY <2>1, <2>2, <2>3, Zenon
<1>4. InStep(panel') /\ panel'.lines = 2 /\ panel'.on
  BY <1>2, <1>3, AddressStep
<1> QED
  BY <1>1, <1>4 DEF SimpleInv, SettingUp, SetUp, Putting

LEMMA ReturnStep ==
  SimpleInv /\ pc # "init" /\ Simple!Return => SimpleInv'
<1> SUFFICES ASSUME SimpleInv, pc # "init", Simple!Return PROVE SimpleInv'
  OBVIOUS
<1>1. pc' = "idle" /\ pos' = 0 /\ len' = 0 /\ panel' = panel
  BY DEF Simple!Return
<1>2. InStep(panel) /\ panel.lines = 2 /\ panel.on
  BY DEF SimpleInv, SetUp
<1> QED
  BY <1>1, <1>2 DEF SimpleInv, SettingUp, SetUp, Putting

LEMMA WriteStringStep ==
  SimpleInv /\ Simple!WriteString => SimpleInv'
<1> SUFFICES ASSUME SimpleInv, Simple!WriteString PROVE SimpleInv'
  OBVIOUS
<1>1. pc = "string" /\ pos \in Nat /\ len \in Nat
  BY DEF SimpleInv, Simple!WriteString
<1>2. CASE pos = len
  BY <1>1, <1>2, ReturnStep DEF Simple!WriteString
<1>3. CASE pos # len
  <2>1. /\ Simple!WriteData(panel, pos + 1)
        /\ pos' = pos + 1 /\ pc' = pc /\ len' = len
    BY <1>3 DEF Simple!WriteString
  <2>2. InStep(panel) /\ panel.lines = 2 /\ panel.on
    BY <1>1 DEF SimpleInv, SetUp
  <2>3. InStep(panel') /\ panel'.lines = 2 /\ panel'.on
    <3> DEFINE ch == pos + 1
    <3>1. ch \in Nat /\ Simple!WriteData(panel, ch)
      BY <1>1, <2>1
    <3> HIDE DEF ch
    <3>2. InStep(panel') /\ panel'.lines = panel.lines /\ panel'.on = panel.on
      BY <2>2, <3>1, CharacterStep
    <3> QED
      BY <2>2, <3>2
  <2> QED
    BY <1>1, <2>1, <2>3 DEF SimpleInv, SettingUp, SetUp, Putting
<1> QED
  BY <1>2, <1>3

LEMMA PutsStep ==
  SimpleInv /\ Simple!lcd1602_puts => SimpleInv'
<1> SUFFICES ASSUME SimpleInv, Simple!lcd1602_puts PROVE SimpleInv'
  OBVIOUS
<1>1. pc = "puts" /\ pos \in Nat /\ len \in Nat
  BY DEF SimpleInv, Simple!lcd1602_puts
<1>2. CASE pos = len \/ pos > 31
  BY <1>1, <1>2, ReturnStep DEF Simple!lcd1602_puts
<1>3. CASE ~(pos = len \/ pos > 31)
  <2>1. /\ pos' = pos + 1 /\ pc' = pc /\ len' = len /\ before' = before
        /\ IF Simple!RowStart(pos) = {} THEN Simple!WriteData(panel, pos + 1)
           ELSE \E a \in Simple!RowStart(pos) :
                  Simple!WriteData(Simple!LCD_write(panel, 0, a), pos + 1)
    BY <1>3 DEF Simple!lcd1602_puts
  <2>2. InStep(panel) /\ panel.lines = 2 /\ panel.on
    BY <1>1 DEF SimpleInv, SetUp
  <2>3. pos <= 31 /\ pos < len
    BY <1>1, <1>3 DEF SimpleInv, Putting
  <2>4. PICK d : /\ InStep(d) /\ d.lines = 2 /\ d.on
                 /\ d.addr = Simple!Cell(pos + 1)
                 /\ Simple!WriteData(d, pos + 1)
    <3>1. CASE pos = 0
      <4>1. Simple!RowStart(pos) = {128}
        BY <3>1 DEF Simple!RowStart, Simple!LCD_set_xy
      <4>2. Simple!WriteData(Simple!LCD_write(panel, 0, 128 + 0), pos + 1)
        BY <2>1, <4>1
      <4>3. 0 \in Nat /\ 0 <= 127 /\ Simple!Cell(pos + 1) = 0
        BY <3>1 DEF Simple!Cell
      <4> DEFINE n == 0
                 d == Simple!LCD_write(panel, 0, 128 + n)
      <4>4. InStep(d) /\ d.lines = 2 /\ d.on /\ d.addr = n
        <5>1. n \in Nat /\ n <= 127
          BY <4>3
        <5> HIDE DEF n
        <5> QED
          BY <2>2, <5>1, AddressStep
      <4> HIDE DEF d
      <4>5. Simple!WriteData(d, pos + 1)
        BY <4>2 DEF d
      <4> QED
        BY <4>3, <4>4, <4>5
    <3>2. CASE pos = 16
      <4>1. Simple!RowStart(pos) = {192}
        BY <3>2 DEF Simple!RowStart, Simple!LCD_set_xy
      <4>2. Simple!WriteData(Simple!LCD_write(panel, 0, 128 + 64), pos + 1)
        BY <2>1, <4>1
      <4>3. 64 \in Nat /\ 64 <= 127 /\ Simple!Cell(pos + 1) = 64
        BY <3>2 DEF Simple!Cell
      <4> DEFINE n == 64
                 d == Simple!LCD_write(panel, 0, 128 + n)
      <4>4. InStep(d) /\ d.lines = 2 /\ d.on /\ d.addr = n
        <5>1. n \in Nat /\ n <= 127
          BY <4>3
        <5> HIDE DEF n
        <5> QED
          BY <2>2, <5>1, AddressStep
      <4> HIDE DEF d
      <4>5. Simple!WriteData(d, pos + 1)
        BY <4>2 DEF d
      <4> QED
        BY <4>3, <4>4, <4>5
    <3>3. CASE pos # 0 /\ pos # 16
      <4>1. Simple!RowStart(pos) = {}
        BY <3>3 DEF Simple!RowStart
      <4>2. Simple!WriteData(panel, pos + 1)
        BY <2>1, <4>1
      <4>3. panel.addr = Simple!Cell(pos + 1)
        <5>1. /\ pos <= 15 => panel.addr = pos
              /\ pos >= 17 => panel.addr = 48 + pos
          BY <1>1, <2>3, <3>3 DEF SimpleInv, Putting
        <5> QED
          BY <1>1, <2>3, <3>3, <5>1 DEF Simple!Cell
      <4> QED
        BY <2>2, <4>2, <4>3
    <3> QED
      BY <3>1, <3>2, <3>3
  <2> DEFINE place == Simple!Cell(pos + 1)
  <2>5. /\ InStep(panel') /\ panel'.lines = 2 /\ panel'.on
        /\ panel'.addr = (place + 1) % 128
        /\ cells' = [a \in DOMAIN cells \cup {place} |->
                      IF a = place THEN pos + 1 ELSE cells[a]]
    <3> DEFINE ch == pos + 1
    <3>1. ch \in Nat /\ Simple!WriteData(d, ch)
      BY <1>1, <2>4
    <3> HIDE DEF ch
    <3>2. /\ InStep(panel') /\ panel'.lines = d.lines /\ panel'.on = d.on
          /\ panel'.addr = (d.addr + 1) % 128
          /\ cells' = [a \in DOMAIN cells \cup {d.addr} |->
                        IF a = d.addr THEN ch ELSE cells[a]]
      BY <2>4, <3>1, CharacterStep
    <3> HIDE DEF place
    <3>3. d.addr = place
      BY <2>4 DEF place
    <3>4. InStep(panel') /\ panel'.lines = 2 /\ panel'.on
      BY <2>4, <3>2
    <3> QED
      BY <3>2, <3>3, <3>4, Zenon DEF ch
  <2>6. /\ DOMAIN cells = DOMAIN before \cup Written(pos)
        /\ \A p \in 1 .. pos : cells[Simple!Cell(p)] = p
        /\ \A a \in DOMAIN before \ Written(pos) : cells[a] = before[a]
    BY <1>1 DEF SimpleInv, Putting
  <2>7. /\ Written(pos + 1) = Written(pos) \cup {place}
        /\ \A p \in 1 .. pos : Simple!Cell(p) # place
        /\ place \notin Written(pos)
    BY <1>1, <2>3, NextPlace
  <2>8. /\ pos + 1 <= 15 => panel'.addr = pos + 1
        /\ pos + 1 >= 17 /\ pos + 1 <= 31 => panel'.addr = 48 + (pos + 1)
    BY <1>1, <2>3, <2>5 DEF Simple!Cell
  <2> HIDE DEF place
  <2>9. DOMAIN cells' = DOMAIN before' \cup Written(pos')
    BY <2>1, <2>5, <2>6, <2>7, Zenon
  <2>10. \A p \in 1 .. pos' : cells'[Simple!Cell(p)] = p
    <3> SUFFICES ASSUME NEW p \in 1 .. pos' PROVE cells'[Simple!Cell(p)] = p
      OBVIOUS
    <3>1. CASE p = pos + 1
      <4>1. place \in DOMAIN cells \cup {place}
        OBVIOUS
      <4>2. cells'[place] = pos + 1
        BY <2>5, <4>1, Zenon
      <4> QED
        BY <3>1, <4>2 DEF place
    <3>2. CASE p # pos + 1
      <4>1. p \in 1 .. pos
        BY <1>1, <2>1, <3>2
      <4>2. Simple!Cell(p) # place /\ Simple!Cell(p) \in DOMAIN cells
        BY <2>6, <2>7, <4>1, Zenon DEF Written
      <4>3. cells'[Simple!Cell(p)] = cells[Simple!Cell(p)]
        BY <2>5, <4>2
      <4> QED
        BY <2>6, <4>1, <4>3
    <3> QED
      BY <3>1, <3>2
  <2>11. \A a \in DOMAIN before' \ Written(pos') : cells'[a] = before'[a]
    BY <2>1, <2>5, <2>6, <2>7
  <2>12. Putting'
    BY <1>1, <2>1, <2>3, <2>8, <2>9, <2>10, <2>11 DEF Putting
  <2>13. SettingUp' /\ SetUp'
    BY <1>1, <2>1, <2>5 DEF SettingUp, SetUp
  <2> QED
    BY <1>1, <2>1, <2>12, <2>13 DEF SimpleInv
<1> QED
  BY <1>2, <1>3

LEMMA SimpleStep ==
  SimpleInv /\ Simple!Next => SimpleInv'
  BY InitStep, CallPutsStep, CallStringStep, WriteStringStep, PutsStep
     DEF Simple!Next

LEMMA SimpleWorks ==
  SimpleInv => Simple!Lcd1602Works
<1> SUFFICES ASSUME SimpleInv, pc # "init" PROVE Simple!Working(panel)
  BY DEF Simple!Lcd1602Works
<1>1. Working(panel)
  BY DEF SimpleInv, SetUp, InStep, Working, InSync, NoNibble
<1> QED
  BY <1>1, SameController, Zenon

LEMMA SimplePutsShown ==
  SimpleInv => Simple!PutsShown
<1> SUFFICES ASSUME SimpleInv, pc = "puts", pos = len \/ pos > 31
             PROVE  LET shown == {p \in 1 .. 32 : p <= len}
                        written == {Simple!Cell(p) : p \in shown}
                    IN /\ DOMAIN cells = DOMAIN before \cup written
                       /\ \A p \in shown : cells[Simple!Cell(p)] = p
                       /\ \A a \in DOMAIN before \ written : cells[a] = before[a]
  BY Zenon DEF Simple!PutsShown
<1> DEFINE shown == {p \in 1 .. 32 : p <= len}
<1>1. /\ pos \in Nat /\ len \in Nat /\ pos <= len /\ pos <= 32
      /\ Putting
  BY DEF SimpleInv, Putting
<1>2. shown = 1 .. pos
  BY <1>1
<1>3. {Simple!Cell(p) : p \in 1 .. pos} = Written(pos)
  BY Zenon DEF Written
<1> HIDE DEF shown
<1> QED
  BY <1>1, <1>2, <1>3, Zenon DEF Putting, shown

-----------------------------------------------------------------------------
(* lcd.c: the lists of steps *)

\* One step of a function of the library.
Op == [op : {"delay", "toggle", "wait", "instruction", "data", "test", "return1"},
       arg : Nat]

LEMMA Ops ==
  /\ WaitBusy \in Op /\ TestBusy \in Op /\ Return1 \in Op
  /\ Delay(16000) \in Op /\ Delay(4992) \in Op /\ Delay(64) \in Op
  /\ Toggle(3) \in Op
<1>1. WaitBusy \in Op
  BY DEF Op, WaitBusy
<1>2. TestBusy \in Op
  BY DEF Op, TestBusy
<1>3. Return1 \in Op
  BY DEF Op, Return1
<1>4. ASSUME NEW n \in Nat PROVE Delay(n) \in Op /\ Toggle(n) \in Op
  BY DEF Op, Delay, Toggle
<1> QED
  BY <1>1, <1>2, <1>3, <1>4

LEMMA Ops2 == ASSUME NEW b \in Nat PROVE Write(0, b) \in Op /\ Write(1, b) \in Op
<1>1. Write(0, b) = [op |-> "instruction", arg |-> b]
  BY DEF Write
<1>2. Write(1, b) = [op |-> "data", arg |-> b]
  BY DEF Write
<1> QED
  BY <1>1, <1>2 DEF Op

LEMMA Join ==
  ASSUME NEW s \in Seq(Op), NEW t \in Seq(Op)
  PROVE  /\ s \o t \in Seq(Op)
         /\ Len(s \o t) = Len(s) + Len(t)
         /\ \A i \in 1 .. Len(s) + Len(t) :
              (s \o t)[i] = IF i <= Len(s) THEN s[i] ELSE t[i - Len(s)]
  BY ConcatProperties

LEMMA SetupList ==
  /\ Setup \in Seq(Op) /\ Len(Setup) = 14
  /\ Setup[1] = TestBusy
  /\ Setup[2] = WaitBusy /\ Setup[3] = Write(0, 40)
  /\ Setup[4] = Delay(64) /\ Setup[5] = TestBusy
  /\ Setup[6] = WaitBusy /\ Setup[7] = Write(0, 8)
  /\ Setup[8] = WaitBusy /\ Setup[9] = Write(0, 1)
  /\ Setup[10] = WaitBusy /\ Setup[11] = Write(0, 6)
  /\ Setup[12] = WaitBusy /\ Setup[13] = Write(0, 12)
  /\ Setup[14] = Return1
<1>1. Setup \in Seq(Op)
  BY Ops, Ops2 DEF Setup, LCD_FUNCTION_DEFAULT, LCD_CLR, LCD_DISP_OFF,
               LCD_MODE_DEFAULT, LCD_DISP_ON
<1> QED
  BY <1>1 DEF Setup, LCD_FUNCTION_DEFAULT, LCD_CLR, LCD_DISP_OFF,
               LCD_MODE_DEFAULT, LCD_DISP_ON

LEMMA WakeList ==
  /\ Wake \in Seq(Op) /\ Len(Wake) = 9
  /\ Wake[1] = Delay(16000) /\ Wake[2] = Toggle(3) /\ Wake[3] = Delay(4992)
  /\ Wake[4] = Toggle(3) /\ Wake[5] = Delay(64) /\ Wake[6] = Toggle(3)
  /\ Wake[7] = Delay(64) /\ Wake[8] = Toggle(3) /\ Wake[9] = Delay(64)
<1>1. Wake \in Seq(Op)
  BY Ops DEF Wake
<1> QED
  BY <1>1 DEF Wake

LEMMA InitList ==
  /\ lcd_init \in Seq(Op) /\ Len(lcd_init) = 23
  /\ \A k \in 1 .. 9 : lcd_init[k] = Wake[k]
  /\ \A k \in 10 .. 23 : lcd_init[k] = Setup[k - 9]
<1>1. lcd_init = Wake \o Setup
  BY DEF lcd_init
<1>2. /\ Wake \o Setup \in Seq(Op)
      /\ Len(Wake \o Setup) = Len(Wake) + Len(Setup)
      /\ \A i \in 1 .. Len(Wake) + Len(Setup) :
           (Wake \o Setup)[i] = IF i <= Len(Wake) THEN Wake[i] ELSE Setup[i - Len(Wake)]
  <2>1. Wake \in Seq(Op) /\ Setup \in Seq(Op)
    BY SetupList, WakeList
  <2> QED
    BY <2>1, Join
<1>3. Len(Wake) = 9 /\ Len(Setup) = 14
  BY SetupList, WakeList
<1>4. ASSUME NEW i \in Nat, i >= 1, i <= 23
      PROVE  lcd_init[i] = IF i <= 9 THEN Wake[i] ELSE Setup[i - 9]
  <2>1. i \in 1 .. Len(Wake) + Len(Setup)
    BY <1>3, <1>4
  <2>2. (Wake \o Setup)[i] = IF i <= Len(Wake) THEN Wake[i] ELSE Setup[i - Len(Wake)]
    BY <1>2, <2>1, Zenon
  <2> QED
    BY <1>1, <1>3, <2>2, Zenon
<1>5. lcd_init \in Seq(Op) /\ Len(lcd_init) = Len(Wake) + Len(Setup)
  BY <1>1, <1>2, Zenon
<1>6. Len(lcd_init) = 23
  BY <1>3, <1>5
<1>7. \A k \in 1 .. 9 : lcd_init[k] = Wake[k]
  BY <1>4
<1>8. \A k \in 10 .. 23 : lcd_init[k] = Setup[k - 9]
  BY <1>4
<1> QED
  BY <1>5, <1>6, <1>7, <1>8, Zenon

\* The steps of lcd_init of each kind.
LEMMA InitSteps ==
  ASSUME NEW k \in 1 .. 23
  PROVE  /\ lcd_init[k].op = "delay" =>
              \/ k = 1 /\ lcd_init[k].arg = 16000
              \/ k = 3 /\ lcd_init[k].arg = 4992
              \/ k \in {5, 7, 9, 13} /\ lcd_init[k].arg = 64
         /\ lcd_init[k].op = "toggle" =>
              k \in {2, 4, 6, 8} /\ lcd_init[k].arg = 3
         /\ lcd_init[k].op # "data"
         /\ lcd_init[k].op = "instruction" =>
              \/ k = 12 /\ lcd_init[k].arg = 40
              \/ k = 16 /\ lcd_init[k].arg = 8
              \/ k = 18 /\ lcd_init[k].arg = 1
              \/ k = 20 /\ lcd_init[k].arg = 6
              \/ k = 22 /\ lcd_init[k].arg = 12
         /\ lcd_init[k].op = "test" => k \in {10, 14}
         /\ lcd_init[k].op = "wait" => k \in {11, 15, 17, 19, 21}
         /\ lcd_init[k].op = "return1" => k = 23
<1> USE DEF WaitBusy, TestBusy, Return1, Delay, Toggle, Write
<1>1. CASE k \in 1 .. 9
  <2>1. lcd_init[k] = Wake[k]
    BY <1>1, InitList
  <2> QED
    BY <1>1, <2>1, WakeList
<1>2. CASE k \in 10 .. 23
  <2>1. lcd_init[k] = Setup[k - 9]
    BY <1>2, InitList
  <2> QED
    BY <1>2, <2>1, SetupList
<1> QED
  BY <1>1, <1>2

-----------------------------------------------------------------------------
(* lcd.c: the invariant *)

\* What is left of lcd_init before its kth step.
Rest(k) == SubSeq(lcd_init, k, Len(lcd_init))

\* Nothing waits for its other half in 8-bit mode, or where nothing is.
Formed(d) == d \in Display /\ (d.width = 8 \/ ~d.present => d.high = 16)

\* A display that lcd_init has set up.
Served(d) ==
  /\ d \in Display
  /\ d.present /\ d.width = 4 /\ d.high = 16 /\ d.on

\* Until the fourth pulse, the 8th step, a display may be in the middle of a
\* byte.  Pulses that are halves of reads change nothing.  Pulses that are
\* data come in pairs.  Of pulses that are instructions the first may be the
\* second half of a byte; any two that make a byte say 8 bits.
Pulsed(d, k, r, w) ==
  /\ w = 1 => d.high = 16
  /\ w = 0 /\ r = 1 => IF k \in {3, 4, 7, 8} THEN d.width = 8 \/ d.high # 16
                                             ELSE d.high = 16
  /\ w = 0 /\ r = 0 => /\ k \in {3, 4} => d.width = 8 \/ d.high = 3 \/ d.high = 16
                       /\ k \in {5, 6} => d.width = 8 \/ d.high = 3
                       /\ k \in {7, 8} => d.width = 8

\* Where lcd_init has got a display to before its kth step, with RS and RW as
\* they are.
Brought(d, k, r, w) ==
  d.present =>
    /\ k \in {2, 4, 6, 8, 10, 12, 14, 16, 18, 20, 22} => d.busy = 0
    /\ k = 3 => d.busy <= 4992
    /\ k \in {5, 7, 9, 13} => d.busy <= 64
    /\ k <= 8 => Pulsed(d, k, r, w)
    /\ k >= 9 => d.high = 16
    /\ k >= 13 => d.width = 4
    /\ k >= 23 => d.on

Initialising(k) ==
  /\ todo = Rest(k)
  /\ ready \cap ctrl = {}
  /\ \A c \in ctrl \cap aligned : Brought(display[c], k, rs, rw)
  /\ k >= 12 => \A c \in ctrl \cap aligned : display[c].present

\* The other functions wait before each byte, and send no instruction but to
\* clear the display or to set its address.
Alternates(s) ==
  \A i \in 1 .. Len(s) :
    IF i % 2 = 1 THEN s[i].op = "wait"
    ELSE /\ s[i].op \in {"data", "instruction"} /\ s[i].arg <= 255
         /\ s[i].op = "instruction" => s[i].arg = 1 \/ s[i].arg >= 128

Calls == {lcd_clrscr, lcd_command(192), lcd_puts(<<72, 105>>)}

Serving(s, k) ==
  /\ todo = SubSeq(s, k, Len(s))
  /\ ctrl \subseteq ready
  /\ k % 2 = 0 => \A c \in ctrl \cap aligned : display[c].busy = 0

Sound(ds) ==
  /\ ds \in [Controllers -> Display]
  /\ \A c \in Controllers : Formed(ds[c])
  /\ \A c \in ready \cap aligned : Served(ds[c])
  /\ \A c \in aligned \ ctrl : ds[c].high = 16

Resting ==
  /\ todo = << >>
  /\ \A c \in aligned : display[c].high = 16
  /\ Present(ctrl) /\ ctrl \subseteq aligned => ctrl \subseteq ready

Levels == {0, 1}

LibraryInv ==
  /\ Sound(display)
  /\ ctrl \subseteq Controllers /\ ready \subseteq Controllers
  /\ aligned \subseteq Controllers
  /\ rs \in Levels /\ rw \in Levels
  /\ \/ Resting
     \/ \E k \in 1 .. 23 : Initialising(k)
     \/ \E s \in Calls : \E k \in 1 .. Len(s) : Serving(s, k)

LEMMA Proceeds ==
  ASSUME NEW s \in Seq(Op), NEW k \in 1 .. Len(s), todo = SubSeq(s, k, Len(s))
  PROVE  /\ todo # << >> /\ Head(todo) = s[k]
         /\ k < Len(s) => Tail(todo) = SubSeq(s, k + 1, Len(s))
         /\ k = Len(s) => Tail(todo) = << >>
<1>1. Len(s) \in k .. Len(s) /\ Len(s) \in Int
  OBVIOUS
<1>2. Head(todo) = s[k] /\ Tail(todo) = SubSeq(s, k + 1, Len(s))
  BY <1>1, HeadTailOfSubSeq
<1>3. Len(todo) = Len(s) - k + 1
  <2>1. \A i \in k .. Len(s) : s[i] \in Op
    OBVIOUS
  <2> QED
    BY <1>1, <2>1, SubSeqProperties
<1>4. todo # << >>
  <2>1. Len(s) \in Nat /\ Len(todo) >= 1
    BY <1>3
  <2>2. Len(<< >>) = 0 /\ ~(0 >= 1)
    OBVIOUS
  <2> QED
    BY <2>1, <2>2, Zenon
<1>5. k = Len(s) => SubSeq(s, k + 1, Len(s)) = << >>
  BY <1>1, SubSeqEmpty
<1> QED
  BY <1>2, <1>4, <1>5

LEMMA InitProceeds ==
  ASSUME NEW k \in 1 .. 23, todo = Rest(k)
  PROVE  /\ todo # << >> /\ Head(todo) = lcd_init[k]
         /\ k < 23 => Tail(todo) = Rest(k + 1)
         /\ k = 23 => Tail(todo) = << >>
  BY InitList, Proceeds DEF Rest

LEMMA CallsList ==
  ASSUME NEW s \in Calls
  PROVE  s \in Seq(Op) /\ Len(s) >= 1 /\ Alternates(s)
<1>1. WaitBusy.op = "wait" /\ WaitBusy \in Op
  BY Ops DEF WaitBusy
<1>2. ASSUME NEW b \in Nat, b <= 255, b = 1 \/ b >= 128, s = lcd_command(b)
      PROVE  s \in Seq(Op) /\ Len(s) >= 1 /\ Alternates(s)
  <2>1. s = <<WaitBusy, Write(0, b)>>
    BY <1>2 DEF lcd_command
  <2>2. Write(0, b) = [op |-> "instruction", arg |-> b]
    BY DEF Write
  <2>3. Write(0, b) \in Op
    BY Ops2
  <2> QED
    BY <1>1, <1>2, <2>1, <2>2, <2>3 DEF Alternates
<1>3. ASSUME s = lcd_puts(<<72, 105>>)
      PROVE  s \in Seq(Op) /\ Len(s) >= 1 /\ Alternates(s)
  <2>1. ASSUME NEW b \in Nat
        PROVE  /\ lcd_data(b)[1] = WaitBusy /\ lcd_data(b)[2] = Write(1, b)
               /\ Write(1, b) = [op |-> "data", arg |-> b] /\ Write(1, b) \in Op
    BY Ops2 DEF lcd_data, Write
  <2>2. s = [i \in 1 .. 4 |-> lcd_data(<<72, 105>>[(i + 1) \div 2])[1 + ((i + 1) % 2)]]
    BY <1>3 DEF lcd_puts
  <2>3. /\ s[1] = WaitBusy /\ s[2] = Write(1, 72)
        /\ s[3] = WaitBusy /\ s[4] = Write(1, 105)
    BY <2>1, <2>2
  <2>4. s = <<s[1], s[2], s[3], s[4]>>
    BY <2>2
  <2>5. /\ s[1] \in Op /\ s[2] \in Op /\ s[3] \in Op /\ s[4] \in Op
    BY <1>1, <2>1, <2>3
  <2>6. s \in Seq(Op) /\ Len(s) = 4
    <3> DEFINE t == <<s[1], s[2], s[3], s[4]>>
    <3>1. t \in Seq(Op) /\ Len(t) = 4
      BY <2>5
    <3> QED
      BY <2>4, <3>1, Zenon
  <2> QED
    BY <1>1, <2>1, <2>3, <2>6 DEF Alternates
<1>4. s = lcd_clrscr => s = lcd_command(1)
  BY DEF lcd_clrscr, LCD_CLR
<1> QED
  BY <1>2, <1>3, <1>4 DEF Calls

LEMMA Toggles ==
  lcd_e_toggle =>
    display' = [c \in Controllers |->
                 IF c \in ctrl
                 THEN IF rw = 1 THEN display[c]
                      ELSE Pulse(display[c], rs, Head(todo).arg)
                 ELSE display[c]]
  BY Zenon DEF lcd_e_toggle, Drive

LEMMA Writes ==
  lcd_write =>
    display' = [c \in Controllers |->
                 IF c \in ctrl THEN WriteByte(display[c], rs', Head(todo).arg)
                 ELSE display[c]]
  BY Zenon DEF lcd_write, Drive

LEMMA ElapseKeeps ==
  ASSUME NEW d, NEW t \in Nat
  PROVE  /\ Formed(d) => Formed(Elapse(d, t))
         /\ Served(d) => Served(Elapse(d, t))
<1>1. CASE d \in Display
  BY <1>1, ElapseFields DEF Formed, Served
<1>2. CASE d \notin Display
  BY <1>2 DEF Formed, Served
<1> QED
  BY <1>1, <1>2

\* Waiting.
LEMMA DelayBrings ==
  ASSUME NEW d, Formed(d), NEW k \in {1, 3, 5, 7, 9, 13}, NEW r, NEW w,
         Brought(d, k, r, w), NEW t \in Nat,
         k = 1 => t = 16000, k = 3 => t = 4992, k \in {5, 7, 9, 13} => t = 64
  PROVE  /\ Brought(Elapse(d, t), k + 1, r, w)
         /\ Elapse(d, t).present = d.present
<1> DEFINE e == Elapse(d, t)
<1>1. d \in Display
  BY DEF Formed
<1>2. e.present = d.present
  BY <1>1, ElapseFields
<1>3. ASSUME d.present
      PROVE  d.busy <= t
  <2>1. d.busy \in Nat /\ d.busy <= 15000
    BY <1>1, FieldTypes
  <2> QED
    BY <1>3, <2>1 DEF Brought
<1>4. ASSUME d.present
      PROVE  /\ e.width = d.width /\ e.high = d.high /\ e.busy = 0
             /\ e.lines = d.lines /\ e.on = d.on
  <2>1. ~(d.busy > t)
    <3>1. d.busy \in Nat
      BY <1>1, FieldTypes
    <3> QED
      BY <1>3, <1>4, <3>1
  <2> QED
    BY <1>1, <2>1, ElapseFields
<1> HIDE DEF e
<1>5. ASSUME e.present
      PROVE  Brought(e, k + 1, r, w)
  <2>1. d.present /\ e.high = d.high /\ e.width = d.width /\ e.busy = 0
    BY <1>2, <1>4, <1>5
  <2>2. k <= 8 => Pulsed(d, k, r, w)
    BY <2>1 DEF Brought
  <2>3. k + 1 <= 8 => Pulsed(e, k + 1, r, w)
    BY <2>1, <2>2 DEF Pulsed
  <2>4. k >= 9 => d.high = 16
    BY <2>1 DEF Brought
  <2>5. k >= 13 => d.width = 4
    BY <2>1 DEF Brought
  <2> QED
    BY <2>1, <2>3, <2>4, <2>5 DEF Brought
<1> QED
  BY <1>2, <1>5 DEF Brought, e

\* Any instruction leaves the display without half a byte, if it had none.
LEMMA InstructionKeeps ==
  ASSUME NEW d \in Display, NEW b \in Nat, b <= 255
  PROVE  LET e == Instruction(d, b) IN
         /\ e \in Display /\ e.present = d.present /\ e.high = d.high
         /\ e.busy <= 1520
         /\ b >= 48 /\ b <= 63 => e.width = 8 /\ e.busy = 37
<1> DEFINE s == SetBusy(d, 37)
           w == IF (b \div 16) % 2 = 1 THEN 8 ELSE 4
           l == 1 + ((b \div 8) % 2)
           o == (b \div 4) % 2 = 1
           e == Instruction(d, b)
<1>1. s \in Display /\ s.present = d.present /\ s.high = d.high /\ s.busy = 37
  BY SetBusyFields
<1>2. w \in {4, 8} /\ l \in Nat /\ l <= 2 /\ o \in BOOLEAN
  OBVIOUS
<1>3. b >= 48 /\ b <= 63 => w = 8 /\ b \in 32 .. 63 /\ ~(b >= 128)
  OBVIOUS
<1>4. e = IF b >= 128 THEN SetAddr(s, b - 128)
          ELSE IF b \in 32 .. 63 THEN SetLines(SetWidth(s, w), l)
          ELSE IF b \in 8 .. 15 THEN SetOn(s, o)
          ELSE IF b \in 1 .. 3 THEN SetAddr(SetBusy(d, 1520), 0)
          ELSE s
  BY InstructionIs, Zenon
<1>5. CASE b >= 128
  <2>1. e = SetAddr(s, b - 128) /\ b - 128 \in Nat /\ b - 128 <= 127 /\ ~(b <= 63)
    BY <1>4, <1>5
  <2> HIDE DEF s, e
  <2> QED
    BY <1>1, <2>1, SetAddrFields DEF e
<1>6. CASE ~(b >= 128) /\ b \in 32 .. 63
  <2>1. e = SetLines(SetWidth(s, w), l)
    <3> HIDE DEF s, w, l, o, e
    <3> QED
      BY <1>4, <1>6, Zenon
  <2>2. /\ SetWidth(s, w) \in Display /\ SetWidth(s, w).present = d.present
        /\ SetWidth(s, w).high = d.high /\ SetWidth(s, w).busy = 37
        /\ SetWidth(s, w).width = w
    <3> HIDE DEF s, w
    <3> QED
      BY <1>1, <1>2, SetWidthFields
  <2> HIDE DEF s, w, l, e
  <2> QED
    BY <1>2, <1>3, <2>1, <2>2, SetLinesFields DEF e
<1>7. CASE ~(b >= 128) /\ b \notin 32 .. 63 /\ b \in 8 .. 15
  <2>1. e = SetOn(s, o)
    <3> HIDE DEF s, w, l, o, e
    <3> QED
      BY <1>4, <1>7, Zenon
  <2> HIDE DEF s, e, o
  <2> QED
    BY <1>1, <1>2, <1>3, <1>7, <2>1, SetOnFields DEF e
<1>8. CASE ~(b >= 128) /\ b \notin 32 .. 63 /\ b \notin 8 .. 15 /\ b \in 1 .. 3
  <2>1. e = SetAddr(SetBusy(d, 1520), 0)
    <3> HIDE DEF s, w, l, o, e
    <3> QED
      BY <1>4, <1>8
  <2>2. /\ SetBusy(d, 1520) \in Display /\ SetBusy(d, 1520).present = d.present
        /\ SetBusy(d, 1520).high = d.high /\ SetBusy(d, 1520).busy = 1520
    BY SetBusyFields
  <2> HIDE DEF s, e
  <2> QED
    BY <1>3, <1>8, <2>1, <2>2, SetAddrFields DEF e
<1>9. CASE ~(b >= 128) /\ b \notin 32 .. 63 /\ b \notin 8 .. 15 /\ b \notin 1 .. 3
  <2>1. e = s
    <3> HIDE DEF s, w, l, o, e
    <3> QED
      BY <1>4, <1>9
  <2> HIDE DEF s, e
  <2> QED
    BY <1>1, <1>3, <1>9, <2>1 DEF e
<1> QED
  BY <1>5, <1>6, <1>7, <1>8, <1>9, Zenon

LEMMA AcceptKeeps ==
  ASSUME NEW d \in Display, NEW r \in Levels, NEW b \in Nat, b <= 255
  PROVE  LET e == Accept(d, r, b) IN
         /\ e \in Display /\ e.present = d.present /\ e.high = d.high
         /\ e.busy <= 1520
<1>1. CASE r = 1
  <2>1. Accept(d, r, b) = DataByte(d)
    BY <1>1 DEF Accept
  <2>2. /\ DataByte(d) \in Display /\ DataByte(d).present = d.present
        /\ DataByte(d).high = d.high /\ DataByte(d).busy = 41
    BY DataByteFields
  <2> QED
    BY <2>1, <2>2
<1>2. CASE r = 0
  <2> DEFINE e == Instruction(d, b)
  <2>1. Accept(d, r, b) = e
    BY <1>2 DEF Accept
  <2>2. e \in Display /\ e.present = d.present /\ e.high = d.high /\ e.busy <= 1520
    BY InstructionKeeps
  <2> HIDE DEF e
  <2> QED
    BY <2>1, <2>2
<1> QED
  BY <1>1, <1>2 DEF Levels

\* Whatever a pulse is, it leaves no half a byte in 8-bit mode.
LEMMA PulseForms ==
  ASSUME NEW d, Formed(d), NEW r \in Levels, NEW n \in Nat, n <= 15
  PROVE  /\ Formed(Pulse(d, r, n))
         /\ Pulse(d, r, n).present = d.present
<1> DEFINE e == Pulse(d, r, n)
<1>1. d \in Display /\ d.width \in {4, 8} /\ (d.width = 8 => d.high = 16)
  BY FieldTypes DEF Formed
<1>2. CASE ~d.present \/ d.busy > 0
  BY <1>2, PulseIgnored
<1>3. CASE d.present /\ ~(d.busy > 0) /\ d.width = 8
  <2> DEFINE x == Accept(d, r, 16 * n)
  <2>1. e = SetLines(x, 0)
    BY <1>1, <1>3, PulseIs, Zenon
  <2>2. x \in Display /\ x.present = d.present /\ x.high = 16
    <3> DEFINE b == 16 * n
    <3>1. b \in Nat /\ b <= 255
      OBVIOUS
    <3> HIDE DEF b
    <3>2. Accept(d, r, b) \in Display /\ Accept(d, r, b).present = d.present
          /\ Accept(d, r, b).high = d.high
      BY <1>1, <3>1, AcceptKeeps
    <3> QED
      BY <1>1, <1>3, <3>2 DEF b
  <2> HIDE DEF x
  <2>3. /\ SetLines(x, 0) \in Display /\ SetLines(x, 0).present = x.present
        /\ SetLines(x, 0).high = x.high
    BY <2>2, SetLinesFields
  <2> QED
    BY <2>1, <2>2, <2>3 DEF Formed
<1>4. CASE d.present /\ ~(d.busy > 0) /\ d.width # 8 /\ d.high = 16
  <2>1. e = SetHigh(d, n)
    BY <1>4, PulseIs, Zenon DEF NoNibble
  <2>2. /\ SetHigh(d, n) \in Display /\ SetHigh(d, n).present = d.present
        /\ SetHigh(d, n).width = d.width
    <3>1. n <= 16
      OBVIOUS
    <3> QED
      BY <1>1, <3>1, SetHighFields, Zenon
  <2> HIDE DEF e
  <2> QED
    BY <1>4, <2>1, <2>2 DEF Formed, e
<1>5. CASE d.present /\ ~(d.busy > 0) /\ d.width # 8 /\ d.high # 16
  <2> DEFINE x == SetHigh(d, 16)
             b == 16 * d.high + n
  <2>1. e = Accept(x, r, b)
    BY <1>5, PulseIs, Zenon DEF NoNibble
  <2>2. x \in Display /\ x.present = d.present /\ x.high = 16
    <3>1. 16 \in Nat /\ 16 <= 16
      OBVIOUS
    <3> QED
      BY <1>1, <3>1, SetHighFields, Zenon
  <2>3. b \in Nat /\ b <= 255
    <3>1. d.high \in Nat /\ d.high <= 15
      BY <1>1, <1>5, FieldTypes
    <3> QED
      BY <3>1
  <2> HIDE DEF x, b
  <2>4. Accept(x, r, b) \in Display /\ Accept(x, r, b).present = x.present
        /\ Accept(x, r, b).high = x.high
    BY <2>2, <2>3, AcceptKeeps
  <2> QED
    BY <2>1, <2>2, <2>4 DEF Formed
<1> QED
  BY <1>2, <1>3, <1>4, <1>5

LEMMA WriteForms ==
  ASSUME NEW d, Formed(d), NEW r \in Levels, NEW b \in Nat, b <= 255
  PROVE  Formed(WriteByte(d, r, b))
<1> DEFINE h == b \div 16
           l == b % 16
           f == Pulse(d, r, h)
<1>1. h \in Nat /\ h <= 15 /\ l \in Nat /\ l <= 15
  OBVIOUS
<1> HIDE DEF h, l
<1>2. Formed(f)
  BY <1>1, PulseForms
<1> HIDE DEF f
<1>3. Formed(Pulse(f, r, l))
  BY <1>1, <1>2, PulseForms
<1>4. WriteByte(d, r, b) = Pulse(f, r, l)
  BY DEF WriteByte, f, h, l
<1> QED
  BY <1>3, <1>4

\* One of lcd_init's pulses, when the display takes it: in 8-bit mode all of a
\* byte, in 4-bit mode the first half or the second.
LEMMA ToggleTaken ==
  ASSUME NEW d, Formed(d), d.present, d.busy = 0, NEW r \in Levels
  PROVE  LET e == Pulse(d, r, 3) IN
         /\ e.busy <= 1520
         /\ d.width = 8 => e.width = 8 /\ e.busy <= 64
         /\ d.width # 8 /\ d.high = 16 => e.high = 3 /\ e.busy = 0
         /\ d.width # 8 /\ d.high # 16 =>
              /\ e.high = 16
              /\ r = 1 => e.busy <= 64
              /\ r = 0 /\ d.high = 3 => e.width = 8 /\ e.busy <= 64
<1> DEFINE e == Pulse(d, r, 3)
<1>1. d \in Display /\ d.width \in {4, 8} /\ (d.width = 8 => d.high = 16)
  BY FieldTypes DEF Formed
<1> SUFFICES
      /\ e.busy <= 1520
      /\ d.width = 8 => e.width = 8 /\ e.busy <= 64
      /\ d.width # 8 /\ d.high = 16 => e.high = 3 /\ e.busy = 0
      /\ d.width # 8 /\ d.high # 16 =>
           /\ e.high = 16
           /\ r = 1 => e.busy <= 64
           /\ r = 0 /\ d.high = 3 => e.width = 8 /\ e.busy <= 64
  BY Zenon
<1>2. ASSUME NEW x, NEW b
      PROVE  /\ r = 0 => Accept(x, r, b) = Instruction(x, b)
             /\ r = 1 => Accept(x, r, b) = DataByte(x)
  BY DEF Accept
<1>3. CASE d.width = 8
  <2> DEFINE x == Accept(d, r, 48)
  <2>1. e = SetLines(x, 0)
    <3>1. e = SetLines(Accept(d, r, 16 * 3), 0)
      BY <1>1, <1>3, PulseWide
    <3>2. 16 * 3 = 48
      OBVIOUS
    <3> QED
      BY <3>1, <3>2
  <2>2. x \in Display /\ x.width = 8 /\ x.busy <= 64
    <3>1. CASE r = 0
      <4>1. Reads(Instruction(d, 48), d.present, 8, d.high, 37, 1, d.on, d.addr)
        BY <1>1, FunctionReads
      <4>2. x = Instruction(d, 48)
        BY <1>2, <3>1
      <4> HIDE DEF x
      <4> QED
        BY <4>1, <4>2 DEF Reads
    <3>2. CASE r = 1
      <4>1. x = DataByte(d)
        BY <1>2, <3>2
      <4> HIDE DEF x
      <4>2. x \in Display /\ x.width = d.width /\ x.busy = 41
        BY <1>1, <4>1, DataByteFields
      <4> QED
        BY <1>3, <4>2
    <3> QED
      BY <3>1, <3>2 DEF Levels
  <2> HIDE DEF x
  <2>3. SetLines(x, 0).width = x.width /\ SetLines(x, 0).busy = x.busy
    BY <2>2, SetLinesFields
  <2>4. x.busy \in Nat
    BY <2>2, FieldTypes
  <2> HIDE DEF e
  <2> QED
    BY <1>3, <2>1, <2>2, <2>3, <2>4
<1>4. CASE d.width # 8 /\ d.high = 16
  <2>1. e = SetHigh(d, 3)
    BY <1>1, <1>4, PulseFirst
  <2>2. SetHigh(d, 3).high = 3 /\ SetHigh(d, 3).busy = d.busy
    <3>1. 3 \in Nat /\ 3 <= 16
      OBVIOUS
    <3> QED
      BY <1>1, <3>1, SetHighFields, Zenon
  <2> HIDE DEF e
  <2> QED
    BY <1>4, <2>1, <2>2
<1>5. CASE d.width # 8 /\ d.high # 16
  <2> DEFINE x == SetHigh(d, 16)
             b == 16 * d.high + 3
  <2>1. e = Accept(x, r, b)
    BY <1>1, <1>5, PulseSecond
  <2>2. x \in Display /\ x.high = 16
    <3>1. 16 \in Nat /\ 16 <= 16
      OBVIOUS
    <3> QED
      BY <1>1, <3>1, SetHighFields, Zenon
  <2>3. b \in Nat /\ b <= 255 /\ (d.high = 3 => b = 51)
    <3>1. d.high \in Nat /\ d.high <= 15
      BY <1>1, <1>5, FieldTypes
    <3> QED
      BY <3>1
  <2> HIDE DEF x, b
  <2>4. Accept(x, r, b).high = 16 /\ Accept(x, r, b).busy <= 1520
    BY <2>2, <2>3, AcceptKeeps
  <2>5. r = 1 => Accept(x, r, b).busy <= 64
    <3>1. r = 1 => Accept(x, r, b) = DataByte(x) /\ DataByte(x).busy = 41
      BY <1>2, <2>2, DataByteFields
    <3> QED
      BY <3>1
  <2>6. r = 0 /\ d.high = 3 =>
          Accept(x, r, b).width = 8 /\ Accept(x, r, b).busy <= 64
    <3>1. r = 0 => Accept(x, r, b) = Instruction(x, b)
      BY <1>2
    <3>2. d.high = 3 => Instruction(x, b).width = 8 /\ Instruction(x, b).busy = 37
      <4>1. d.high = 3 => b >= 48 /\ b <= 63
        BY <2>3
      <4> QED
        BY <2>2, <2>3, <4>1, InstructionKeeps
    <3> QED
      BY <3>1, <3>2
  <2> HIDE DEF e
  <2> QED
    BY <1>5, <2>1, <2>4, <2>5, <2>6
<1> QED
  BY <1>3, <1>4, <1>5

LEMMA ToggleBrings ==
  ASSUME NEW d, Formed(d), NEW k \in {2, 4, 6, 8}, NEW r \in Levels,
         Brought(d, k, r, 0)
  PROVE  Brought(Pulse(d, r, 3), k + 1, r, 0)
<1> DEFINE e == Pulse(d, r, 3)
<1>0. Formed(e) /\ e.present = d.present
  <2>1. 3 \in Nat /\ 3 <= 15
    OBVIOUS
  <2> QED
    BY <2>1, PulseForms
<1>1. CASE ~d.present
  BY <1>0, <1>1 DEF Brought
<1>2. CASE d.present
  <2>1. d.busy = 0 /\ Pulsed(d, k, r, 0)
    BY <1>2 DEF Brought
  <2>2. /\ e.busy <= 1520
        /\ d.width = 8 => e.width = 8 /\ e.busy <= 64
        /\ d.width # 8 /\ d.high = 16 => e.high = 3 /\ e.busy = 0
        /\ d.width # 8 /\ d.high # 16 =>
             /\ e.high = 16
             /\ r = 1 => e.busy <= 64
             /\ r = 0 /\ d.high = 3 => e.width = 8 /\ e.busy <= 64
    BY <1>2, <2>1, ToggleTaken
  <2>3. /\ e.width = 8 => e.high = 16
        /\ d.width = 8 => d.high = 16
        /\ e.busy \in Nat
    BY <1>0, FieldTypes DEF Formed
  <2> HIDE DEF e
  <2>4. ASSUME r = 0
        PROVE  Brought(e, k + 1, r, 0)
    <3>1. /\ k \in {2, 4} => Pulsed(e, k + 1, 0, 0)
          /\ k = 6 => e.width = 8
          /\ k = 8 => e.width = 8
      BY <2>1, <2>2, <2>3, <2>4 DEF Pulsed
    <3>2. k = 6 => Pulsed(e, k + 1, 0, 0)
      BY <3>1 DEF Pulsed
    <3>3. /\ k = 2 => e.busy <= 4992
          /\ k \in {4, 6, 8} => e.busy <= 64
      BY <2>1, <2>2, <2>3, <2>4 DEF Pulsed
    <3> QED
      BY <2>3, <2>4, <3>1, <3>2, <3>3 DEF Brought
  <2>5. ASSUME r = 1
        PROVE  Brought(e, k + 1, r, 0)
    <3>1. k \in {2, 4, 6} => Pulsed(e, k + 1, 1, 0)
      BY <2>1, <2>2, <2>3, <2>5 DEF Pulsed
    <3>2. k = 8 => e.high = 16
      BY <2>1, <2>2, <2>3, <2>5 DEF Pulsed
    <3>3. e.busy <= 64
      BY <2>2, <2>3, <2>5
    <3> QED
      BY <2>3, <2>5, <3>1, <3>2, <3>3 DEF Brought
  <2>6. Brought(e, k + 1, r, 0)
    BY <2>4, <2>5 DEF Levels
  <2> QED
    BY <2>6 DEF e
<1> QED
  BY <1>1, <1>2, Zenon

\* A pulse that is half a read.
LEMMA ReadBrings ==
  ASSUME NEW d, NEW k \in {2, 4, 6, 8}, NEW r, Brought(d, k, r, 1)
  PROVE  Brought(d, k + 1, r, 1)
  BY DEF Brought, Pulsed

\* A display in step takes a byte of lcd_write's.
LEMMA ByteTaken ==
  ASSUME NEW d \in Display, d.present, d.width = 4, d.high = 16, d.busy = 0,
         NEW r, NEW b \in Nat, b <= 255
  PROVE  \E e \in Display :
           /\ Reads(e, d.present, 4, 16, 0, d.lines, d.on, d.addr)
           /\ WriteByte(d, r, b) = Accept(e, r, b)
<1> DEFINE h == b \div 16
           f == SetHigh(d, h)
           e == SetHigh(f, 16)
<1>1. h \in Nat /\ h <= 15 /\ 16 * h + (b % 16) = b
  OBVIOUS
<1>2. WriteByte(d, r, b) = Pulse(Pulse(d, r, h), r, b % 16)
  BY DEF WriteByte
<1> HIDE DEF h
<1>3. Pulse(d, r, h) = f
  BY PulseFirst
<1>4. /\ f \in Display /\ f.present = d.present /\ f.width = 4 /\ f.high = h
      /\ f.busy = 0 /\ f.lines = d.lines /\ f.on = d.on /\ f.addr = d.addr
  <2>1. /\ f \in Display /\ f.present = d.present /\ f.width = d.width /\ f.high = h
        /\ f.busy = d.busy /\ f.lines = d.lines /\ f.on = d.on /\ f.addr = d.addr
    <3>1. h <= 16
      BY <1>1
    <3> QED
      BY <1>1, <3>1, SetHighFields, Zenon
  <2> QED
    BY <2>1
<1> HIDE DEF f
<1>5. Pulse(f, r, b % 16) = Accept(e, r, b)
  <2>1. f.high # 16 /\ 16 * f.high + (b % 16) = b
    BY <1>1, <1>4
  <2> QED
    BY <1>4, <2>1, PulseSecond
<1>6. /\ e \in Display /\ e.present = d.present /\ e.width = 4 /\ e.high = 16
      /\ e.busy = 0 /\ e.lines = d.lines /\ e.on = d.on /\ e.addr = d.addr
  <2>1. /\ e \in Display /\ e.present = f.present /\ e.width = f.width /\ e.high = 16
        /\ e.busy = f.busy /\ e.lines = f.lines /\ e.on = f.on /\ e.addr = f.addr
    <3>1. 16 \in Nat /\ 16 <= 16
      OBVIOUS
    <3> QED
      BY <1>4, <3>1, SetHighFields, Zenon
  <2> QED
    BY <1>4, <2>1, Zenon
<1> HIDE DEF e
<1> QED
  BY <1>2, <1>3, <1>5, <1>6 DEF Reads

\* What the instructions that lcd.c sends after the four pulses leave.
LEMMA InstructionTaken ==
  ASSUME NEW d \in Display, d.present, d.width = 4, d.high = 16, d.busy = 0,
         NEW b \in Nat, b \in {40, 8, 1, 6, 12} \/ (b >= 128 /\ b <= 255)
  PROVE  LET e == WriteByte(d, 0, b) IN
         /\ e \in Display /\ e.present /\ e.width = 4 /\ e.high = 16
         /\ b = 40 => e.busy <= 64
         /\ b = 12 => e.on
         /\ b = 1 \/ b >= 128 => e.on = d.on
<1> DEFINE e == WriteByte(d, 0, b)
<1> SUFFICES
      /\ e \in Display /\ e.present /\ e.width = 4 /\ e.high = 16
      /\ b = 40 => e.busy <= 64
      /\ b = 12 => e.on
      /\ b = 1 \/ b >= 128 => e.on = d.on
  BY Zenon
<1>1. PICK f \in Display :
        /\ Reads(f, d.present, 4, 16, 0, d.lines, d.on, d.addr)
        /\ e = Accept(f, 0, b)
  <2>1. b <= 255
    OBVIOUS
  <2> QED
    BY <2>1, ByteTaken
<1>2. e = Instruction(f, b)
  BY <1>1 DEF Accept
<1>3. /\ f \in Display /\ f.present = d.present /\ f.width = 4 /\ f.high = 16
      /\ f.on = d.on
  BY <1>1 DEF Reads
<1> HIDE DEF e
<1>4. f.present
  BY <1>3
<1>5. CASE b = 40
  <2>1. Reads(e, f.present, 4, f.high, 37, 2, f.on, f.addr)
    BY <1>2, <1>5, FunctionReads
  <2> QED
    BY <1>3, <1>4, <1>5, <2>1 DEF Reads
<1>6. CASE b = 8
  <2>1. Reads(e, f.present, f.width, f.high, 37, f.lines, FALSE, f.addr)
    BY <1>2, <1>6, OffReads
  <2> QED
    BY <1>3, <1>4, <1>6, <2>1 DEF Reads
<1>7. CASE b = 1
  <2>1. Reads(e, f.present, f.width, f.high, 1520, f.lines, f.on, 0)
    BY <1>2, <1>7, ClearReads
  <2> QED
    BY <1>3, <1>4, <1>7, <2>1 DEF Reads
<1>8. CASE b = 6
  <2>1. Reads(e, f.present, f.width, f.high, 37, f.lines, f.on, f.addr)
    BY <1>2, <1>8, EntryModeReads
  <2> QED
    BY <1>3, <1>4, <1>8, <2>1 DEF Reads
<1>9. CASE b = 12
  <2>1. Reads(e, f.present, f.width, f.high, 37, f.lines, TRUE, f.addr)
    BY <1>2, <1>9, OnReads
  <2> QED
    BY <1>3, <1>4, <1>9, <2>1 DEF Reads
<1>10. CASE b >= 128 /\ b <= 255
  <2> DEFINE n == b - 128
  <2>1. n \in Nat /\ n <= 127 /\ b = 128 + n
    BY <1>10
  <2> HIDE DEF n
  <2>2. Reads(Instruction(f, 128 + n), f.present, f.width, f.high, 37, f.lines, f.on, n)
    BY <2>1, AddressReads
  <2>3. Reads(e, f.present, f.width, f.high, 37, f.lines, f.on, n)
    BY <1>2, <2>1, <2>2
  <2> QED
    BY <1>3, <1>4, <1>10, <2>3 DEF Reads
<1> QED
  BY <1>5, <1>6, <1>7, <1>8, <1>9, <1>10

\* In 8-bit mode the first half of that byte is the byte, and makes the display
\* busy, so that it does not see the second half.
LEMMA FunctionTaken ==
  ASSUME NEW d \in Display, d.present, d.width = 8, d.high = 16, d.busy = 0
  PROVE  LET e == WriteByte(d, 0, 40) IN
         e \in Display /\ e.present /\ e.width = 4 /\ e.high = 16 /\ e.busy <= 64
<1> DEFINE x == Instruction(d, 32)
           f == SetLines(x, 0)
<1>1. Reads(x, d.present, 4, d.high, 37, 1, d.on, d.addr)
  BY FunctionReads
<1>2. Pulse(d, 0, 2) = f
  <2>1. Pulse(d, 0, 2) = SetLines(Accept(d, 0, 16 * 2), 0)
    BY PulseWide
  <2>2. 16 * 2 = 32 /\ Accept(d, 0, 32) = x
    BY DEF Accept
  <2> QED
    BY <2>1, <2>2
<1> HIDE DEF x
<1>3. /\ f \in Display /\ f.present /\ f.width = 4 /\ f.high = 16 /\ f.busy = 37
  <2>1. x \in Display /\ x.present /\ x.width = 4 /\ x.high = 16 /\ x.busy = 37
    BY <1>1 DEF Reads
  <2> QED
    BY <2>1, SetLinesFields
<1> HIDE DEF f
<1>4. WriteByte(d, 0, 40) = Pulse(f, 0, 8)
  <2>1. 40 \div 16 = 2 /\ 40 % 16 = 8
    OBVIOUS
  <2> QED
    BY <1>2, <2>1 DEF WriteByte
<1>5. Pulse(f, 0, 8) = f
  BY <1>3, PulseIgnored
<1> QED
  BY <1>3, <1>4, <1>5

LEMMA WriteBrings ==
  ASSUME NEW d, Formed(d), d.present, NEW k \in {12, 16, 18, 20, 22},
         NEW r, NEW w, Brought(d, k, r, w), NEW b \in Nat,
         k = 12 => b = 40, k = 16 => b = 8, k = 18 => b = 1, k = 20 => b = 6,
         k = 22 => b = 12
  PROVE  LET e == WriteByte(d, 0, b) IN e.present /\ Brought(e, k + 1, 0, 0)
<1> DEFINE e == WriteByte(d, 0, b)
<1>1. /\ d \in Display /\ d.width \in {4, 8} /\ d.high = 16 /\ d.busy = 0
      /\ k # 12 => d.width = 4
  BY FieldTypes DEF Brought, Formed
<1>2. b \in {40, 8, 1, 6, 12}
  OBVIOUS
<1>3. /\ e.present /\ e.width = 4 /\ e.high = 16
      /\ b = 40 => e.busy <= 64
      /\ b = 12 => e.on
  <2>1. CASE d.width = 4
    BY <1>1, <1>2, <2>1, InstructionTaken
  <2>2. CASE d.width # 4
    <3>1. b = 40 /\ d.width = 8
      BY <1>1, <2>2
    <3>2. LET f == WriteByte(d, 0, 40)
          IN f.present /\ f.width = 4 /\ f.high = 16 /\ f.busy <= 64
      BY <1>1, <3>1, FunctionTaken
    <3> QED
      BY <3>1, <3>2
  <2> QED
    BY <2>1, <2>2
<1> HIDE DEF e
<1>4. Brought(e, k + 1, 0, 0)
  BY <1>3 DEF Brought
<1> QED
  BY <1>3, <1>4 DEF e

LEMMA WriteServes ==
  ASSUME NEW d, Served(d), d.busy = 0, NEW b \in Nat, b <= 255
  PROVE  /\ Served(WriteByte(d, 1, b))
         /\ b = 1 \/ b >= 128 => Served(WriteByte(d, 0, b))
<1>1. /\ d \in Display /\ d.present /\ d.width = 4 /\ d.high = 16 /\ d.on
  BY DEF Served
<1>2. Served(WriteByte(d, 1, b))
  <2> DEFINE e == WriteByte(d, 1, b)
  <2>1. PICK f \in Display :
          /\ Reads(f, d.present, 4, 16, 0, d.lines, d.on, d.addr)
          /\ e = Accept(f, 1, b)
    BY <1>1, ByteTaken
  <2>2. e = DataByte(f)
    BY <2>1 DEF Accept
  <2>3. f.present = d.present /\ f.width = 4 /\ f.high = 16 /\ f.on = d.on
    BY <2>1 DEF Reads
  <2>4. /\ e \in Display /\ e.present = f.present /\ e.width = f.width
        /\ e.high = f.high /\ e.on = f.on
    BY <2>2, DataByteFields
  <2> HIDE DEF e
  <2>5. Served(e)
    BY <1>1, <2>3, <2>4 DEF Served
  <2> QED
    BY <2>5 DEF e
<1>3. ASSUME b = 1 \/ b >= 128
      PROVE  Served(WriteByte(d, 0, b))
  <2> DEFINE e == WriteByte(d, 0, b)
  <2>1. /\ e \in Display /\ e.present /\ e.width = 4 /\ e.high = 16
        /\ e.on = d.on
    <3>1. b \in {40, 8, 1, 6, 12} \/ (b >= 128 /\ b <= 255)
      BY <1>3
    <3> QED
      BY <1>1, <1>3, <3>1, InstructionTaken
  <2> HIDE DEF e
  <2>2. Served(e)
    BY <1>1, <2>1 DEF Served
  <2> QED
    BY <2>2 DEF e
<1> QED
  BY <1>2, <1>3

\* A display that says it is not busy is there and, between two bytes, is not
\* busy.
LEMMA NotBusy ==
  ASSUME NEW d \in Display, FALSE \in lcd_read({d})
  PROVE  d.present /\ (d.high = 16 => d.busy = 0)
<1>1. CASE ~d.present
  <2>1. {x \in {d} : x.present} = {}
    BY <1>1
  <2>2. BusyFlag({d}) = {TRUE}
    BY <2>1, Zenon DEF BusyFlag
  <2> QED
    BY <2>2 DEF lcd_read
<1>2. CASE d.present
  <2>1. {x \in {d} : x.present} = {d}
    BY <1>2
  <2>2. BusyFlag({d}) = UNION {IF x.high = NoNibble THEN {x.busy > 0} ELSE BOOLEAN : x \in {d}}
    BY <2>1 DEF BusyFlag
  <2>3. BusyFlag({d}) = IF d.high = NoNibble THEN {d.busy > 0} ELSE BOOLEAN
    BY <2>2
  <2>4. d.high = 16 => ~(d.busy > 0)
    BY <2>3, Zenon DEF lcd_read, NoNibble
  <2> QED
    BY <1>2, <2>4, FieldTypes
<1> QED
  BY <1>1, <1>2

\* Displays that are there and not busy do not seem to be.
LEMMA SomePresent ==
  ASSUME NEW ds, \A d \in ds : d \in Display /\ (d.present => d.high = 16 /\ d.busy = 0),
         NEW busy \in lcd_read(ds)
  PROVE  busy => \A d \in ds : ~d.present
<1> DEFINE driving == {d \in ds : d.present}
<1>1. CASE driving = {}
  BY <1>1
<1>2. CASE driving # {}
  <2>1. BusyFlag(ds) = UNION {IF d.high = NoNibble THEN {d.busy > 0} ELSE BOOLEAN : d \in driving}
    BY <1>2, Zenon DEF BusyFlag
  <2>2. PICK d \in driving : busy \in (IF d.high = NoNibble THEN {d.busy > 0} ELSE BOOLEAN)
    BY <2>1 DEF lcd_read
  <2>3. d.high = NoNibble /\ ~(d.busy > 0)
    BY <2>2 DEF NoNibble
  <2>4. busy = (d.busy > 0)
    BY <2>2, <2>3
  <2> QED
    BY <2>3, <2>4
<1> QED
  BY <1>1, <1>2

\* What is left after a step of lcd_init, or of another function.
LEMMA Advanced ==
  ASSUME LibraryInv, NEW k \in 1 .. 23, Initialising(k), k # 23, todo' = Tail(todo),
         UNCHANGED <<ctrl, ready, aligned>>, rs' \in Levels, rw' \in Levels,
         Sound(display'),
         \A c \in ctrl \cap aligned : /\ Brought(display'[c], k + 1, rs', rw')
                                      /\ k + 1 >= 12 => display'[c].present
  PROVE  LibraryInv'
<1>1. k < 23 /\ k + 1 \in 1 .. 23
  OBVIOUS
<1>2. todo' = Rest(k + 1)
  BY <1>1, InitProceeds, Zenon DEF Initialising
<1>3. Initialising(k + 1)'
  BY <1>2 DEF Initialising
<1> QED
  BY <1>1, <1>3 DEF LibraryInv, Sound

LEMMA Continued ==
  ASSUME LibraryInv, NEW s \in Calls, NEW k \in 1 .. Len(s), Serving(s, k),
         todo' = Tail(todo), UNCHANGED <<ctrl, ready, aligned>>,
         rs' \in Levels, rw' \in Levels, Sound(display'),
         k % 2 = 1 => \A c \in ctrl \cap aligned : display'[c].busy = 0
  PROVE  LibraryInv'
<1>1. s \in Seq(Op) /\ Len(s) \in Nat
  BY CallsList
<1>2. /\ k < Len(s) => todo' = SubSeq(s, k + 1, Len(s))
      /\ k = Len(s) => todo' = << >>
  BY <1>1, Proceeds DEF Serving
<1>3. Sound(display)' /\ LibraryInv
  BY DEF Sound
<1>4. CASE k < Len(s)
  <2>1. k + 1 \in 1 .. Len(s) /\ ((k + 1) % 2 = 0 => k % 2 = 1)
    BY <1>1, <1>4
  <2>2. Serving(s, k + 1)'
    BY <1>2, <1>4, <2>1 DEF Serving
  <2> QED
    BY <1>3, <2>1, <2>2 DEF LibraryInv, Calls
<1>5. CASE k = Len(s)
  <2>1. ctrl \subseteq ready
    BY DEF Serving
  <2>2. \A c \in aligned : display'[c].high = 16
    BY <2>1 DEF Sound, Served
  <2>3. Resting'
    BY <1>2, <1>5, <2>1, <2>2 DEF Resting
  <2> QED
    BY <1>3, <2>3 DEF LibraryInv
<1> QED
  BY <1>1, <1>4, <1>5

\* Where a step of the running call may be.
LEMMA ServingSteps ==
  ASSUME NEW s \in Calls, NEW k \in 1 .. Len(s), Serving(s, k)
  PROVE  /\ todo # << >>
         /\ Head(todo).arg \in Nat
         /\ k % 2 = 1 => Head(todo).op = "wait"
         /\ k % 2 = 0 =>
              /\ Head(todo).op \in {"data", "instruction"} /\ Head(todo).arg <= 255
              /\ Head(todo).op = "instruction" =>
                   Head(todo).arg = 1 \/ Head(todo).arg >= 128
<1>1. s \in Seq(Op) /\ Alternates(s)
  BY CallsList
<1>2. todo # << >> /\ Head(todo) = s[k] /\ s[k] \in Op
  BY <1>1, Proceeds DEF Serving
<1> QED
  BY <1>1, <1>2 DEF Alternates, Op

LEMMA Running ==
  ASSUME LibraryInv, todo # << >>
  PROVE  \/ \E k \in 1 .. 23 : Initialising(k)
         \/ \E s \in Calls : \E k \in 1 .. Len(s) : Serving(s, k)
  BY DEF LibraryInv, Resting

\* What every step of a call finds.
LEMMA Found ==
  ASSUME LibraryInv, NEW c \in Controllers
  PROVE  /\ display[c] \in Display /\ Formed(display[c])
         /\ c \in ready \cap aligned => Served(display[c])
         /\ c \in aligned \ ctrl => display[c].high = 16
  BY DEF LibraryInv, Sound, Formed

\* Waits and writes apart, they are steps of lcd_init.
LEMMA OfInit ==
  ASSUME LibraryInv, todo # << >>, Head(todo).op \notin {"wait", "data", "instruction"}
  PROVE  \E k \in 1 .. 23 : Initialising(k)
<1>1. ASSUME NEW s \in Calls, NEW k \in 1 .. Len(s), Serving(s, k)
      PROVE  FALSE
  <2>1. k \in Nat
    BY CallsList
  <2>2. k % 2 = 0 \/ k % 2 = 1
    BY <2>1
  <2>3. Head(todo).op \in {"wait", "data", "instruction"}
    BY <1>1, <2>2, ServingSteps
  <2> QED
    BY <2>3
<1> QED
  BY <1>1, Running, Zenon

LEMMA InitHead ==
  ASSUME NEW k \in 1 .. 23, Initialising(k)
  PROVE  todo # << >> /\ Head(todo) = lcd_init[k]
  BY InitProceeds DEF Initialising

\* The passing of time.
LEMMA ElapsedSound ==
  ASSUME LibraryInv, NEW t \in Nat, UNCHANGED <<ctrl, ready, aligned>>,
         display' = [c \in Controllers |-> Elapse(display[c], t)]
  PROVE  Sound(display')
<1>1. ASSUME NEW c \in Controllers
      PROVE  /\ display'[c] = Elapse(display[c], t)
             /\ Formed(display'[c]) /\ display'[c] \in Display
             /\ display'[c].high = display[c].high
             /\ Served(display[c]) => Served(display'[c])
  <2>1. display'[c] = Elapse(display[c], t)
    OBVIOUS
  <2>2. display[c] \in Display /\ Formed(display[c])
    BY Found
  <2>3. Elapse(display[c], t).high = display[c].high
    BY <2>2, ElapseFields
  <2>4. Formed(Elapse(display[c], t))
    BY <2>2, ElapseKeeps
  <2>5. Served(display[c]) => Served(Elapse(display[c], t))
    BY ElapseKeeps
  <2> QED
    BY <2>1, <2>3, <2>4, <2>5 DEF Formed
<1>2. ctrl \subseteq Controllers /\ ready \subseteq Controllers
      /\ aligned \subseteq Controllers
  BY DEF LibraryInv
<1>3. display' \in [Controllers -> Display]
  BY <1>1
<1>4. \A c \in Controllers : Formed(display'[c])
  BY <1>1
<1>5. \A c \in ready \cap aligned : Served(display'[c])
  BY <1>1, <1>2, Found
<1>6. \A c \in aligned \ ctrl : display'[c].high = 16
  BY <1>1, <1>2, Found
<1> QED
  BY <1>3, <1>4, <1>5, <1>6 DEF Sound

LEMMA DelayStep ==
  LibraryInv /\ DoDelay => LibraryInv'
<1> SUFFICES ASSUME LibraryInv, DoDelay PROVE LibraryInv'
  OBVIOUS
<1> DEFINE t == Head(todo).arg
<1>1. /\ todo # << >> /\ Head(todo).op = "delay"
      /\ display' = [c \in Controllers |-> Elapse(display[c], t)]
      /\ todo' = Tail(todo) /\ UNCHANGED <<ctrl, ready, aligned, rs, rw>>
  BY DEF DoDelay, Do, Pass, Continue, lines
<1>2. PICK k \in 1 .. 23 : Initialising(k)
  BY <1>1, OfInit
<1>3. /\ k \in {1, 3, 5, 7, 9, 13} /\ t \in Nat
      /\ k = 1 => t = 16000
      /\ k = 3 => t = 4992
      /\ k \in {5, 7, 9, 13} => t = 64
  <2>1. lcd_init[k].op = "delay" /\ t = lcd_init[k].arg
    BY <1>1, <1>2, InitHead
  <2>2. \/ k = 1 /\ t = 16000
        \/ k = 3 /\ t = 4992
        \/ k \in {5, 7, 9, 13} /\ t = 64
    <3> HIDE DEF t
    <3> QED
      BY <2>1, InitSteps
  <2> HIDE DEF t
  <2> QED
    BY <2>2
<1> HIDE DEF t
<1>4. Sound(display')
  BY <1>1, <1>3, ElapsedSound
<1>5. ASSUME NEW c \in ctrl \cap aligned
      PROVE  /\ Brought(display'[c], k + 1, rs', rw')
             /\ k + 1 >= 12 => display'[c].present
  <2>1. /\ c \in Controllers /\ Formed(display[c])
        /\ Brought(display[c], k, rs, rw)
    BY <1>2 DEF LibraryInv, Sound, Initialising
  <2>2. display'[c] = Elapse(display[c], t)
    BY <1>1, <2>1
  <2>3. /\ Brought(display'[c], k + 1, rs, rw)
        /\ display'[c].present = display[c].present
    BY <1>3, <2>1, <2>2, DelayBrings
  <2>4. k + 1 >= 12 => k >= 12
    BY <1>3
  <2> QED
    BY <1>1, <1>2, <2>3, <2>4 DEF Initialising
<1>6. k # 23 /\ rs' \in Levels /\ rw' \in Levels
  BY <1>1, <1>3 DEF LibraryInv
<1> QED
  BY <1>1, <1>2, <1>4, <1>5, <1>6, Advanced

\* What is done to the selected displays leaves the others as they are.
LEMMA DrivenSound ==
  ASSUME LibraryInv, UNCHANGED <<ctrl, ready, aligned>>,
         display' \in [Controllers -> Display],
         \A c \in ctrl : Formed(display'[c]),
         \A c \in Controllers \ ctrl : display'[c] = display[c],
         \A c \in ctrl \cap ready \cap aligned : Served(display'[c])
  PROVE  Sound(display')
<1>1. ctrl \subseteq Controllers /\ ready \subseteq Controllers
      /\ aligned \subseteq Controllers
  BY DEF LibraryInv
<1>2. \A c \in Controllers : Formed(display'[c])
  BY Found
<1>3. \A c \in ready \cap aligned : Served(display'[c])
  BY <1>1, Found
<1>4. \A c \in aligned \ ctrl : display'[c].high = 16
  BY <1>1, Found
<1> QED
  BY <1>2, <1>3, <1>4 DEF Sound

LEMMA ToggleStep ==
  LibraryInv /\ lcd_e_toggle => LibraryInv'
<1> SUFFICES ASSUME LibraryInv, lcd_e_toggle PROVE LibraryInv'
  OBVIOUS
<1>1. /\ todo # << >> /\ Head(todo).op = "toggle"
      /\ todo' = Tail(todo) /\ UNCHANGED <<ctrl, ready, aligned, rs, rw>>
  BY DEF lcd_e_toggle, Do, Continue, lines
<1>2. PICK k \in 1 .. 23 : Initialising(k)
  BY <1>1, OfInit
<1>3. k \in {2, 4, 6, 8} /\ Head(todo).arg = 3
  <2>1. lcd_init[k].op = "toggle" /\ Head(todo) = lcd_init[k]
    BY <1>1, <1>2, InitHead
  <2> QED
    BY <2>1, InitSteps
<1>4. /\ display' = [c \in Controllers |->
                      IF c \in ctrl
                      THEN IF rw = 1 THEN display[c] ELSE Pulse(display[c], rs, 3)
                      ELSE display[c]]
      /\ rs \in Levels /\ rw \in Levels /\ ctrl \subseteq Controllers
  BY <1>3, Toggles DEF LibraryInv
<1>5. ASSUME NEW c \in ctrl
      PROVE  /\ Formed(display'[c])
             /\ c \in aligned => Brought(display'[c], k + 1, rs', rw')
  <2>1. /\ c \in Controllers /\ Formed(display[c])
        /\ c \in aligned => Brought(display[c], k, rs, rw)
    BY <1>2, <1>4, Found DEF Initialising
  <2>2. CASE rw = 1
    <3>1. display'[c] = display[c]
      BY <1>4, <2>1, <2>2
    <3> QED
      BY <1>1, <1>3, <2>1, <2>2, <3>1, ReadBrings
  <2>3. CASE rw = 0
    <3>1. display'[c] = Pulse(display[c], rs, 3)
      BY <1>4, <2>1, <2>3
    <3>2. Formed(Pulse(display[c], rs, 3))
      <4>1. 3 \in Nat /\ 3 <= 15
        OBVIOUS
      <4> QED
        BY <1>4, <2>1, <4>1, PulseForms
    <3>3. c \in aligned => Brought(Pulse(display[c], rs, 3), k + 1, rs, 0)
      BY <1>3, <1>4, <2>1, <2>3, ToggleBrings
    <3> QED
      BY <1>1, <2>3, <3>1, <3>2, <3>3
  <2> QED
    BY <1>4, <2>2, <2>3 DEF Levels
<1>6. Sound(display')
  <2>1. \A c \in Controllers \ ctrl : display'[c] = display[c]
    BY <1>4
  <2>2. display' \in [Controllers -> Display]
    <3>1. \A c \in Controllers : display'[c] \in Display
      BY <1>5, <2>1, Found DEF Formed
    <3> QED
      BY <1>4, <3>1
  <2>3. ctrl \cap ready \cap aligned = {}
    BY <1>2 DEF Initialising
  <2> QED
    BY <1>1, <1>5, <2>1, <2>2, <2>3, DrivenSound
<1>7. ~(k + 1 >= 12) /\ k # 23
  BY <1>3
<1> QED
  BY <1>1, <1>2, <1>4, <1>5, <1>6, <1>7, Advanced

LEMMA ByteStep ==
  LibraryInv /\ lcd_write => LibraryInv'
<1> SUFFICES ASSUME LibraryInv, lcd_write PROVE LibraryInv'
  OBVIOUS
<1> DEFINE b == Head(todo).arg
<1>1. /\ todo # << >> /\ Head(todo).op \in {"data", "instruction"}
      /\ todo' = Tail(todo) /\ UNCHANGED <<ctrl, ready, aligned>>
      /\ rs' = IF Head(todo).op = "data" THEN 1 ELSE 0
      /\ rw' = 0
  BY DEF lcd_write, Do, Continue
<1>2. rs' \in Levels /\ rw' \in Levels /\ ctrl \subseteq Controllers
  BY <1>1 DEF Levels, LibraryInv
<1>3. display' = [c \in Controllers |->
                   IF c \in ctrl THEN WriteByte(display[c], rs', b) ELSE display[c]]
  BY Writes
<1>4. /\ \A c \in ctrl : display'[c] = WriteByte(display[c], rs', b)
      /\ \A c \in Controllers \ ctrl : display'[c] = display[c]
  BY <1>2, <1>3
<1>5. ASSUME b \in Nat, b <= 255
      PROVE  /\ \A c \in ctrl : Formed(display'[c])
             /\ display' \in [Controllers -> Display]
  <2>1. ASSUME NEW c \in ctrl
        PROVE  Formed(display'[c])
    <3>1. Formed(display[c])
      BY <1>2, Found
    <3>2. Formed(WriteByte(display[c], rs', b))
      BY <1>2, <1>5, <3>1, WriteForms
    <3> QED
      BY <1>4, <3>2
  <2>2. \A c \in Controllers : display'[c] \in Display
    BY <1>4, <2>1, Found DEF Formed
  <2> QED
    BY <1>3, <2>1, <2>2
<1>6. CASE \E k \in 1 .. 23 : Initialising(k)
  <2>1. PICK k \in 1 .. 23 : Initialising(k)
    BY <1>6
  <2>2. /\ k \in {12, 16, 18, 20, 22} /\ b \in Nat /\ b <= 255
        /\ Head(todo).op # "data"
        /\ k = 12 => b = 40
        /\ k = 16 => b = 8
        /\ k = 18 => b = 1
        /\ k = 20 => b = 6
        /\ k = 22 => b = 12
    <3>1. lcd_init[k].op \in {"data", "instruction"} /\ b = lcd_init[k].arg
          /\ lcd_init[k].op = Head(todo).op
      BY <1>1, <2>1, InitHead
    <3>2. lcd_init[k].op # "data"
      BY InitSteps
    <3>3. \/ k = 12 /\ b = 40
          \/ k = 16 /\ b = 8
          \/ k = 18 /\ b = 1
          \/ k = 20 /\ b = 6
          \/ k = 22 /\ b = 12
      <4> HIDE DEF b
      <4>1. lcd_init[k].op = "instruction"
        BY <3>1, <3>2
      <4> QED
        BY <3>1, <4>1, InitSteps
    <3> HIDE DEF b
    <3> QED
      BY <3>1, <3>2, <3>3
  <2>3. rs' = 0
    BY <1>1, <2>2
  <2> HIDE DEF b
  <2>4. ASSUME NEW c \in ctrl \cap aligned
        PROVE  Brought(display'[c], k + 1, rs', rw') /\ display'[c].present
    <3>1. /\ Formed(display[c]) /\ Brought(display[c], k, rs, rw)
          /\ display[c].present
      BY <1>2, <2>1, <2>2, Found DEF Initialising
    <3>2. display'[c] = WriteByte(display[c], 0, b)
      BY <1>4, <2>3
    <3>3. LET e == WriteByte(display[c], 0, b) IN e.present /\ Brought(e, k + 1, 0, 0)
      BY <2>2, <3>1, WriteBrings
    <3> QED
      BY <1>1, <2>3, <3>2, <3>3
  <2>5. ctrl \cap ready \cap aligned = {}
    BY <2>1 DEF Initialising
  <2>6. Sound(display')
    BY <1>1, <1>4, <1>5, <2>2, <2>5, DrivenSound
  <2>7. k # 23
    BY <2>2
  <2> QED
    BY <1>1, <1>2, <2>1, <2>4, <2>6, <2>7, Advanced
<1>7. CASE \E s \in Calls : \E k \in 1 .. Len(s) : Serving(s, k)
  <2>0. PICK s \in Calls : \E k \in 1 .. Len(s) : Serving(s, k)
    BY <1>7
  <2>1. PICK k \in 1 .. Len(s) : Serving(s, k)
    BY <2>0
  <2>2. k % 2 = 0
    <3>1. k \in Nat
      BY CallsList
    <3>2. k % 2 = 0 \/ k % 2 = 1
      BY <3>1
    <3> QED
      BY <1>1, <2>1, <3>2, ServingSteps
  <2>3. /\ b \in Nat /\ b <= 255
        /\ Head(todo).op = "instruction" => b = 1 \/ b >= 128
    BY <2>1, <2>2, ServingSteps
  <2>4. \/ rs' = 1
        \/ rs' = 0 /\ (b = 1 \/ b >= 128)
    BY <1>1, <2>3
  <2> HIDE DEF b
  <2>5. ASSUME NEW c \in ctrl \cap ready \cap aligned
        PROVE  Served(display'[c])
    <3>1. Served(display[c]) /\ display[c].busy = 0
      BY <1>2, <2>1, <2>2, Found DEF Serving
    <3>2. display'[c] = WriteByte(display[c], rs', b)
      BY <1>4
    <3>3. CASE rs' = 1
      BY <2>3, <3>1, <3>2, <3>3, WriteServes
    <3>4. CASE rs' = 0 /\ (b = 1 \/ b >= 128)
      BY <2>3, <3>1, <3>2, <3>4, WriteServes
    <3> QED
      BY <2>4, <3>3, <3>4
  <2>6. Sound(display')
    BY <1>1, <1>4, <1>5, <2>3, <2>5, DrivenSound
  <2>7. ~(k % 2 = 1)
    BY <2>2
  <2> QED
    BY <1>1, <1>2, <2>1, <2>6, <2>7, Continued
<1> QED
  BY <1>1, <1>6, <1>7, Running

LEMMA TestStep ==
  LibraryInv /\ TestPresence => LibraryInv'
<1> SUFFICES ASSUME LibraryInv, TestPresence PROVE LibraryInv'
  OBVIOUS
<1>1. /\ todo # << >> /\ Head(todo).op = "test"
      /\ UNCHANGED <<display, ctrl, ready, aligned>>
      /\ rs' \in Levels /\ rw' \in Levels /\ ctrl \subseteq Controllers
  BY DEF TestPresence, Do, ReadStatus, Levels, LibraryInv
<1>2. PICK busy \in lcd_read(Selected) :
        todo' = IF busy THEN << >> ELSE Tail(todo)
  BY DEF TestPresence
<1>3. PICK k \in 1 .. 23 : Initialising(k)
  BY <1>1, OfInit
<1>4. k \in {10, 14}
  <2>1. lcd_init[k].op = "test"
    BY <1>1, <1>3, InitHead
  <2> QED
    BY <2>1, InitSteps
<1>5. ASSUME NEW c \in ctrl \cap aligned
      PROVE  /\ display[c] \in Display /\ display[c].high = 16
             /\ display[c].present => display[c].busy = 0
             /\ k >= 12 => display[c].present
             /\ Brought(display[c], k, rs, rw)
  <2>1. c \in Controllers /\ Brought(display[c], k, rs, rw)
    BY <1>1, <1>3 DEF Initialising
  <2>2. Formed(display[c])
    BY <2>1, Found
  <2>3. display[c].high = 16
    BY <1>4, <2>1, <2>2 DEF Brought, Formed
  <2> QED
    BY <1>3, <1>4, <2>1, <2>2, <2>3 DEF Initialising, Brought, Formed
<1>6. Sound(display')
  BY <1>1 DEF LibraryInv, Sound
<1>7. CASE busy
  <2>1. todo' = << >>
    BY <1>2, <1>7
  <2>2. \A c \in aligned : display[c].high = 16
    BY <1>1, <1>5, Found DEF LibraryInv
  <2>3. ASSUME Present(ctrl), ctrl \subseteq aligned
        PROVE  ctrl = {}
    <3>1. \A d \in Selected : d \in Display /\ (d.present => d.high = 16 /\ d.busy = 0)
      BY <1>5, <2>3 DEF Selected
    <3>2. \A d \in Selected : ~d.present
      BY <1>7, <3>1, SomePresent
    <3>3. \A c \in ctrl : ~display[c].present
      BY <3>2 DEF Selected
    <3> QED
      BY <2>3, <3>3 DEF Present
  <2>4. Resting'
    BY <1>1, <2>1, <2>2, <2>3 DEF Resting, Present
  <2> QED
    BY <1>1, <1>6, <2>4 DEF LibraryInv, Sound
<1>8. CASE ~busy
  <2>1. todo' = Tail(todo)
    BY <1>2, <1>8
  <2>2. ASSUME NEW c \in ctrl \cap aligned
        PROVE  /\ Brought(display'[c], k + 1, rs', rw')
               /\ k + 1 >= 12 => display'[c].present
    <3>1. /\ display' = display /\ Brought(display[c], k, rs, rw)
          /\ k >= 12 => display[c].present
      BY <1>1, <1>5
    <3>2. CASE k = 10
      BY <3>1, <3>2 DEF Brought
    <3>3. CASE k = 14
      BY <3>1, <3>3 DEF Brought
    <3> QED
      BY <1>4, <3>2, <3>3
  <2>3. k # 23
    BY <1>4
  <2> QED
    BY <1>1, <1>3, <1>6, <2>1, <2>2, <2>3, Advanced
<1> QED
  BY <1>7, <1>8

LEMMA WaitStep ==
  LibraryInv /\ lcd_waitbusy => LibraryInv'
<1> SUFFICES ASSUME LibraryInv, lcd_waitbusy PROVE LibraryInv'
  OBVIOUS
<1>1. /\ todo # << >> /\ Head(todo).op = "wait"
      /\ display' = [c \in Controllers |-> Elapse(display[c], PollTime)]
      /\ UNCHANGED <<ctrl, ready, aligned>>
      /\ rs' \in Levels /\ rw' \in Levels /\ ctrl \subseteq Controllers
  BY DEF lcd_waitbusy, Do, Pass, ReadStatus, lines, Levels, LibraryInv
<1>2. PICK busy \in [ctrl -> BOOLEAN] :
        /\ \A c \in ctrl : busy[c] \in lcd_read({display[c]})
        /\ IF \E c \in ctrl : busy[c] THEN UNCHANGED todo ELSE Continue
  BY DEF lcd_waitbusy
<1>3. PollTime \in Nat
  BY PollTimeAssumption
<1>4. Sound(display')
  BY <1>1, <1>3, ElapsedSound
<1>5. ASSUME NEW c \in Controllers
      PROVE  LET d == display[c]
                 e == display'[c]
             IN /\ d \in Display
                /\ e.present = d.present /\ e.width = d.width /\ e.high = d.high
                /\ e.on = d.on
                /\ d.busy = 0 => e.busy = 0
  <2> DEFINE d == display[c]
             e == Elapse(d, PollTime)
  <2>1. d \in Display /\ display'[c] = e
    BY <1>1 DEF LibraryInv, Sound
  <2> HIDE DEF d
  <2>2. /\ e.present = d.present /\ e.width = d.width /\ e.high = d.high
        /\ e.busy = (IF d.busy > PollTime THEN d.busy - PollTime ELSE 0)
        /\ e.on = d.on
    BY <1>3, <2>1, ElapseFields
  <2>3. d.busy = 0 => e.busy = 0
    BY <1>3, <2>2
  <2> HIDE DEF e
  <2> QED
    BY <2>1, <2>2, <2>3 DEF d
<1>6. CASE \E c \in ctrl : busy[c]
  <2>1. UNCHANGED todo
    BY <1>2, <1>6
  <2>2. ASSUME NEW k \in 1 .. 23, Initialising(k)
        PROVE  Initialising(k)'
    <3>1. k \in {11, 15, 17, 19, 21}
      <4>1. lcd_init[k].op = "wait"
        BY <1>1, <2>2, InitHead
      <4> QED
        BY <4>1, InitSteps
    <3>2. ASSUME NEW c \in ctrl \cap aligned
          PROVE  /\ Brought(display'[c], k, rs', rw')
                 /\ k >= 12 => display'[c].present
      <4>1. /\ c \in Controllers /\ Brought(display[c], k, rs, rw)
            /\ k >= 12 => display[c].present
        BY <1>1, <2>2 DEF Initialising
      <4> QED
        BY <1>5, <3>1, <4>1 DEF Brought
    <3> QED
      BY <1>1, <2>1, <2>2, <3>2 DEF Initialising
  <2>3. ASSUME NEW s \in Calls, NEW k \in 1 .. Len(s), Serving(s, k)
        PROVE  Serving(s, k)'
    <3>1. ASSUME NEW c \in ctrl \cap aligned, k % 2 = 0
          PROVE  display'[c].busy = 0
      BY <1>1, <1>5, <2>3, <3>1 DEF Serving
    <3> QED
      BY <1>1, <2>1, <2>3, <3>1 DEF Serving
  <2> QED
    <3>1. \/ \E k \in 1 .. 23 : Initialising(k)
          \/ \E s \in Calls : \E k \in 1 .. Len(s) : Serving(s, k)
      BY <1>1, Running
    <3>2. CASE \E k \in 1 .. 23 : Initialising(k)
      BY <1>1, <1>4, <2>2, <3>2 DEF LibraryInv, Sound
    <3>3. CASE \E s \in Calls : \E k \in 1 .. Len(s) : Serving(s, k)
      BY <1>1, <1>4, <2>3, <3>3 DEF LibraryInv, Sound, Calls
    <3> QED
      BY <3>1, <3>2, <3>3
<1>7. CASE ~(\E c \in ctrl : busy[c])
  <2>1. todo' = Tail(todo)
    BY <1>2, <1>7 DEF Continue
  <2>2. ASSUME NEW c \in ctrl
        PROVE  display[c].present /\ (display[c].high = 16 => display[c].busy = 0)
    <3>1. c \in Controllers /\ display[c] \in Display
      BY <1>1, <1>5
    <3>2. FALSE \in lcd_read({display[c]})
      <4>1. busy[c] = FALSE
        BY <1>2, <1>7
      <4> QED
        BY <1>2, <4>1
    <3> QED
      BY <3>1, <3>2, NotBusy
  <2>3. CASE \E k \in 1 .. 23 : Initialising(k)
    <3>1. PICK k \in 1 .. 23 : Initialising(k)
      BY <2>3
    <3>2. k \in {11, 15, 17, 19, 21} /\ k # 23
      <4>1. lcd_init[k].op = "wait"
        BY <1>1, <3>1, InitHead
      <4>2. k \in {11, 15, 17, 19, 21}
        BY <4>1, InitSteps
      <4> QED
        BY <4>2
    <3>3. ASSUME NEW c \in ctrl \cap aligned
          PROVE  /\ Brought(display'[c], k + 1, rs', rw')
                 /\ k + 1 >= 12 => display'[c].present
      <4>1. c \in Controllers /\ Brought(display[c], k, rs, rw)
        BY <1>1, <3>1 DEF Initialising
      <4>2. display[c].present /\ display[c].busy = 0
        BY <2>2, <3>2, <4>1 DEF Brought
      <4> QED
        BY <1>5, <3>2, <4>1, <4>2 DEF Brought
    <3> QED
      BY <1>1, <1>4, <2>1, <3>1, <3>2, <3>3, Advanced
  <2>4. CASE \E s \in Calls : \E k \in 1 .. Len(s) : Serving(s, k)
    <3>1. PICK s \in Calls : \E k \in 1 .. Len(s) : Serving(s, k)
      BY <2>4
    <3>2. PICK k \in 1 .. Len(s) : Serving(s, k)
      BY <3>1
    <3>3. ASSUME NEW c \in ctrl \cap aligned
          PROVE  display'[c].busy = 0
      <4>1. c \in Controllers /\ Served(display[c])
        BY <1>1, <3>2, Found DEF Serving
      <4>2. display[c].busy = 0
        BY <2>2, <4>1 DEF Served
      <4> QED
        BY <1>5, <4>1, <4>2
    <3> QED
      BY <1>1, <1>4, <2>1, <3>2, <3>3, Continued
  <2> QED
    BY <1>1, <2>3, <2>4, Running
<1> QED
  BY <1>6, <1>7

LEMMA SuccessStep ==
  LibraryInv /\ ReturnSuccess => LibraryInv'
<1> SUFFICES ASSUME LibraryInv, ReturnSuccess PROVE LibraryInv'
  OBVIOUS
<1>1. /\ todo # << >> /\ Head(todo).op = "return1"
      /\ todo' = Tail(todo) /\ ready' = ready \cup ctrl
      /\ UNCHANGED <<display, ctrl, aligned, rs, rw>>
  BY DEF ReturnSuccess, Do, Continue, lines
<1>2. PICK k \in 1 .. 23 : Initialising(k)
  BY <1>1, OfInit
<1>3. k = 23
  <2>1. lcd_init[k].op = "return1"
    BY <1>1, <1>2, InitHead
  <2> QED
    BY <2>1, InitSteps
<1>4. todo' = << >>
  <2>1. Initialising(23)
    BY <1>2, <1>3
  <2> QED
    BY <1>1, <2>1, InitProceeds DEF Initialising
<1>5. ASSUME NEW c \in ctrl \cap aligned
      PROVE  Served(display[c])
  <2>1. /\ c \in Controllers /\ Brought(display[c], 23, rs, rw)
        /\ display[c].present
    BY <1>2, <1>3 DEF LibraryInv, Initialising
  <2>2. display[c] \in Display
    BY <2>1, Found
  <2> QED
    BY <2>1, <2>2 DEF Brought, Served
<1>6. \A c \in aligned : display[c].high = 16
  BY <1>5, Found DEF LibraryInv, Served
<1>7. Resting'
  BY <1>1, <1>4, <1>6 DEF Resting
<1>8. Sound(display)'
  BY <1>1, <1>5 DEF LibraryInv, Sound
<1> QED
  BY <1>1, <1>7, <1>8 DEF LibraryInv

LEMMA CallStep ==
  LibraryInv /\ (CallInit \/ CallOther) => LibraryInv'
<1> SUFFICES ASSUME LibraryInv, CallInit \/ CallOther PROVE LibraryInv'
  OBVIOUS
<1>1. /\ display' = display /\ ctrl' \subseteq Controllers
      /\ rs' = rs /\ rw' = rw /\ todo = << >>
  BY MasksAssumption DEF CallInit, CallOther, Controllers, lines, Idle
<1>2. \A c \in aligned : display[c].high = 16
  <2>1. ~(\E k \in 1 .. 23 : Initialising(k))
    BY <1>1, InitHead
  <2>2. ~(\E s \in Calls : \E k \in 1 .. Len(s) : Serving(s, k))
    BY <1>1, ServingSteps
  <2> QED
    BY <2>1, <2>2 DEF LibraryInv, Resting
<1>3. CASE CallInit
  <2>1. todo' = Rest(1)
    BY <1>3, InitList, SubSeqFull DEF CallInit, Rest
  <2>2. /\ ready' = ready \ ctrl'
        /\ aligned' = IF rs = 0 /\ rw = 0 THEN aligned \cup ctrl' ELSE aligned
    BY <1>3 DEF CallInit
  <2>3. ASSUME NEW c \in ctrl' \cap aligned'
        PROVE  Brought(display[c], 1, rs, rw)
    <3>1. CASE rs = 0 /\ rw = 0
      BY <3>1 DEF Brought, Pulsed
    <3>2. CASE ~(rs = 0 /\ rw = 0)
      <4>1. display[c].high = 16
        BY <1>2, <2>2, <3>2
      <4> QED
        BY <3>2, <4>1 DEF Brought, Pulsed
    <3> QED
      BY <3>1, <3>2
  <2>4. Initialising(1)'
    BY <1>1, <2>1, <2>2, <2>3 DEF Initialising
  <2>5. 1 \in 1 .. 23
    OBVIOUS
  <2>6. Sound(display)'
    <3>1. \A c \in aligned' \ ctrl' : display[c].high = 16
      BY <1>2, <2>2
    <3>2. \A c \in ready' \cap aligned' : Served(display[c])
      BY <2>2 DEF LibraryInv, Sound
    <3> QED
      BY <1>1, <3>1, <3>2 DEF LibraryInv, Sound
  <2> QED
    BY <1>1, <2>2, <2>4, <2>5, <2>6 DEF LibraryInv
<1>4. CASE CallOther
  <2>1. /\ todo' \in Calls /\ ctrl' \subseteq ready /\ ready' = ready
        /\ aligned' = aligned
    BY <1>4 DEF CallOther, Calls
  <2>2. PICK s \in Calls : todo' = s
    BY <2>1
  <2>3. s \in Seq(Op) /\ Len(s) >= 1 /\ 1 \in 1 .. Len(s)
    BY CallsList
  <2>4. todo' = SubSeq(s, 1, Len(s))
    BY <2>2, <2>3, SubSeqFull
  <2>5. Serving(s, 1)'
    BY <2>1, <2>4 DEF Serving
  <2>6. Sound(display)'
    BY <1>1, <1>2, <2>1 DEF LibraryInv, Sound
  <2> QED
    BY <1>1, <2>1, <2>3, <2>5, <2>6 DEF LibraryInv, Calls
<1> QED
  BY <1>3, <1>4

LEMMA AnyStateFormed ==
  ASSUME NEW d \in AnyState
  PROVE  Formed(d)
<1> DEFINE times == 0 .. 15000
           places == 0 .. 127
<1>1. d \in [present : BOOLEAN, width : {4, 8}, high : Nibbles \cup {NoNibble},
             busy : {0, 15000}, lines : {0}, on : BOOLEAN, addr : {0}]
  BY DEF AnyState
<1>2. d.width = 8 \/ ~d.present => d.high = NoNibble
  BY DEF AnyState
<1>3. {0, 15000} \subseteq times /\ {0} \subseteq places
  OBVIOUS
<1>4. d \in Display
  <2> HIDE DEF times, places
  <2>1. d \in [present : BOOLEAN, width : {4, 8}, high : Nibbles \cup {16},
               busy : times, lines : 0 .. 2, on : BOOLEAN, addr : places]
    BY <1>1, <1>3 DEF NoNibble
  <2> QED
    BY <2>1 DEF Display, times, places
<1> QED
  BY <1>2, <1>4 DEF Formed, NoNibble

LEMMA LibraryInvInit ==
  Init => LibraryInv
<1> SUFFICES ASSUME Init PROVE LibraryInv
  OBVIOUS
<1>1. /\ display \in [Controllers -> AnyState]
      /\ ctrl = {} /\ todo = << >> /\ ready = {} /\ rs = 0 /\ rw = 0
      /\ aligned = {c \in Controllers : display[c].high = NoNibble}
  BY DEF Init
<1>2. ASSUME NEW d \in AnyState
      PROVE  Formed(d)
  BY AnyStateFormed
<1>3. Sound(display)
  BY <1>1, <1>2 DEF Sound, Formed, NoNibble
<1>4. Resting
  BY <1>1 DEF Resting, NoNibble
<1> QED
  BY <1>1, <1>3, <1>4 DEF LibraryInv, Levels

LEMMA LibraryInvStep ==
  LibraryInv /\ Next => LibraryInv'
  BY DelayStep, ToggleStep, ByteStep, TestStep, WaitStep, SuccessStep, CallStep
     DEF Next, LibraryStep

LEMMA LibraryReady ==
  LibraryInv => ReadyInSync
<1> SUFFICES ASSUME LibraryInv, todo = << >>
             PROVE  /\ Present(ctrl) /\ ctrl \subseteq aligned => ctrl \subseteq ready
                    /\ \A c \in ready \cap aligned :
                         InSync(display[c]) /\ display[c].on
  BY DEF ReadyInSync, Idle
<1>1. ~(\E k \in 1 .. 23 : Initialising(k))
  BY InitHead
<1>2. ~(\E s \in Calls : \E k \in 1 .. Len(s) : Serving(s, k))
  BY ServingSteps
<1>3. Present(ctrl) /\ ctrl \subseteq aligned => ctrl \subseteq ready
  BY <1>1, <1>2 DEF LibraryInv, Resting
<1>4. ASSUME NEW c \in ready \cap aligned
      PROVE  InSync(display[c]) /\ display[c].on
  BY DEF LibraryInv, Sound, Served, InSync, NoNibble
<1> QED
  BY <1>3, <1>4

-----------------------------------------------------------------------------
(* The board *)

\* The driver that is linked keeps its invariant, and the other one rests.
BoardInv ==
  \/ /\ linked = "lcd.c" /\ LibraryInv
     /\ pc = "idle"
  \/ /\ linked = "1602.c" /\ SimpleInv
     /\ ctrl = {} /\ ready = {}

LEMMA BoardInvInit ==
  BoardInit => BoardInv
  BY LibraryInvInit, SimpleInvInit DEF BoardInit, BoardInv, SimpleRests, LibraryRests

LEMMA BoardInvStep ==
  BoardInv /\ [BoardNext]_BoardVars => BoardInv'
<1> SUFFICES ASSUME BoardInv, [BoardNext]_BoardVars PROVE BoardInv'
  OBVIOUS
<1>1. CASE LibraryNext
  <2>1. linked' = linked /\ pc' = pc /\ linked = "lcd.c" /\ Next
    BY <1>1 DEF LibraryNext, simpleVars
  <2>2. LibraryInv'
    BY <2>1, LibraryInvStep DEF BoardInv
  <2> QED
    BY <2>1, <2>2 DEF BoardInv
<1>2. CASE SimpleNext
  <2>1. /\ linked' = linked /\ ctrl' = ctrl /\ ready' = ready
        /\ linked = "1602.c" /\ Simple!Next
    BY <1>2 DEF SimpleNext, vars
  <2>2. SimpleInv'
    BY <2>1, SimpleStep DEF BoardInv
  <2> QED
    BY <2>1, <2>2 DEF BoardInv
<1>3. CASE UNCHANGED BoardVars
  <2>1. UNCHANGED <<linked, display, ctrl, todo, ready, rs, rw, aligned,
                    panel, cells, pc, pos, len, at, before>>
    BY <1>3 DEF BoardVars, vars, lines, simpleVars
  <2>2. LibraryInv => LibraryInv'
    BY <2>1 DEF LibraryInv, Sound, Resting, Present, Initialising, Serving
  <2>3. SimpleInv => SimpleInv'
    BY <2>1 DEF SimpleInv, SettingUp, SetUp, Putting
  <2> QED
    BY <2>1, <2>2, <2>3 DEF BoardInv
<1> QED
  BY <1>1, <1>2, <1>3 DEF BoardNext

\* Whichever driver is linked, the board stays in the states BoardInv describes.
THEOREM BoardInvariant ==
  BoardSpec => []BoardInv
  BY BoardInvInit, BoardInvStep, PTL DEF BoardSpec

\* From any state the first lcd_init after a reset brings displays that are
\* there to take bytes in halves, high one first, and switches them on, and no
\* later call of lcd.c puts one out of step; nor does an lcd_init whose pulses
\* are data or reads, if the display was not in the middle of a byte.
THEOREM InitLeavesDisplaysInStep ==
  BoardSpec => []ReadyInSync
<1>1. BoardInv => ReadyInSync
  BY LibraryReady DEF BoardInv, ReadyInSync
<1> QED
  BY <1>1, BoardInvariant, PTL

\* 1602.c, which never asks the display, sets it up and keeps it working, as
\* its delays are long enough whatever a turn of the loop takes.
THEOREM DelaysSuffice ==
  BoardSpec => []Lcd1602Works
<1>1. BoardInv => Lcd1602Works
  BY SimpleWorks DEF BoardInv, Lcd1602Works
<1> QED
  BY <1>1, BoardInvariant, PTL

\* lcd1602_puts shows any string where it should and changes nothing else.
THEOREM StringsStandWhereTheyShould ==
  BoardSpec => []PutsShown
<1>1. BoardInv => PutsShown
  BY SimplePutsShown DEF BoardInv, PutsShown, Simple!PutsShown
<1> QED
  BY <1>1, BoardInvariant, PTL
=============================================================================
