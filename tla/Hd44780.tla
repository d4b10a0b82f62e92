------------------------------ MODULE Hd44780 ------------------------------
(* The display controller that lcd.c and 1602.c drive over four data lines. *)
(* It is hardware, modelled from what the two drivers rely on: an           *)
(* instruction arrives as one pulse of the enable line in 8-bit mode and as *)
(* two in 4-bit mode, the high nibble first; a controller that is busy      *)
(* accepts nothing.  Times are microseconds.                                *)
EXTENDS Naturals, TLC

Nibbles == 0 .. 15

Display ==
  [present : BOOLEAN,           \* something answers on this enable line
   width : {4, 8},
   high : Nibbles \cup {16},    \* the nibble waiting for its other half, or 16
   busy : 0 .. 15000,           \* time until it accepts an instruction
   lines : 0 .. 2,              \* 0: not known
   on : BOOLEAN,
   addr : 0 .. 127]

NoNibble == 16

Elapse(d, us) == [d EXCEPT !.busy = IF @ > us THEN @ - us ELSE 0]

Instruction(d, b) ==
  LET fast == [d EXCEPT !.busy = 37]
      slow == [d EXCEPT !.busy = 1520, !.addr = 0]
  IN IF b >= 128 THEN [fast EXCEPT !.addr = b - 128]
     ELSE IF b \in 32 .. 63
          THEN [fast EXCEPT !.width = IF (b \div 16) % 2 = 1 THEN 8 ELSE 4,
                            !.lines = 1 + ((b \div 8) % 2)]
     ELSE IF b \in 8 .. 15 THEN [fast EXCEPT !.on = (b \div 4) % 2 = 1]
     ELSE IF b \in 1 .. 3 THEN slow
     ELSE fast

DataByte(d) == [d EXCEPT !.busy = 41, !.addr = (@ + 1) % 128]

Accept(d, rs, b) == IF rs = 1 THEN DataByte(d) ELSE Instruction(d, b)

\* One pulse of the enable line with a nibble on D7 to D4.  In 8-bit mode D3
\* to D0 float, so what they select is not known: the number of lines, or, with
\* a nibble of 0, the whole instruction, which only displays out of step get.
Pulse(d, rs, nibble) ==
  IF ~d.present \/ d.busy > 0 THEN d
  ELSE IF d.width = 8
       THEN [Accept(d, rs, 16 * nibble) EXCEPT !.lines = 0]
  ELSE IF d.high = NoNibble THEN [d EXCEPT !.high = nibble]
  ELSE Accept([d EXCEPT !.high = NoNibble], rs, 16 * d.high + nibble)

WriteByte(d, rs, b) == Pulse(Pulse(d, rs, b \div 16), rs, b % 16)

\* What may be read as the busy flag from controllers that share the data
\* lines: those that are there drive them, else the pull-ups read as busy.
BusyFlag(ds) ==
  LET driving == {d \in ds : d.present}
  IN IF driving = {} THEN {TRUE}
     ELSE UNION {IF d.high = NoNibble THEN {d.busy > 0} ELSE BOOLEAN :
                 d \in driving}

InSync(d) == d.width = 4 /\ d.high = NoNibble
Working(d) == InSync(d) /\ d.lines = 2 /\ d.on
=============================================================================
