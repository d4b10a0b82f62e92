------------------------------ MODULE Displays ------------------------------
(* A board with a display, whose firmware is linked with lcd.c or with      *)
(* 1602.c.  The two know nothing of each other: the variables of the driver *)
(* that is not linked rest.                                                 *)
EXTENDS LcdLibrary

CONSTANTS
  Loop,         \* of Lcd1602
  Lengths       \* of Lcd1602

\* A turn of the loop takes from 1.2 to 12.3 microseconds.  In less time the
\* display is not done with a character when the next one comes; in more, it
\* takes the second nibble of the first command for the first of the next.
ASSUME LoopAssumption == Loop \in 12 .. 123
ASSUME LengthsAssumption == Lengths \subseteq Nat

VARIABLES
  linked,       \* the driver of this firmware
  panel, cells, pc, pos, len, at, before        \* of Lcd1602

Simple == INSTANCE Lcd1602 WITH display <- panel

simpleVars == <<panel, cells, pc, pos, len, at, before>>

Unconnected ==
  [present |-> FALSE, width |-> 8, high |-> NoNibble, busy |-> 0, lines |-> 0,
   on |-> FALSE, addr |-> 0]

LibraryRests ==
  /\ display = [c \in Controllers |-> Unconnected]
  /\ ctrl = {} /\ todo = << >> /\ ready = {} /\ aligned = {}
  /\ rs = 0 /\ rw = 0

SimpleRests ==
  /\ panel = Unconnected
  /\ cells = Simple!Blank /\ before = Simple!Blank
  /\ pc = "idle" /\ pos = 0 /\ len = 0 /\ at = 0

BoardInit ==
  \/ linked = "lcd.c" /\ Init /\ SimpleRests
  \/ linked = "1602.c" /\ Simple!Init /\ LibraryRests

LibraryNext == linked = "lcd.c" /\ Next /\ UNCHANGED <<linked, simpleVars>>
SimpleNext == linked = "1602.c" /\ Simple!Next /\ UNCHANGED <<linked, vars>>

BoardNext == LibraryNext \/ SimpleNext

BoardVars == <<linked, vars, simpleVars>>

\* Nothing keeps the processor from going on with a call.
BoardSpec ==
  /\ BoardInit /\ [][BoardNext]_BoardVars
  /\ WF_BoardVars(~Idle /\ LibraryNext)

-----------------------------------------------------------------------------
(* Properties of 1602.c, when it is linked *)

Lcd1602Works == linked = "1602.c" => Simple!Lcd1602Works
PutsShown == Simple!PutsShown
=============================================================================
