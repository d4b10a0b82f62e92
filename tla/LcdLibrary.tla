----------------------------- MODULE LcdLibrary -----------------------------
(* lcd.c: a library for up to two display controllers on one set of data    *)
(* lines, each with its own enable line.  A function of the library is the  *)
(* list of things it does to the lines, one action each.  A call names the  *)
(* controllers it is for by a mask, here a set.                             *)
(*                                                                          *)
(* The microcontroller may be reset between any two pulses, which clears    *)
(* its ports but not the displays: Init therefore starts with displays in   *)
(* any state.  RS and RW stay as the last access left them.                 *)
EXTENDS Hd44780, Sequences

CONSTANTS
  Masks,        \* the values callers pass for ctrl
  Attached,     \* the sets of controllers that may be connected
  Starts,       \* bound: the addresses from which strings are written
  PollTime      \* bound: how much time one turn of lcd_waitbusy stands for

ASSUME PollTimeAssumption == PollTime \in Nat \ {0}
ASSUME MasksAssumption == Masks \subseteq SUBSET {0, 1}

VARIABLES
  display,      \* the controllers
  ctrl,         \* the controllers of the running call
  todo,         \* what is left of that call
  ready,        \* the controllers for which lcd_init has returned 1
  rs,           \* the line that tells data from instructions
  rw,           \* the line that tells reads from writes
  aligned       \* history: the controllers that, when the running call or the
                \* last one began, were not in the middle of a byte or were
                \* going to be woken by pulses that are instructions

lines == <<rs, rw>>
vars == <<display, ctrl, todo, ready, lines, aligned>>

Controllers == {0, 1}

Delay(us) == [op |-> "delay", arg |-> us]
Toggle(n) == [op |-> "toggle", arg |-> n]
WaitBusy == [op |-> "wait", arg |-> 0]
Write(r, b) == [op |-> IF r = 1 THEN "data" ELSE "instruction", arg |-> b]
TestBusy == [op |-> "test", arg |-> 0]
Return1 == [op |-> "return1", arg |-> 0]

LCD_FUNCTION_DEFAULT == 40      \* 0x28: four data lines, two rows
LCD_DISP_OFF == 8
LCD_CLR == 1                    \* 1 << LCD_CLR
LCD_MODE_DEFAULT == 6
LCD_DISP_ON == 12

lcd_command(b) == <<WaitBusy, Write(0, b)>>
lcd_data(b) == <<WaitBusy, Write(1, b)>>
lcd_clrscr == lcd_command(LCD_CLR)
\* One lcd_data after the other.
lcd_puts(s) ==
  [i \in 1 .. 2 * Len(s) |-> lcd_data(s[(i + 1) \div 2])[1 + ((i + 1) % 2)]]

\* The part of lcd_init that tests for a display and sets it up.  Its calls
\* of lcd_command are written out.
Setup ==
  <<TestBusy,
    WaitBusy, Write(0, LCD_FUNCTION_DEFAULT),
    Delay(64), TestBusy,
    WaitBusy, Write(0, LCD_DISP_OFF), WaitBusy, Write(0, LCD_CLR),
    WaitBusy, Write(0, LCD_MODE_DEFAULT), WaitBusy, Write(0, LCD_DISP_ON),
    Return1>>

\* Faulty variant: no long delay after the first pulse.
lcd_init_hasty ==
  <<Delay(16000), Toggle(3), Delay(64), Toggle(3), Delay(64),
    Toggle(3), Delay(64), Toggle(3), Delay(64)>> \o Setup

\* Three times eight bits, then four: but of the 3 that stands on the data
\* lines the expression LCD_FUNCTION >> 4 clears nothing, as it is bit 1 of the
\* port and not bit 4, and the fourth pulse says eight bits again.
Wake ==
  <<Delay(16000), Toggle(3), Delay(4992), Toggle(3), Delay(64),
    Toggle(3), Delay(64), Toggle(3), Delay(64)>>

lcd_init == Wake \o Setup

\* What a reset of the microcontroller, or power-on, may find.
AnyState ==
  {d \in [present : BOOLEAN, width : {4, 8}, high : Nibbles \cup {NoNibble},
          busy : {0, 15000}, lines : {0}, on : BOOLEAN, addr : {0}] :
     /\ ~d.on
     /\ d.width = 8 \/ ~d.present => d.high = NoNibble
     /\ ~d.present => d.width = 8 /\ d.busy = 0}

Init ==
  /\ \E there \in Attached :
       display \in {ds \in [Controllers -> AnyState] :
                      \A c \in Controllers : ds[c].present <=> c \in there}
  /\ ctrl = {}
  /\ todo = << >>
  /\ ready = {}
  /\ rs = 0 /\ rw = 0
  /\ aligned = {c \in Controllers : display[c].high = NoNibble}

-----------------------------------------------------------------------------
(* Calls *)

Idle == todo = << >>

CallInit ==
  /\ Idle
  /\ ctrl' \in Masks
  /\ todo' = lcd_init
  /\ ready' = ready \ ctrl'
  /\ aligned' = IF rs = 0 /\ rw = 0 THEN aligned \cup ctrl' ELSE aligned
  /\ UNCHANGED <<display, lines>>

\* The other functions are for controllers that are set up.
CallOther ==
  /\ Idle
  /\ ctrl' \in Masks
  /\ ctrl' \subseteq ready
  /\ \/ todo' \in {lcd_clrscr, lcd_command(192)}
     \/ /\ todo' = lcd_puts(<<72, 105>>)
        /\ \A c \in ctrl' : display[c].addr \in Starts
  /\ UNCHANGED <<display, ready, lines, aligned>>

-----------------------------------------------------------------------------
(* One step of the running call *)

Selected == {display[c] : c \in ctrl}

\* Applies an operator to the selected displays.
Drive(F(_)) ==
  display' = [c \in Controllers |-> IF c \in ctrl THEN F(display[c])
                                                  ELSE display[c]]

Pass(us) == display' = [c \in Controllers |-> Elapse(display[c], us)]

Do(op) == todo # << >> /\ Head(todo).op = op
Continue == todo' = Tail(todo)

DoDelay ==
  /\ Do("delay")
  /\ Pass(Head(todo).arg)
  /\ Continue
  /\ UNCHANGED <<ctrl, ready, lines, aligned>>

\* lcd_init sets neither RS nor RW before its pulses: they are data after
\* lcd_data, and after lcd_read they are halves of reads.
lcd_e_toggle ==
  /\ Do("toggle")
  /\ LET F(d) == IF rw = 1 THEN d ELSE Pulse(d, rs, Head(todo).arg) IN Drive(F)
  /\ Continue
  /\ UNCHANGED <<ctrl, ready, lines, aligned>>

lcd_write ==
  /\ Do("instruction") \/ Do("data")
  /\ rs' = IF Do("data") THEN 1 ELSE 0
  /\ rw' = 0
  /\ LET F(d) == WriteByte(d, rs', Head(todo).arg) IN Drive(F)
  /\ Continue
  /\ UNCHANGED <<ctrl, ready, aligned>>

\* The busy flag as lcd_read returns it, from all selected controllers at once.
lcd_read(ds) == BusyFlag(ds)
ReadStatus == rs' = 0 /\ rw' = 1

\* lcd_init gives up on a display that is busy, or that is not there.
TestPresence ==
  /\ Do("test")
  /\ \E busy \in lcd_read(Selected) :
       todo' = IF busy THEN << >> ELSE Tail(todo)
  /\ ReadStatus
  /\ UNCHANGED <<display, ctrl, ready, aligned>>

\* Faulty variant: both controllers are asked, whatever ctrl says.
lcd_waitbusy_all ==
  /\ Do("wait")
  /\ \E busy \in [Controllers -> BOOLEAN] :
       /\ \A c \in Controllers : busy[c] \in lcd_read({display[c]})
       /\ IF \E c \in Controllers : busy[c] THEN UNCHANGED todo ELSE Continue
  /\ IF ctrl = {} THEN UNCHANGED lines ELSE ReadStatus
  /\ Pass(PollTime)
  /\ UNCHANGED <<ctrl, ready, aligned>>

\* One turn of the loop, which asks each selected controller by itself.
lcd_waitbusy ==
  /\ Do("wait")
  /\ \E busy \in [ctrl -> BOOLEAN] :
       /\ \A c \in ctrl : busy[c] \in lcd_read({display[c]})
       /\ IF \E c \in ctrl : busy[c] THEN UNCHANGED todo ELSE Continue
  /\ IF ctrl = {} THEN UNCHANGED lines ELSE ReadStatus
  /\ Pass(PollTime)
  /\ UNCHANGED <<ctrl, ready, aligned>>

ReturnSuccess ==
  /\ Do("return1")
  /\ ready' = ready \cup ctrl
  /\ Continue
  /\ UNCHANGED <<display, ctrl, lines, aligned>>

LibraryStep ==
  \/ DoDelay \/ lcd_e_toggle \/ lcd_write
  \/ TestPresence \/ lcd_waitbusy \/ ReturnSuccess

Next == CallInit \/ CallOther \/ LibraryStep

-----------------------------------------------------------------------------
(* Properties *)

Present(cs) == \A c \in cs : display[c].present
Absent(cs) == \A c \in cs : ~display[c].present

\* Whatever state a display was left in, in the middle of a byte included,
\* the first lcd_init after a reset returns 1 if it is there, although it
\* cannot ask it during its first four pulses; and from then on the display
\* is on and takes bytes in halves, starting with a high one, through all
\* later calls.  So it does after any lcd_init if it was not in the middle of
\* a byte, even if that lcd_init's pulses were data or reads.
ReadyInSync ==
  Idle => /\ Present(ctrl) /\ ctrl \subseteq aligned => ctrl \subseteq ready
          /\ \A c \in ready \cap aligned : InSync(display[c]) /\ display[c].on

\* A call for such displays that are all there, or of lcd_init for displays
\* none of which is there, returns.
CallsReturn ==
  /\ ctrl # {}
  /\ (Present(ctrl) /\ ctrl \subseteq aligned) \/ Absent(ctrl)
  ~> Idle

\* "Try to find out [if] there's a controller and return 0 if not": a call of
\* lcd_init for a display that is missing returns.
MissingIsReported ==
  \A c \in Controllers :
    ctrl \subseteq aligned /\ c \in ctrl /\ ~display[c].present /\ Do("test")
    ~> Idle
=============================================================================
