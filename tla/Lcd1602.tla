------------------------------ MODULE Lcd1602 ------------------------------
(* 1602.c: a driver for one display of two rows of sixteen characters.  It  *)
(* never reads the busy flag (both calls of check_busy are comments), so    *)
(* everything depends on its delays, which are counted in turns of an empty *)
(* loop.  A character is named by its place in the string, from 1.          *)
EXTENDS Hd44780

CONSTANTS
  Loop,         \* the time of one turn of delay_nus's loop, in tenths of a us
  Lengths       \* the lengths of the strings that are written

VARIABLES
  display,
  cells,        \* the display's memory, where it was written
  pc,           \* init, idle, or the function that is running
  pos,          \* commands sent by LCD_init, or characters written
  len,          \* the length of the string
  at,           \* LCD_write_string: where it starts
  before        \* history: the memory when the function was called

vars == <<display, cells, pc, pos, len, at, before>>

delay_nus(d, n) == Elapse(d, (n * Loop) \div 10)

\* Faulty variant: no delay after the low nibble.
LCD_write_hasty(d, rs, b) ==
  LET high == delay_nus(Pulse(d, rs, b \div 16), 3)
  IN delay_nus(Pulse(high, rs, b % 16), 3)

\* LCD_write_command and LCD_write_data differ in RS alone.
LCD_write(d, rs, b) ==
  LET high == delay_nus(Pulse(delay_nus(d, 16), rs, b \div 16), 3)
  IN delay_nus(Pulse(high, rs, b % 16), 3 + 16)

\* LCD_init sends these, with 40 ms after the first and after the last.
InitCommands == <<32, 40, 6, 12, 1>>

\* Switched on a while ago, or set up by an earlier run of the program.
Start ==
  {[present |-> TRUE, width |-> w, high |-> NoNibble, busy |-> 0, lines |-> 0,
    on |-> FALSE, addr |-> 0] : w \in {4, 8}}

Blank == [a \in {} |-> 0]

Init ==
  /\ display \in Start
  /\ cells = Blank
  /\ pc = "init"
  /\ pos = 0
  /\ len = 0
  /\ at = 0
  /\ before = Blank

LCD_init ==
  /\ pc = "init"
  /\ LET sent == LCD_write(display, 0, InitCommands[pos + 1])
     IN display' = IF pos + 1 \in {1, 5} THEN Elapse(sent, 40000) ELSE sent
  /\ IF pos + 1 < 5 THEN pos' = pos + 1 /\ UNCHANGED pc
                    ELSE pos' = 0 /\ pc' = "idle"
  /\ UNCHANGED <<cells, len, at, before>>

LCD_set_xy(x, y) == IF y = 0 THEN 128 + x ELSE 192 + x

\* A character the display takes goes where its address points, and moves it.
\* Any printable one will do.
WriteData(d, ch) ==
  /\ display' = LCD_write(d, 1, 32 + (ch % 95))
  /\ cells' = IF display'.addr = d.addr THEN cells
              ELSE [a \in DOMAIN cells \cup {d.addr} |->
                      IF a = d.addr THEN ch ELSE cells[a]]

Call(function) ==
  /\ pc = "idle"
  /\ pc' = function
  /\ len' \in Lengths
  /\ pos' = 0
  /\ before' = cells

CallPuts == Call("puts") /\ UNCHANGED <<display, cells, at>>

\* LCD_write_string sets the address once and leaves the rest to the display.
CallString ==
  /\ Call("string")
  /\ \E y \in {0, 1} :
       /\ at' = LCD_set_xy(3, y)
       /\ display' = LCD_write(display, 0, at')
  /\ UNCHANGED cells

Return ==
  /\ pc' = "idle"
  /\ pos' = 0 /\ len' = 0 /\ at' = 0 /\ before' = Blank
  /\ UNCHANGED <<display, cells>>

WriteString ==
  /\ pc = "string"
  /\ IF pos = len THEN Return
     ELSE /\ WriteData(display, pos + 1)
          /\ pos' = pos + 1
          /\ UNCHANGED <<pc, len, at, before>>

\* Faulty variant: the row is changed one character late.
RowStartLate(p) == IF p = 0 THEN {LCD_set_xy(0, 0)}
                   ELSE IF p = 17 THEN {LCD_set_xy(0, 1)} ELSE {}

\* The address lcd1602_puts sets before the character at p, if any.
RowStart(p) == IF p = 0 THEN {LCD_set_xy(0, 0)}
               ELSE IF p = 16 THEN {LCD_set_xy(0, 1)} ELSE {}

lcd1602_puts ==
  /\ pc = "puts"
  /\ IF pos = len \/ pos > 31 THEN Return
     ELSE /\ IF RowStart(pos) = {} THEN WriteData(display, pos + 1)
             ELSE \E a \in RowStart(pos) :
                    WriteData(LCD_write(display, 0, a), pos + 1)
          /\ pos' = pos + 1
          /\ UNCHANGED <<pc, len, at, before>>

Next == LCD_init \/ CallPuts \/ CallString \/ WriteString \/ lcd1602_puts

Spec == Init /\ [][Next]_vars

-----------------------------------------------------------------------------
(* Properties *)

\* From either width LCD_init leaves a display that works, and it still does
\* after any calls: no delay is shorter than what the display needs.  The
\* one nibble that meets a busy display is the second of the first command,
\* and it is one that should not arrive.
Lcd1602Works == pc # "init" => Working(display)

Cell(p) == IF p <= 16 THEN p - 1 ELSE 64 + (p - 17)

\* When lcd1602_puts returns, its first 32 characters stand in the two rows,
\* in order, and nothing else has changed.
PutsShown ==
  LET shown == {p \in 1 .. 32 : p <= len}
      written == {Cell(p) : p \in shown}
  IN pc = "puts" /\ (pos = len \/ pos > 31) =>
       /\ DOMAIN cells = DOMAIN before \cup written
       /\ \A p \in shown : cells[Cell(p)] = p
       /\ \A a \in DOMAIN before \ written : cells[a] = before[a]
=============================================================================
