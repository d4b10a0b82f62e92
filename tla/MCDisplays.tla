----------------------------- MODULE MCDisplays -----------------------------
(* For lcd.c two controllers, of which any set is connected and may be      *)
(* asked for; for 1602.c strings of lengths around the ends of both rows.   *)
EXTENDS Displays

AllMasks == {{0}, {1}, {0, 1}}
AnyAttached == SUBSET {0, 1}
RowLengths == {0, 16, 17, 33}
=============================================================================
