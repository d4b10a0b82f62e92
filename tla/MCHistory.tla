----------------------------- MODULE MCHistory -----------------------------
(* The turn of a year for the hour and the day, the ends of the Februaries  *)
(* of a common and of a leap year for the month, and three years.           *)
EXTENDS History

MCSpans ==
  [hour |-> <<<<2022, 12, 31, 22, 0, 0>>, <<2023, 1, 1, 0, 30, 0>>>>,
   day |-> <<<<2023, 2, 26, 0, 0, 0>>, <<2023, 3, 2, 12, 0, 0>>>>,
   month |-> <<<<2022, 12, 1, 0, 0, 0>>, <<2024, 4, 3, 0, 0, 0>>>>,
   year |-> <<<<2021, 11, 1, 0, 0, 0>>, <<2024, 6, 1, 0, 0, 0>>>>]

MCClimates == {-95, 150}
=============================================================================
