----------------------------- MODULE MCDateRange -----------------------------
(***************************************************************************)
(* Four months from each start: into a leap year, a year that is not one,  *)
(* the leap century 2000 and the century 2100, which is not leap.          *)
(***************************************************************************)
EXTENDS DateRange

CalendarStarts ==
  {[year |-> y, month |-> 11, day |-> 1] : y \in {1999, 2023, 2024, 2099}}
=============================================================================
