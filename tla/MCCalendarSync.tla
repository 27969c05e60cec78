--------------------------- MODULE MCCalendarSync ---------------------------
(* One event of high importance, scheduled for today, for CalendarSync. *)
EXTENDS CalendarSync

MCContents ==
  { [schedule |-> "today", value |-> value, importance |-> "high"] : value \in {"none", "first"} }
=============================================================================
