--------------------------- MODULE MCAlertEvents ---------------------------
(* AlertEvents with pages of two rows and a memory of four ids, two bowls   *)
(* and two platforms, and a warning in every second empty poll.             *)
EXTENDS AlertEvents
============================================================================
