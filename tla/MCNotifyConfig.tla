--------------------------- MODULE MCNotifyConfig ---------------------------
(* NotifyConfig with two flags and a fetch at every third poll. *)
EXTENDS NotifyConfig
============================================================================
