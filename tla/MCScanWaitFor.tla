--------------------------- MODULE MCScanWaitFor ---------------------------
(* A small instance of ScanWaitFor: a second is two ticks, so that steps of  *)
(* both threads fall inside it, and a checker may run longer than a second.  *)
EXTENDS ScanWaitFor

MCSecs == {-1, 0, 1, 2}
=============================================================================
