----------------------------- MODULE MCWatchdog -----------------------------
(* Small instances of the container watchdog for TLC. *)
EXTENDS Watchdog

\* Five-minute polls (one unit) and an outage that outlasts the Day.
PollOrOutage == {1, 3}
Polls        == {1}
=============================================================================
