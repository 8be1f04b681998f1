--------------------------- MODULE MCSleepHandoff ---------------------------
(* Two buttons, a queue of one event, presses at every stage of the loop.  *)
EXTENDS SleepHandoff

CONSTANTS menu, back

MCButtons == {menu, back}
=============================================================================
