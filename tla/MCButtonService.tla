-------------------------- MODULE MCButtonService --------------------------
(* Two buttons, a queue of one event and a debounce of two ticks.          *)
EXTENDS ButtonService

CONSTANTS menu, back

MCButtons == {menu, back}
=============================================================================
