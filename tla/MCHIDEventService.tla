--------------------------- MODULE MCHIDEventService ---------------------------
(* HIDEventService on a small instance: one of two clients may open again. *)
EXTENDS HIDEventService, TLC

CONSTANTS c1, c2
MCMaxOpens == c1 :> 2 @@ c2 :> 1
================================================================================
