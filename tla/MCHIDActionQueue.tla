--------------------------- MODULE MCHIDActionQueue ---------------------------
(***************************************************************************)
(* A small instance of HIDActionQueue for TLC: two threads and the work    *)
(* loop's own, each with two asynchronous calls and one synchronous call.  *)
(* Two blocks of one thread are the least that can change places.          *)
(***************************************************************************)
EXTENDS HIDActionQueue
================================================================================
