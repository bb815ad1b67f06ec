--------------------------- MODULE MCHIDSystemParams ---------------------------
(* HIDSystemParams on a small instance: a set touches one key or two. *)
EXTENDS HIDSystemParams, TLC

Accel == "accel" :> 1
Both  == ("accel" :> 2) @@ ("repeat" :> 2)

CONSTANTS c1, c2, c3
MCRequests == c1 :> { [dict |-> Accel, temporary |-> FALSE], [dict |-> Both, temporary |-> TRUE] } @@
              c2 :> { [dict |-> Both, temporary |-> FALSE] } @@
              c3 :> { [dict |-> Accel, temporary |-> TRUE] }
MCOwnSettings == { Both }
================================================================================
