------------------------- MODULE MCHIDKeyboardFilter -------------------------
(***************************************************************************)
(* A small instance of HIDKeyboardFilter for TLC.                          *)
(***************************************************************************)
EXTENDS HIDKeyboardFilter, TLC

NoMap == <<>>

(* With Fn, a is x; and a client may map a to x, and take that back.       *)
MCFnMap == "a" :> "x"
MCUserMaps == {NoMap, "a" :> "x"}

(* Sticky keys, turned off and on by five presses of Shift; slow keys;     *)
(* mouse keys by five presses of Option.                                   *)
MCOptionSets ==
  {{"sticky", "toggle", "repeat", "caps"}, {"slow", "repeat", "caps"},
   {"mouse", "repeat"}}

(* Once it is stale, nothing but HeldBackIsDue is claimed; and mapping a to *)
(* x in both of the client's mappings is mapping it in one.                *)
Claimed == ~stale /\ NoMap \in {filter.maps["modifiers"], filter.maps["user"]}
===============================================================================
