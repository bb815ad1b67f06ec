-------------------------- MODULE MCHIDDeviceCommits --------------------------
(***************************************************************************)
(* Small instances of HIDDeviceCommits for TLC.                            *)
(***************************************************************************)
EXTENDS HIDDeviceCommits

CONSTANTS a, b     \* requests

MCReports == [q \in Requests |-> CASE q = a -> 2 [] q = b -> 1]
================================================================================
