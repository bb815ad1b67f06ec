----------------------- MODULE MCHIDDeviceAsyncReports -----------------------
(***************************************************************************)
(* Small instances of HIDDeviceAsyncReports for TLC.                       *)
(***************************************************************************)
EXTENDS HIDDeviceAsyncReports

CONSTANTS a, b, c     \* requests; the completion of a may ask for c

MCTimeout == [r \in Requests |-> IF r = b THEN 2 ELSE 1]
NoReissue == [r \in Requests |-> Nil]
AsksAgain == [r \in Requests |-> IF r = a THEN c ELSE Nil]
================================================================================
