------------------------ MODULE MCHIDUserDeviceReports ------------------------
(***************************************************************************)
(* Small instances of HIDUserDeviceReports for TLC.                        *)
(***************************************************************************)
EXTENDS HIDUserDeviceReports

CONSTANTS sg, ag, an, ao     \* requests: a (s)ync get, two (a)sync gets and an
                             \* (a)sync (o)versized set

MCTimeout == [r \in Reqs |-> IF r \in {ao, an} THEN 2 ELSE 1]
==============================================================================
