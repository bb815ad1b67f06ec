-------------------------- MODULE MCHIDDeviceClients --------------------------
(***************************************************************************)
(* Small instances of HIDDeviceClients for TLC.                            *)
(***************************************************************************)
EXTENDS HIDDeviceClients

CONSTANTS a, b      \* two clients; the queue of b comes first

MCQueueArray == <<b, a>>

(* a seizes the device, b may or may not; both keep their reports.         *)
MCOptions == a :> {{"seize", "keep"}} @@ b :> {{"keep"}, {"seize", "keep"}}

(* b opens the device a second time.                                       *)
MCMaxOpens == a :> 1 @@ b :> 2

(* Every report has an ID, and so an element, of its own.                  *)
MCCookie == [r \in Reports |-> r]

(* All reports have the same ID.                                           *)
MCOneCookie == [r \in Reports |-> 1]
===============================================================================
