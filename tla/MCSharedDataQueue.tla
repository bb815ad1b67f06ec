--------------------------- MODULE MCSharedDataQueue ---------------------------
(***************************************************************************)
(* Small instances of SharedDataQueue for TLC.  Entries of two and three   *)
(* words in a ring of six wrap in every way: exactly at the end, with room *)
(* for a header only, and with room for none.                              *)
(***************************************************************************)
EXTENDS SharedDataQueue

Report == [options |-> {}, forceAll |-> FALSE, onRefusal |-> "return"]
Event  == [options |-> {"force", "suppress"}, forceAll |-> FALSE,
           onRefusal |-> "notify"]
Quiet  == [options |-> {"force"}, forceAll |-> FALSE, onRefusal |-> "check"]
Forced == [options |-> {}, forceAll |-> TRUE, onRefusal |-> "notify"]

MCKinds == {Report, Event, Quiet, Forced}
================================================================================
