------------------------------ MODULE SerialQueue ------------------------------
(***************************************************************************)
(* What an IOHIDActionQueue promises: actions run one at a time, in the    *)
(* order in which they were submitted, each once, and every one that was   *)
(* submitted is run; after the last of them the queue is closed, and no    *)
(* action runs in a closed queue.                                          *)
(***************************************************************************)
EXTENDS Sequences

CONSTANTS Actions, Last, Nothing

VARIABLES waiting, running, closed
svars == <<waiting, running, closed>>

Init == waiting = <<>> /\ running = Nothing /\ closed = FALSE

Submit(a) ==
  /\ ~closed /\ running # Last
  /\ \A i \in DOMAIN waiting : waiting[i] # Last
  /\ waiting' = Append(waiting, a)
  /\ UNCHANGED <<running, closed>>

Start ==
  /\ waiting # <<>> /\ running = Nothing /\ ~closed
  /\ running' = Head(waiting) /\ waiting' = Tail(waiting)
  /\ UNCHANGED closed

Finish ==
  /\ running # Nothing
  /\ running' = Nothing
  /\ closed' = (running = Last)
  /\ UNCHANGED waiting

Next == (\E a \in Actions \cup {Last} : Submit(a)) \/ Start \/ Finish

Spec == Init /\ [][Next]_svars /\ WF_svars(Start) /\ WF_svars(Finish)
================================================================================
