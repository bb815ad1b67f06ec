-------------------------- MODULE ReportTransactions --------------------------
(***************************************************************************)
(* What the exchange of reports with a user device promises to the callers *)
(* of getReport and setReport, without queue, tokens, gate or timers: each *)
(* call is refused, or is open until it ends with one outcome, which never *)
(* changes; success is the process's own word.                             *)
(***************************************************************************)
CONSTANTS Calls,       \* calls of getReport and setReport
          Refusals,    \* outcomes of a call that is not accepted
          Endings      \* outcomes of a call that is

VARIABLES state,       \* [Calls -> {"new", "open", "closed"}]
          outcome,     \* what the caller was told, "none" before that
          given        \* the calls the process answered with success

txVars == <<state, outcome, given>>

TxInit ==
  /\ state = [c \in Calls |-> "new"]
  /\ outcome = [c \in Calls |-> "none"]
  /\ given = {}

Step(c, from, to, outcomes) ==
  /\ state[c] = from /\ state'[c] = to
  /\ outcome'[c] \in outcomes

Still(c) == state'[c] = state[c] /\ outcome'[c] = outcome[c]
Begin(c) == Step(c, "new", "open", {"none"})
Decline(c) == Step(c, "new", "closed", Refusals)
End(c) == /\ Step(c, "open", "closed", Endings)
          /\ outcome'[c] = "success" => c \in given'

(* The process answers a call it knows of, in time or not.                 *)
Answer == /\ given \subseteq given'
          /\ \A c \in given' \ given : state[c] # "new"

TxNext == /\ Answer
          /\ \A c \in Calls : Still(c) \/ Begin(c) \/ Decline(c) \/ End(c)

TxSpec == TxInit /\ [][TxNext]_txVars
==============================================================================
