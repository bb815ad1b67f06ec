--------------------------- MODULE HIDDeviceCommits ---------------------------
(***************************************************************************)
(* The asynchronous update and post of element values in IOHIDDevice.      *)
(* runElementValues makes one asynchronous report for each report that the *)
(* elements belong to, and gives up the gate for each; CommitComplete is   *)
(* the completion of every one.  A context counts the calls made and       *)
(* completed, with one extra for the caller's own thread; the last one     *)
(* calls the client's completion and frees the context.                    *)
(*                                                                         *)
(* Everything under the gate (WORKLOOP_LOCK) is one action.  Memory is not *)
(* reused.                                                                 *)
(***************************************************************************)
EXTENDS Integers, FiniteSets

CONSTANTS
  Requests,    \* calls of updateElementValues and postElementValues
  Reports      \* Reports[q]: the number of reports the elements of q are in

ASSUME CommitAssumption ==
  /\ IsFiniteSet(Requests)
  /\ Reports \in [Requests -> Nat]

(* The AsyncCommitCalls of q: reportParamFinal, and one per report.        *)
Final == 0
Calls == {c \in Requests \X Nat : c[2] <= Reports[c[1]]}
Statuses == {"success", "error", "timeout", "aborted", "nomemory"}

VARIABLES
  commitCalls, \* _asyncCommitCalls
  context,     \* context[q]: "none", "live", "freed"
  made,        \* callsMade[q]
  completed,   \* callsCompleted[q]
  status,      \* status[q]
  pc,          \* the caller's thread
  index,       \* index[q]: the report it is at
  atDevice,    \* calls whose completion the device owes
  expired,     \* requests whose deadline has passed
  inactive,    \* isInactive()
  aborted,     \* willTerminate has run
  completions, \* completions[q]: calls of the client's completion
  told,        \* told[q]: its status
  touched,     \* requests that used their context, or a call, once freed
  given,       \* calls that the device answered with success
  overtaken    \* HISTORY: requests of which the timer or the termination
               \* completed a call that the device had not accepted

countVars == <<commitCalls, completed, status, completions, told, overtaken>>
threadVars == <<pc, index, made>>
termVars == <<inactive, aborted>>
vars == <<countVars, context, touched, threadVars, atDevice, given, expired, termVars>>

(* "allocated" has a context; "unlocked" has given up the gate with a call *)
(* in the list, "calling" has counted it, "accepted" and "failed" know     *)
(* what getReport or setReport returned.                                   *)
Locations == {"new", "refused", "allocated", "unlocked", "calling", "accepted",
              "failed", "posted"}

TypeOK ==
  /\ commitCalls \subseteq Calls /\ atDevice \subseteq Calls /\ given \subseteq Calls
  /\ context \in [Requests -> {"none", "live", "freed"}]
  /\ made \in [Requests -> Nat] /\ completed \in [Requests -> Nat]
  /\ \A q \in Requests : made[q] <= Reports[q] + 1 /\ completed[q] <= made[q]
  /\ status \in [Requests -> Statuses]
  /\ pc \in [Requests -> Locations]
  /\ index \in [Requests -> Nat]
  /\ expired \subseteq Requests /\ touched \subseteq Requests
  /\ overtaken \subseteq Requests
  /\ inactive \in BOOLEAN /\ aborted \in BOOLEAN
  /\ completions \in [Requests -> Nat]
  /\ told \in [Requests -> Statuses \cup {"none"}]

Init ==
  /\ commitCalls = {} /\ atDevice = {} /\ given = {}
  /\ context = [q \in Requests |-> "none"]
  /\ made = [q \in Requests |-> 0] /\ completed = [q \in Requests |-> 0]
  /\ status = [q \in Requests |-> "success"]
  /\ pc = [q \in Requests |-> "new"] /\ index = [q \in Requests |-> 0]
  /\ expired = {} /\ inactive = FALSE /\ aborted = FALSE
  /\ completions = [q \in Requests |-> 0]
  /\ told = [q \in Requests |-> "none"] /\ touched = {} /\ overtaken = {}

Of(S, q) == {c \in S : c[1] = q}
Goto(q, l) == pc' = [pc EXCEPT ![q] = l]

------------------------------------------------------------------------------
(* setNextAsyncTimeout completes the late calls of the list L, unless the  *)
(* device is inactive.  It is not reentrant.                               *)

Swept(L) == IF inactive THEN {} ELSE {c \in L : c[1] \in expired}

(* Counting the calls S of q from n, callsCompleted reaches callsMade.     *)
BugNotEqual(q, S, n) == Of(S, q) # {}
AllDone(q, S, n) == \E k \in 1..Cardinality(Of(S, q)) : n[q] + k = made[q]

BugLastStatus(q, late, cs, s) == IF Of(cs, q) # {} THEN s ELSE status[q]
StatusAfter(q, late, cs, s) ==
  IF Of(cs, q) # {} /\ s # "success" THEN s
  ELSE IF Of(late, q) # {} THEN "timeout" ELSE status[q]

(* The contexts that are read: in the sweep those of the whole list L.     *)
Used(L, cs) == {c[1] : c \in cs \cup (IF inactive THEN {} ELSE L)}

(* CommitComplete with status s for the calls cs, which have left the list *)
(* L, the counts being n: the sweep comes first.                           *)
CommitComplete(cs, s, L, n) ==
  LET late == Swept(L)
      S == late \cup cs
      all == {q \in Requests : AllDone(q, S, n)}
  IN  /\ commitCalls' = L \ late
      /\ completed' = [q \in Requests |-> n[q] + Cardinality(Of(S, q))]
      /\ status' = [q \in Requests |-> StatusAfter(q, late, cs, s)]
      /\ told' = [q \in Requests |-> IF q \notin all THEN told[q]
                                     ELSE IF AllDone(q, late, n) THEN "timeout"
                                     ELSE status'[q]]
      /\ completions' = [q \in Requests |-> completions[q]
                                            + (IF q \in all THEN 1 ELSE 0)]
      /\ context' = [q \in Requests |-> IF q \in all THEN "freed" ELSE context[q]]
      /\ touched' = touched \cup {q \in Used(L, cs) : context[q] = "freed"}
                            \cup {q \in all : completed'[q] > made[q]}

(* Of the calls cs, which the timer or the termination completes, some are *)
(* just being made: their threads have not been told yet that the device   *)
(* has accepted them.                                                      *)
BeingMade(c) ==
  \/ c[2] > index[c[1]]
  \/ c[2] = index[c[1]] /\ pc[c[1]] \in {"unlocked", "calling", "failed"}
Overtake(cs) == overtaken' = overtaken \cup {c[1] : c \in {d \in cs : BeingMade(d)}}

BugEverybody(c) == TRUE
Listed(c) == c \in commitCalls

------------------------------------------------------------------------------
(* runElementValues with a completion.  The context is allocated, and its  *)
(* deadline chosen, before the gate is entered.                            *)

BugNoExtra == 0
Extra == 1

Allocate(q) ==
  /\ pc[q] = "new"
  /\ Goto(q, "allocated")
  /\ context' = [context EXCEPT ![q] = "live"]
  /\ made' = [made EXCEPT ![q] = Extra]
  /\ UNCHANGED <<countVars, touched, index, atDevice, given, expired, termVars>>

AllocateFails(q) ==
  /\ pc[q] = "new"
  /\ Goto(q, "refused")
  /\ UNCHANGED <<countVars, context, touched, index, made, atDevice, given, expired,
                 termVars>>

Refuse(q) ==
  /\ pc[q] = "allocated" /\ inactive
  /\ Goto(q, "refused")
  /\ context' = [context EXCEPT ![q] = "freed"]
  /\ UNCHANGED <<countVars, touched, index, made, atDevice, given, expired, termVars>>

(* "Signal that all calls to setReport have been made": the extra call is  *)
(* completed, the failed call i standing for it if there is one.           *)
Signal(q, i, s, n) ==
  /\ CommitComplete({<<q, i>>}, s, commitCalls \ {<<q, i>>}, n)
  /\ Overtake(Swept(commitCalls \ {<<q, i>>}))
  /\ Goto(q, "posted")

(* In the gate with i reports accepted: the next call is put into the list *)
(* and the gate given up, or the last word is said.                        *)
InsertNext(q, i) ==
  /\ i < Reports[q]
  /\ CommitComplete({}, "success", commitCalls \cup {<<q, i + 1>>}, completed)
  /\ Overtake(Swept(commitCalls \cup {<<q, i + 1>>}))
  /\ index' = [index EXCEPT ![q] = i + 1]
  /\ Goto(q, "unlocked")
NoMemory(q, i) ==
  /\ i < Reports[q]
  /\ Signal(q, Final, "nomemory", completed)
  /\ UNCHANGED index
NoMore(q, i) ==
  /\ i = Reports[q]
  /\ Signal(q, Final, IF i = 0 THEN "error" ELSE "success", completed)
  /\ UNCHANGED index
GoOn(q, i) == InsertNext(q, i) \/ NoMemory(q, i) \/ NoMore(q, i)

Start(q) ==
  /\ pc[q] = "allocated" /\ ~inactive
  /\ GoOn(q, 0)
  /\ UNCHANGED <<made, atDevice, given, expired, termVars>>

(* Without the gate: callsMade++, and the call of getReport or setReport.  *)
Lost(q) == <<q, index[q]>> \notin commitCalls \/ context[q] = "freed"
Touching(q) == touched' = touched \cup (IF Lost(q) THEN {q} ELSE {})

Count(q) ==
  /\ pc[q] = "unlocked"
  /\ made' = [made EXCEPT ![q] = @ + 1]
  /\ Touching(q)
  /\ Goto(q, "calling")
  /\ UNCHANGED <<countVars, context, index, atDevice, given, expired, termVars>>

Accepted(q) ==
  /\ pc[q] = "calling" /\ ~inactive
  /\ atDevice' = atDevice \cup {<<q, index[q]>>}
  /\ Goto(q, "accepted")
  /\ UNCHANGED <<countVars, context, touched, index, made, given, expired, termVars>>

NotAccepted(q) ==
  /\ pc[q] = "calling"
  /\ Goto(q, "failed")
  /\ UNCHANGED <<countVars, context, touched, index, made, atDevice, given, expired,
                 termVars>>

Return(q) ==
  /\ pc[q] = "accepted"
  /\ GoOn(q, index[q])
  /\ UNCHANGED <<made, atDevice, given, expired, termVars>>

(* "Increment for the completion that will not trigger naturally"          *)
BugNotNatural(q) == completed
Natural(q) == [completed EXCEPT ![q] = @ + 1]

Fail(q) ==
  /\ pc[q] = "failed"
  /\ IF Listed(<<q, index[q]>>)
     THEN Signal(q, index[q], "error", Natural(q))
     ELSE /\ completed' = Natural(q)
          /\ Touching(q)
          /\ Goto(q, "posted")
          /\ UNCHANGED <<commitCalls, status, told, completions, overtaken, context>>
  /\ UNCHANGED <<index, made, atDevice, given, expired, termVars>>

Post(q) == \/ Allocate(q) \/ AllocateFails(q) \/ Refuse(q) \/ Start(q) \/ Count(q)
           \/ Accepted(q) \/ NotAccepted(q) \/ Return(q) \/ Fail(q)

------------------------------------------------------------------------------
(* The device answers, once, and perhaps too late; handling the report may *)
(* turn success into an error.                                             *)
DeviceAnswers(c) ==
  /\ c \in atDevice
  /\ atDevice' = atDevice \ {c}
  /\ \E s \in {"success", "error", "timeout", "aborted"} :
       /\ IF Listed(c)
          THEN /\ CommitComplete({c}, s, commitCalls \ {c}, completed)
               /\ Overtake(Swept(commitCalls \ {c}))
          ELSE UNCHANGED <<countVars, context, touched>>
       /\ given' = IF s = "success" THEN given \cup {c} ELSE given
  /\ UNCHANGED <<threadVars, expired, termVars>>

Expire(q) ==
  /\ context[q] = "live" /\ q \notin expired
  /\ expired' = expired \cup {q}
  /\ UNCHANGED <<countVars, context, touched, threadVars, atDevice, given, termVars>>

TimerFires ==
  /\ Swept(commitCalls) # {}
  /\ CommitComplete({}, "success", commitCalls, completed)
  /\ Overtake(Swept(commitCalls))
  /\ UNCHANGED <<threadVars, atDevice, given, expired, termVars>>

SetInactive ==
  /\ ~inactive
  /\ inactive' = TRUE
  /\ UNCHANGED <<countVars, context, touched, threadVars, atDevice, given, expired,
                 aborted>>

(* "abort outstanding asynchronous commits", one after the other.          *)
BugKept == {}
Outstanding == commitCalls
WillTerminate ==
  /\ inactive /\ ~aborted
  /\ aborted' = TRUE
  /\ CommitComplete(Outstanding, "aborted", commitCalls \ Outstanding, completed)
  /\ Overtake(Outstanding)
  /\ UNCHANGED <<threadVars, atDevice, given, expired, inactive>>

------------------------------------------------------------------------------
Next == \/ \E q \in Requests : Post(q) \/ Expire(q)
        \/ \E c \in atDevice : DeviceAnswers(c)
        \/ TimerFires \/ SetInactive \/ WillTerminate

Spec == Init /\ [][Next]_vars

(* The gate is given to those who wait for it and time passes; the device  *)
(* may never answer.                                                       *)
FairSpec == /\ Spec
            /\ \A q \in Requests : WF_vars(Post(q)) /\ WF_vars(Expire(q))
            /\ SF_vars(TimerFires) /\ WF_vars(WillTerminate)

------------------------------------------------------------------------------
(* Properties.                                                             *)

(* The client's completion is called once at most, and not before every    *)
(* report has its answer: none is in the list, and no thread makes more.   *)
(* ("One extra, so CommitComplete knows when origCompletion can be         *)
(* triggered".)                                                            *)
OnceAtTheEnd(q) == /\ completions[q] <= 1
                   /\ completions[q] = 1 => pc[q] = "posted" /\ Of(commitCalls, q) = {}

(* "completion: The completion to invoke when the asynchronous call has    *)
(* finished running": with nothing outstanding, the client has been told.  *)
ToldWhenDone(q) == pc[q] = "posted" /\ Of(commitCalls, q) = {} => completions[q] >= 1

(* The client is told once, at the end, and nobody uses the context, or a  *)
(* call, once it is freed: of each request but those of which the timer or *)
(* the termination completed a call that was just being made; and these do *)
(* no harm to the others.                                                  *)
Completions ==
  /\ \A q \in Requests \ overtaken : OnceAtTheEnd(q) /\ ToldWhenDone(q)
  /\ touched \subseteq overtaken

(* Success means that the device answered every report with success.       *)
SuccessMeansAll ==
  \A q \in Requests : told[q] = "success"
                      => \A i \in 1..Reports[q] : <<q, i>> \in given

(* Every request that is not refused is completed, if not overtaken.       *)
EveryRequestEnds ==
  \A q \in Requests : pc[q] = "allocated" ~>
                      (completions[q] = 1 \/ pc[q] = "refused" \/ q \in overtaken)
================================================================================
