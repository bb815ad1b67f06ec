------------------------ MODULE HIDDeviceAsyncReports ------------------------
(***************************************************************************)
(* IOHIDDevice turns asynchronous getReport and setReport calls into       *)
(* synchronous ones on a thread call: outReport queues the call,           *)
(* runSyncReportAsync runs one after the other, without the gate while the *)
(* device works, a timer ends those whose deadline has passed, and         *)
(* termination aborts the rest and waits for the thread.                   *)
(*                                                                         *)
(* Everything that happens under the gate (WORKLOOP_LOCK) is one action.   *)
(* Completion actions run under the gate and may make another call.        *)
(***************************************************************************)
EXTENDS Integers, FiniteSets

CONSTANTS
  Requests,    \* asynchronous calls of getReport and setReport
  Timeout,     \* Timeout[r]: completionTimeout, in ticks
  Reissue,     \* Reissue[r]: the call that r's completion makes, or Nil
  Nil,
  MaxTime      \* BOUND: ticks of mach_absolute_time

ASSUME AsyncAssumption ==
  /\ IsFiniteSet(Requests)
  /\ Timeout \in [Requests -> Nat \ {0}]
  /\ Reissue \in [Requests -> Requests \cup {Nil}] /\ Nil \notin Requests
  /\ \A r, q \in Requests : Reissue[r] # Nil /\ Reissue[r] = Reissue[q] => r = q
  /\ MaxTime \in Nat

Never == MaxTime + 1
Statuses == {"success", "error"}      \* what the device's own code returns

VARIABLES
  calls,       \* _asyncReportCalls ...
  place,       \* ... in the order of place[r], a number given on insertion,
  places,      \* of which so many have been given
  deadline,    \* deadline[r] of a queued call
  addr,        \* addr[r]: address of r's AsyncReportCall, named by the
               \* request that had it first
  timer,       \* _asyncTimer: when it fires, or Never
  thread,      \* runSyncReportAsync: "idle", "loop" (with the gate), "device"
  entered,     \* the thread call has been entered and not yet begun
  active,      \* _asyncReportThreadActive
  target,      \* its local call: an address, or Nil
  executing,   \* the request it is executing, or Nil
  inactive,    \* isInactive()
  aborted,     \* willTerminate has run
  terminated,  \* didTerminate: "no", "deferred", "done"
  now,
  outcome,     \* outcome[r]: "none", "open", or what its caller was told
  completions, \* completions[r]: calls of r's completion action
  given,       \* requests that the device carried out
  reused       \* HISTORY: calls that got the address of the one which the
               \* thread had at the device

callVars == <<calls, place, places, deadline, addr, reused, outcome, completions>>
threadVars == <<thread, target, executing, given>>
termVars == <<inactive, aborted, terminated>>
vars == <<callVars, timer, threadVars, entered, active, termVars, now>>

Outcomes == {"none", "open", "offline", "timeout", "aborted"} \cup Statuses

TypeOK ==
  /\ calls \subseteq Requests
  /\ place \in [Requests -> Nat] /\ places \in Nat
  /\ deadline \in [Requests -> Nat]
  /\ addr \in [Requests -> Requests]
  /\ timer \in Nat
  /\ thread \in {"idle", "loop", "device"}
  /\ entered \in BOOLEAN /\ active \in BOOLEAN
  /\ target \in Requests \cup {Nil} /\ executing \in Requests \cup {Nil}
  /\ thread = "device" => target \in Requests /\ executing \in Requests
  /\ inactive \in BOOLEAN /\ aborted \in BOOLEAN
  /\ terminated \in {"no", "deferred", "done"}
  /\ now \in Nat
  /\ outcome \in [Requests -> Outcomes]
  /\ completions \in [Requests -> {0, 1}]
  /\ given \subseteq Requests /\ reused \subseteq Requests

Init ==
  /\ calls = {} /\ timer = Never
  /\ place = [r \in Requests |-> 0] /\ places = 0
  /\ deadline = [r \in Requests |-> 0]
  /\ addr = [r \in Requests |-> r]
  /\ thread = "idle" /\ entered = FALSE /\ active = FALSE
  /\ target = Nil /\ executing = Nil
  /\ inactive = FALSE /\ aborted = FALSE /\ terminated = "no"
  /\ now = 0
  /\ outcome = [r \in Requests |-> "none"]
  /\ completions = [r \in Requests |-> 0]
  /\ given = {} /\ reused = {}

GateFree == thread # "loop"

------------------------------------------------------------------------------
(* setNextAsyncTimeout over a list S of calls: the late ones are removed   *)
(* and completed with kIOReturnTimeout, in order, and the timer is armed   *)
(* for the first deadline of the others.  An inactive device does nothing. *)

Late(r) == deadline[r] <= now
Swept(S) == IF inactive THEN {} ELSE {r \in S : Late(r)}
Kept(S) == S \ Swept(S)

(* The calls that the completion actions of S make; one that could not     *)
(* time out before MaxTime is not made.                                    *)
Makes(r) == /\ Reissue[r] # Nil
            /\ outcome[Reissue[r]] = "none"
            /\ now + Timeout[Reissue[r]] <= MaxTime
Made(S) == {Reissue[r] : r \in {q \in S : Makes(q)}}

DeadlineOf(r) == IF r \in calls THEN deadline[r] ELSE now + Timeout[r]

BugLatest(S) ==
  IF S = {} THEN timer' = Never
  ELSE \E q \in S : /\ \A r \in S : DeadlineOf(q) >= DeadlineOf(r)
                    /\ timer' = DeadlineOf(q)
BugNotArmed(S) == timer' = Never

ArmFor(S) ==
  IF S = {} THEN timer' = Never
  ELSE \E q \in S : /\ \A r \in S : DeadlineOf(q) <= DeadlineOf(r)
                    /\ timer' = DeadlineOf(q)

(* STAILQ_FOREACH_SAFE has already fetched the end of the list when the    *)
(* completion of its last call appends to it: that call is not visited.    *)
IsLast(r, S) == \A q \in S : place[q] <= place[r]
Missed(S) == {Reissue[r] : r \in {q \in Swept(S) : /\ IsLast(q, S) /\ Makes(q)
                                                   /\ Made(Swept(S)) = {Reissue[q]}}}
Visited(S) == (Kept(S) \cup Made(Swept(S))) \ Missed(S)

(* The calls that leave the list in one step are completed, and then freed, *)
(* one after the other: the late ones in their order, and last the one     *)
(* (done) for which completeAsyncReport swept.                             *)
Sooner(t, r, done) ==
  t \in Swept(calls \ done) /\ (r \in done \/ place[t] < place[r])
Maker(p, r) == Reissue[r] = p /\ r \in calls
InUse(p, done) == calls \ {t \in calls : \E r \in calls : Maker(p, r) /\ Sooner(t, r, done)}

(* malloc: a fresh address, or one whose call has been freed.              *)
FreshOr(r) == {r} \cup {addr[q] : q \in {q \in Requests : outcome[q] # "none"}}
Allocated(new, done) ==
  \E f \in [new -> Requests] :
    /\ \A r \in new : f[r] \in FreshOr(r) \ {addr[q] : q \in InUse(r, done)}
    /\ \A r, q \in new : f[r] = f[q] => r = q
    /\ addr' = [r \in Requests |-> IF r \in new THEN f[r] ELSE addr[r]]
    /\ reused' = reused \cup {r \in new : thread = "device" /\ f[r] = target}

(* STAILQ_INSERT_TAIL of the calls new: first the one that is not made by  *)
(* a completion, then the others in the order of those completions.        *)
Before(p, q, done) ==
  \/ \A r \in Requests : ~Maker(p, r)
  \/ \E r, t \in calls : Maker(p, r) /\ Maker(q, t) /\ Sooner(r, t, done)
Inserted(new, done) ==
  /\ places' = places + Cardinality(new)
  /\ \E f \in [new -> (places + 1)..places'] :
       /\ \A p, q \in new : p # q => f[p] # f[q] /\ (Before(p, q, done) => f[p] < f[q])
       /\ place' = [r \in Requests |-> IF r \in new THEN f[r] ELSE place[r]]

(* Calls begin: the thread call is entered for them.                       *)
Begin(new, done) ==
  /\ Allocated(new, done) /\ Inserted(new, done)
  /\ deadline' = [r \in Requests |-> IF r \in new THEN now + Timeout[r]
                                     ELSE deadline[r]]
  /\ active' = (active \/ new # {})
  /\ entered' = (entered \/ new # {})

Tell(done, status, late, new) ==
  outcome' = [r \in Requests |->
    IF r \in done THEN status
    ELSE IF r \in late THEN "timeout"
    ELSE IF r \in new THEN (IF inactive THEN "offline" ELSE "open")
    ELSE outcome[r]]
Complete(ended) ==
  completions' = [r \in Requests |-> completions[r] + (IF r \in ended THEN 1 ELSE 0)]

(* After the calls done (none or one) have left the list, leaving S: the   *)
(* sweep, the completion of done with status, and the calls that the       *)
(* completions make, which are refused when the device is inactive.        *)
Finish(done, status, S) ==
  LET late == Swept(S)
      new == Made(late \cup done)
      began == IF inactive THEN {} ELSE new
  IN  /\ calls' = Kept(S) \cup began
      /\ Begin(began, done)
      /\ Tell(done, status, late, new)
      /\ Complete(late \cup done)
      /\ IF inactive THEN UNCHANGED timer
         ELSE ArmFor(IF Made(done) # {} THEN calls' ELSE Visited(S))

------------------------------------------------------------------------------
(* outReport, from any thread.  The call that is added is not late.        *)
OutReport(r) ==
  /\ GateFree /\ outcome[r] = "none" /\ now + Timeout[r] <= MaxTime
  /\ \A q \in Requests : Reissue[q] # r       \* not left to a completion
  /\ ~inactive
  /\ LET late == Swept(calls)
         new == Made(late) \cup {r}
     IN  /\ calls' = Kept(calls) \cup new
         /\ Begin(new, {})
         /\ Tell({}, "none", late, new)
         /\ Complete(late)
         /\ ArmFor(calls')
  /\ UNCHANGED <<threadVars, termVars, now>>

OutReportOffline(r) ==
  /\ GateFree /\ outcome[r] = "none" /\ inactive
  /\ outcome' = [outcome EXCEPT ![r] = "offline"]
  /\ UNCHANGED <<calls, place, places, deadline, addr, reused, completions, timer,
                 threadVars, entered, active, termVars, now>>

TimerFires ==
  /\ GateFree /\ timer <= now
  /\ terminated # "done"
  /\ Finish({}, "none", calls)
  /\ UNCHANGED <<threadVars, termVars, now>>

------------------------------------------------------------------------------
(* runSyncReportAsync.  The thread call is allocated with OPTIONS_ONCE: it *)
(* does not run beside itself.                                             *)

ThreadBegins ==
  /\ entered /\ thread = "idle"
  /\ thread' = "loop" /\ entered' = FALSE
  /\ UNCHANGED <<callVars, timer, target, executing, given, active, termVars, now>>

(* completeAsyncReport, if the list still has a call at address t.         *)
IsFirst(r) == \A q \in calls : place[r] <= place[q]
BugFirst(t) == {r \in calls : IsFirst(r)}
At(t) == {r \in calls : addr[r] = t}
BugNotRemoved(t) == calls
Without(t) == {r \in calls : addr[r] # t}
CompleteAsyncReport(t, status) ==
  IF At(t) = {}
  THEN UNCHANGED <<callVars, timer, active, entered>>
  ELSE Finish(At(t), status, Without(t))

(* The first call goes to the device, and the gate is given up ...         *)
RunFirst ==
  /\ thread = "loop" /\ ~inactive
  /\ thread' = "device"
  /\ \E r \in calls : IsFirst(r) /\ executing' = r /\ target' = addr[r]
  /\ UNCHANGED <<callVars, timer, given, entered, active, termVars, now>>

(* ... and is taken back when the device has answered.                     *)
DeviceReturns ==
  /\ thread = "device"
  /\ \E status \in Statuses :
       /\ CompleteAsyncReport(target, status)
       /\ given' = IF status = "success" THEN given \cup {executing} ELSE given
  /\ thread' = "loop" /\ target' = Nil /\ executing' = Nil
  /\ UNCHANGED <<termVars, now>>

AbortFirst ==
  /\ thread = "loop" /\ inactive
  /\ \E r \in calls : IsFirst(r) /\ CompleteAsyncReport(addr[r], "aborted")
  /\ UNCHANGED <<threadVars, termVars, now>>

(* Entries made while the lock was dropped are cancelled; a termination    *)
(* that waits for the thread is completed.                                 *)
BugNotCancelled == entered
EnteredAfter == FALSE
BugStillDeferred == terminated
TerminationAfter == IF terminated = "deferred" THEN "done" ELSE terminated

ThreadEnds ==
  /\ thread = "loop" /\ calls = {}
  /\ thread' = "idle" /\ active' = FALSE
  /\ entered' = EnteredAfter
  /\ terminated' = TerminationAfter
  /\ UNCHANGED <<callVars, timer, target, executing, given, inactive, aborted, now>>

------------------------------------------------------------------------------
(* Termination: the device becomes inactive, with no regard to the gate;   *)
(* willTerminate aborts the calls; didTerminate waits for the thread.      *)

SetInactive ==
  /\ ~inactive
  /\ inactive' = TRUE
  /\ UNCHANGED <<callVars, timer, threadVars, entered, active, aborted, terminated,
                 now>>

(* All calls are completed; what their completions ask for is refused.     *)
WillTerminate ==
  /\ GateFree /\ inactive /\ ~aborted
  /\ aborted' = TRUE
  /\ calls' = {}
  /\ Tell(calls, "aborted", {}, Made(calls))
  /\ Complete(calls)
  /\ UNCHANGED <<place, places, deadline, addr, reused, timer, threadVars, entered,
                 active, inactive, terminated, now>>

MustDefer == active

DidTerminate ==
  /\ GateFree /\ aborted /\ terminated = "no"
  /\ terminated' = IF MustDefer THEN "deferred" ELSE "done"
  /\ UNCHANGED <<callVars, timer, threadVars, entered, active, inactive, aborted,
                 now>>

Tick == /\ now < MaxTime
        /\ now' = now + 1
        /\ UNCHANGED <<callVars, timer, threadVars, entered, active, termVars>>

------------------------------------------------------------------------------
Thread == ThreadBegins \/ RunFirst \/ AbortFirst \/ ThreadEnds
Terminate == SetInactive \/ WillTerminate \/ DidTerminate

Next == \/ \E r \in Requests : OutReport(r) \/ OutReportOffline(r)
        \/ TimerFires \/ Thread \/ DeviceReturns \/ Terminate \/ Tick

Spec == Init /\ [][Next]_vars

(* The gate is given to those who wait for it, time passes and a           *)
(* termination that has begun goes on.  The device may never answer.       *)
FairSpec == /\ Spec
            /\ WF_vars(Thread) /\ SF_vars(TimerFires) /\ WF_vars(Tick)
            /\ SF_vars(WillTerminate) /\ SF_vars(DidTerminate)

------------------------------------------------------------------------------
(* Properties.                                                             *)

(* A call that was accepted is in the list until its completion is called, *)
(* and it is called once: by the device's answer, the timer, or the abort. *)
CompletedOnce ==
  \A r \in Requests :
    completions[r] = IF outcome[r] \in {"none", "open", "offline"} THEN 0 ELSE 1
NoneLost == \A r \in Requests : outcome[r] = "open" <=> r \in calls
EachEndsOnce == CompletedOnce /\ NoneLost

(* "the command will be aborted if the entire command has not been         *)
(* completed": the timer is armed for the first deadline.  A call that a   *)
(* completion makes is excepted: the sweep may have missed it.             *)
ByCompletion(r) == \E q \in Requests : Reissue[q] = r
TimerCoversDeadlines ==
  GateFree /\ ~inactive =>
    \A r \in calls : ByCompletion(r) \/ timer <= deadline[r]

(* No call that was accepted is lost, whoever is to end it: it is in the   *)
(* list, and the timer is armed in time.                                   *)
CallsAccounted == EachEndsOnce /\ TimerCoversDeadlines

(* Nobody touches the device once its termination is complete: neither the *)
(* thread, nor an entered thread call that has not begun, nor a call.      *)
TerminationWaits ==
  terminated = "done" => thread = "idle" /\ ~entered /\ calls = {}

(* What a caller is told is its own call's outcome, and never changes.  A  *)
(* late answer finds nobody, but for a call that has got the address of    *)
(* the one at the device: that one's answer is taken for its own.          *)
Told(r) == IF outcome[r] \in {"none", "open"} THEN "none" ELSE outcome[r]
Mistaken == {r \in reused : outcome[r] = "success"}
Transactions == INSTANCE ReportTransactions WITH
  Calls <- Requests, Refusals <- {"offline"},
  Endings <- Statuses \cup {"timeout", "aborted"},
  state <- [r \in Requests |-> IF outcome[r] = "none" THEN "new"
                               ELSE IF outcome[r] = "open" THEN "open" ELSE "closed"],
  outcome <- [r \in Requests |-> Told(r)],
  given <- given \cup Mistaken
RefinesTransactions == Transactions!TxSpec

(* "result kIOReturnSuccess on success, or an error return otherwise": who *)
(* is told success, the device has carried out, unless its call got the    *)
(* memory of the one that the thread had at the device.                    *)
SuccessIsOwn == \A r \in Requests : outcome[r] = "success" => r \in given \cup reused

(* Every call that no completion makes ends, although the device may not   *)
(* answer ...                                                              *)
EveryCallEnds ==
  \A r \in Requests :
    ~ByCompletion(r) /\ outcome[r] = "open" ~> outcome[r] # "open"

(* ... and unless the device keeps the thread for good, termination is     *)
(* completed.                                                              *)
TerminationEnds ==
  []<>(thread # "device") => (inactive ~> terminated = "done")

(* Calls and termination, of which each waits for the other, both end.     *)
CallsEnd == EveryCallEnds /\ TerminationEnds
================================================================================
