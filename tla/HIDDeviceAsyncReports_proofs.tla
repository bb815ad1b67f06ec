--------------------- MODULE HIDDeviceAsyncReports_proofs ---------------------
(***************************************************************************)
(* Theorems about HIDDeviceAsyncReports, for every set of calls, every     *)
(* choice of timeouts, of calls that completions make, and of addresses.   *)
(***************************************************************************)
EXTENDS HIDDeviceAsyncReports, FiniteSetTheorems, TLAPS

Endings == Statuses \cup {"timeout", "aborted"}

(* A call that is open is in the list, and its completion has not been     *)
(* called: what makes each ending the only one.                            *)
CallsInv == TypeOK /\ CompletedOnce /\ NoneLost

(* What a step does to the outcomes.                                       *)
OutcomeStep ==
  \A r \in Requests :
    \/ outcome'[r] = outcome[r]
    \/ outcome[r] = "none" /\ outcome'[r] \in {"open", "offline"}
    \/ outcome[r] = "open" /\ outcome'[r] \in Endings

------------------------------------------------------------------------------
(* Types of what an action computes.                                       *)

LEMMA ArmForType ==
  ASSUME TypeOK, NEW S \in SUBSET Requests, ArmFor(S)
  PROVE  timer' \in Nat
<1>1. \A r \in Requests : DeadlineOf(r) \in Nat
  BY AsyncAssumption DEF TypeOK, DeadlineOf
<1>2. CASE S = {}
  BY <1>2, AsyncAssumption DEF ArmFor, Never
<1>3. CASE S # {}
  BY <1>1, <1>3 DEF ArmFor
<1> QED BY <1>2, <1>3

LEMMA MadeAreNew ==
  ASSUME TypeOK, NEW S \in SUBSET Requests
  PROVE  /\ Made(S) \subseteq Requests
         /\ \A r \in Made(S) : outcome[r] = "none"
BY AsyncAssumption DEF Made, Makes

LEMMA BeginType ==
  ASSUME TypeOK, NEW new \in SUBSET Requests, NEW done, Begin(new, done)
  PROVE  /\ addr' \in [Requests -> Requests] /\ reused' \subseteq Requests
         /\ place' \in [Requests -> Nat] /\ places' \in Nat
         /\ deadline' \in [Requests -> Nat]
         /\ active' \in BOOLEAN /\ entered' \in BOOLEAN
<1>1. addr' \in [Requests -> Requests] /\ reused' \subseteq Requests
  BY DEF Begin, Allocated, TypeOK
<1>2. places' \in Nat
  <2>1. IsFiniteSet(new)
    BY AsyncAssumption, FS_Subset
  <2>2. Cardinality(new) \in Nat
    BY <2>1, FS_CardinalityType
  <2> QED BY <2>2 DEF Begin, Inserted, TypeOK
<1>3. place' \in [Requests -> Nat]
  <2>1. PICK f \in [new -> (places + 1)..places'] :
          place' = [r \in Requests |-> IF r \in new THEN f[r] ELSE place[r]]
    BY DEF Begin, Inserted
  <2>2. \A r \in new : f[r] \in Nat
    BY <1>2 DEF TypeOK
  <2> QED BY <2>1, <2>2 DEF TypeOK
<1>4. deadline' \in [Requests -> Nat]
  BY AsyncAssumption DEF Begin, TypeOK
<1>5. active' \in BOOLEAN /\ entered' \in BOOLEAN
  BY DEF Begin, TypeOK
<1> QED BY <1>1, <1>2, <1>3, <1>4, <1>5

(* The part of the invariant that ending and beginning calls disturbs.     *)
CallsOK ==
  /\ calls \subseteq Requests
  /\ outcome \in [Requests -> Outcomes]
  /\ completions \in [Requests -> {0, 1}]
  /\ CompletedOnce /\ NoneLost

LEMMA EndAndBegin ==
  ASSUME CallsInv,
         NEW done \in SUBSET calls, NEW late \in SUBSET calls,
         NEW new \in SUBSET Requests, \A r \in new : outcome[r] = "none",
         NEW status, done # {} => status \in Endings,
         Tell(done, status, late, new), Complete(late \cup done),
         calls' = (calls \ (late \cup done)) \cup (IF inactive THEN {} ELSE new)
  PROVE  CallsOK' /\ OutcomeStep
<1> USE DEF CallsInv, TypeOK, CompletedOnce, NoneLost, Outcomes, Endings, Statuses
<1>1. \A r \in calls : outcome[r] = "open" /\ r \notin new
  OBVIOUS
<1>2. \A r \in Requests :
        outcome'[r] = IF r \in done THEN status
                      ELSE IF r \in late THEN "timeout"
                      ELSE IF r \in new THEN (IF inactive THEN "offline" ELSE "open")
                      ELSE outcome[r]
  BY DEF Tell
<1>3. \A r \in Requests : outcome'[r] \in Outcomes
  BY <1>2
<1>4. outcome' \in [Requests -> Outcomes]
  BY <1>3 DEF Tell
<1>5. \A r \in Requests :
        completions'[r] = completions[r] + (IF r \in late \cup done THEN 1 ELSE 0)
  BY DEF Complete
<1>6. \A r \in Requests :
        completions'[r] = IF outcome'[r] \in {"none", "open", "offline"} THEN 0 ELSE 1
  <2> TAKE r \in Requests
  <2>1. CASE r \in late \cup done
    <3>1. completions[r] = 0
      BY <1>1, <2>1
    <3>2. outcome'[r] \in Endings
      BY <1>2, <2>1
    <3> QED BY <1>5, <2>1, <3>1, <3>2
  <2>2. CASE r \in new
    <3>1. completions[r] = 0 /\ r \notin late \cup done
      BY <1>1, <2>2
    <3>2. outcome'[r] \in {"open", "offline"}
      BY <1>2, <2>2, <3>1
    <3> QED BY <1>5, <3>1, <3>2
  <2>3. CASE r \notin late \cup done \cup new
    BY <1>2, <1>5, <2>3
  <2> QED BY <2>1, <2>2, <2>3
<1>7. completions' \in [Requests -> {0, 1}]
  BY <1>6 DEF Complete
<1>8. \A r \in Requests : outcome'[r] = "open" <=> r \in calls'
  <2> TAKE r \in Requests
  <2>1. CASE r \in late \cup done
    BY <1>1, <1>2, <2>1
  <2>2. CASE r \in new
    BY <1>1, <1>2, <2>2
  <2>3. CASE r \notin late \cup done \cup new
    BY <1>2, <2>3
  <2> QED BY <2>1, <2>2, <2>3
<1>9. OutcomeStep
  BY <1>1, <1>2 DEF OutcomeStep
<1>10. calls' \subseteq Requests
  OBVIOUS
<1> QED BY <1>4, <1>6, <1>7, <1>8, <1>9, <1>10 DEF CallsOK

(* A sweep, with the completion of done or without.                        *)
LEMMA FinishStep ==
  ASSUME CallsInv, NEW done \in SUBSET calls, NEW status,
         done # {} => status \in Endings, Finish(done, status, calls \ done)
  PROVE  /\ CallsOK' /\ OutcomeStep
         /\ timer' \in Nat
         /\ addr' \in [Requests -> Requests] /\ reused' \subseteq Requests
         /\ place' \in [Requests -> Nat] /\ places' \in Nat
         /\ deadline' \in [Requests -> Nat]
         /\ active' \in BOOLEAN /\ entered' \in BOOLEAN
<1> DEFINE S == calls \ done
           late == Swept(S)
           new == Made(late \cup done)
           began == IF inactive THEN {} ELSE new
<1>1. /\ late \subseteq calls /\ late \cap done = {}
      /\ Kept(S) = calls \ (late \cup done)
  BY DEF Swept, Kept
<1>2. late \cup done \in SUBSET Requests
  BY <1>1 DEF CallsInv, TypeOK
<1>3. new \subseteq Requests /\ \A r \in new : outcome[r] = "none"
  BY <1>2, MadeAreNew DEF CallsInv
<1>4. /\ calls' = Kept(S) \cup began
      /\ Begin(began, done)
      /\ Tell(done, status, late, new)
      /\ Complete(late \cup done)
      /\ IF inactive THEN UNCHANGED timer
         ELSE ArmFor(IF Made(done) # {} THEN calls' ELSE Visited(S))
  BY DEF Finish
<1>5. CallsOK' /\ OutcomeStep
  <2> HIDE DEF S, late, new
  <2> QED BY <1>1, <1>3, <1>4, EndAndBegin
<1>6. /\ addr' \in [Requests -> Requests] /\ reused' \subseteq Requests
      /\ place' \in [Requests -> Nat] /\ places' \in Nat
      /\ deadline' \in [Requests -> Nat]
      /\ active' \in BOOLEAN /\ entered' \in BOOLEAN
  <2>1. began \in SUBSET Requests
    BY <1>3
  <2> HIDE DEF began
  <2> QED BY <1>4, <2>1, BeginType DEF CallsInv
<1>7. timer' \in Nat
  <2>1. CASE inactive
    BY <1>4, <2>1 DEF CallsInv, TypeOK
  <2>2. CASE ~inactive
    <3>1. calls' \in SUBSET Requests
      BY <1>5 DEF CallsOK
    <3>2. Swept(S) \in SUBSET Requests /\ Kept(S) \in SUBSET Requests
      BY DEF Swept, Kept, CallsInv, TypeOK
    <3>3. Visited(S) \in SUBSET Requests
      BY <3>2, MadeAreNew DEF Visited, CallsInv
    <3> DEFINE T == IF Made(done) # {} THEN calls' ELSE Visited(S)
    <3>4. ArmFor(T) /\ T \in SUBSET Requests
      BY <1>4, <2>2, <3>1, <3>3
    <3> HIDE DEF T
    <3> QED BY <3>4, ArmForType DEF CallsInv
  <2> QED BY <2>1, <2>2
<1> QED BY <1>5, <1>6, <1>7

LEMMA OutReportStep ==
  ASSUME CallsInv, NEW r \in Requests, OutReport(r)
  PROVE  CallsInv' /\ OutcomeStep
<1> DEFINE late == Swept(calls)
           new == Made(late) \cup {r}
<1>1. late \subseteq calls /\ Kept(calls) = calls \ late
  BY DEF Swept, Kept
<1>2. late \in SUBSET Requests
  BY <1>1 DEF CallsInv, TypeOK
<1>3. new \subseteq Requests /\ \A q \in new : outcome[q] = "none"
  BY <1>2, MadeAreNew DEF CallsInv, OutReport
<1>4. /\ ~inactive
      /\ calls' = Kept(calls) \cup new
      /\ Begin(new, {})
      /\ Tell({}, "none", late, new)
      /\ Complete(late)
      /\ ArmFor(calls')
      /\ UNCHANGED <<threadVars, termVars, now>>
  BY DEF OutReport
<1>5. CallsOK' /\ OutcomeStep
  <2> HIDE DEF late, new
  <2>1. Complete(late \cup {}) /\ {} \in SUBSET calls
    BY <1>4 DEF Complete
  <2>2. calls' = (calls \ (late \cup {})) \cup (IF inactive THEN {} ELSE new)
    BY <1>1, <1>4
  <2> QED BY <1>1, <1>3, <1>4, <2>1, <2>2, EndAndBegin
<1>6. /\ addr' \in [Requests -> Requests] /\ reused' \subseteq Requests
      /\ place' \in [Requests -> Nat] /\ places' \in Nat
      /\ deadline' \in [Requests -> Nat]
      /\ active' \in BOOLEAN /\ entered' \in BOOLEAN
  <2> HIDE DEF new
  <2> QED BY <1>3, <1>4, BeginType DEF CallsInv
<1>7. timer' \in Nat
  BY <1>4, <1>5, ArmForType DEF CallsInv, CallsOK
<1> QED BY <1>4, <1>5, <1>6, <1>7 DEF CallsInv, CallsOK, TypeOK, threadVars, termVars

LEMMA WillTerminateStep ==
  ASSUME CallsInv, WillTerminate
  PROVE  CallsInv' /\ OutcomeStep
<1> DEFINE new == Made(calls)
<1>1. new \subseteq Requests /\ \A q \in new : outcome[q] = "none"
  BY MadeAreNew DEF CallsInv, TypeOK
<1>2. /\ inactive /\ calls' = {} /\ aborted' = TRUE
      /\ Tell(calls, "aborted", {}, new) /\ Complete(calls)
      /\ UNCHANGED <<place, places, deadline, addr, reused, timer, threadVars, entered,
                     active, inactive, terminated, now>>
  BY DEF WillTerminate
<1>3. CallsOK' /\ OutcomeStep
  <2> HIDE DEF new
  <2>1. Complete({} \cup calls) /\ {} \in SUBSET calls /\ calls \in SUBSET calls
    BY <1>2 DEF Complete
  <2>2. calls' = (calls \ ({} \cup calls)) \cup (IF inactive THEN {} ELSE new)
    BY <1>2
  <2>3. "aborted" \in Endings
    BY DEF Endings
  <2> QED BY <1>1, <1>2, <2>1, <2>2, <2>3, EndAndBegin
<1> QED BY <1>2, <1>3 DEF CallsInv, CallsOK, TypeOK, threadVars

(* completeAsyncReport, whatever address it is given.                      *)
LEMMA CompleteStep ==
  ASSUME CallsInv, NEW t, NEW status \in Endings, CompleteAsyncReport(t, status)
  PROVE  /\ CallsOK' /\ OutcomeStep
         /\ timer' \in Nat
         /\ addr' \in [Requests -> Requests] /\ reused' \subseteq Requests
         /\ place' \in [Requests -> Nat] /\ places' \in Nat
         /\ deadline' \in [Requests -> Nat]
         /\ active' \in BOOLEAN /\ entered' \in BOOLEAN
<1>1. CASE At(t) = {}
  BY <1>1 DEF CompleteAsyncReport, CallsInv, CallsOK, CompletedOnce, NoneLost,
              TypeOK, OutcomeStep, callVars
<1>2. CASE At(t) # {}
  <2>1. At(t) \in SUBSET calls /\ Without(t) = calls \ At(t)
    BY DEF At, Without
  <2>2. Finish(At(t), status, calls \ At(t))
    BY <1>2, <2>1 DEF CompleteAsyncReport
  <2> QED BY <2>1, <2>2, FinishStep
<1> QED BY <1>1, <1>2

------------------------------------------------------------------------------
LEMMA StepCalls == ASSUME CallsInv, [Next]_vars PROVE CallsInv' /\ OutcomeStep
<1> USE DEF CallsInv
<1>1. CASE UNCHANGED vars
  BY <1>1 DEF vars, callVars, threadVars, termVars, TypeOK, CompletedOnce, NoneLost,
              OutcomeStep
<1>2. ASSUME NEW r \in Requests, OutReport(r) PROVE CallsInv' /\ OutcomeStep
  BY <1>2, OutReportStep
<1>3. ASSUME NEW r \in Requests, OutReportOffline(r) PROVE CallsInv' /\ OutcomeStep
  BY <1>3 DEF OutReportOffline, TypeOK, Outcomes, CompletedOnce, NoneLost,
              OutcomeStep, threadVars, termVars
<1>4. CASE TimerFires
  <2>1. Finish({}, "none", calls \ {}) /\ {} \in SUBSET calls
    <3>1. calls \ {} = calls
      OBVIOUS
    <3> QED BY <1>4, <3>1 DEF TimerFires
  <2>2. /\ CallsOK' /\ OutcomeStep
        /\ timer' \in Nat
        /\ addr' \in [Requests -> Requests] /\ reused' \subseteq Requests
        /\ place' \in [Requests -> Nat] /\ places' \in Nat
        /\ deadline' \in [Requests -> Nat]
        /\ active' \in BOOLEAN /\ entered' \in BOOLEAN
    BY <2>1, FinishStep
  <2> QED BY <1>4, <2>2 DEF TimerFires, CallsOK, TypeOK, threadVars, termVars
<1>5. CASE ThreadBegins
  BY <1>5 DEF ThreadBegins, callVars, termVars, TypeOK, CompletedOnce, NoneLost,
              OutcomeStep
<1>6. CASE RunFirst
  BY <1>6 DEF RunFirst, callVars, termVars, TypeOK, CompletedOnce, NoneLost,
              OutcomeStep
<1>7. CASE AbortFirst
  <2>1. PICK r \in calls : CompleteAsyncReport(addr[r], "aborted")
    BY <1>7 DEF AbortFirst
  <2>2. "aborted" \in Endings
    BY DEF Endings
  <2>3. /\ CallsOK' /\ OutcomeStep
        /\ timer' \in Nat
        /\ addr' \in [Requests -> Requests] /\ reused' \subseteq Requests
        /\ place' \in [Requests -> Nat] /\ places' \in Nat
        /\ deadline' \in [Requests -> Nat]
        /\ active' \in BOOLEAN /\ entered' \in BOOLEAN
    BY <2>1, <2>2, CompleteStep
  <2> QED BY <1>7, <2>3 DEF AbortFirst, CallsOK, TypeOK, threadVars, termVars
<1>8. CASE ThreadEnds
  BY <1>8 DEF ThreadEnds, EnteredAfter, TerminationAfter, callVars, TypeOK,
              CompletedOnce, NoneLost, OutcomeStep
<1>9. CASE DeviceReturns
  <2>1. PICK status \in Statuses : /\ CompleteAsyncReport(target, status)
                                   /\ given' = IF status = "success"
                                               THEN given \cup {executing} ELSE given
    BY <1>9 DEF DeviceReturns
  <2>2. status \in Endings
    BY DEF Endings
  <2>3. /\ CallsOK' /\ OutcomeStep
        /\ timer' \in Nat
        /\ addr' \in [Requests -> Requests] /\ reused' \subseteq Requests
        /\ place' \in [Requests -> Nat] /\ places' \in Nat
        /\ deadline' \in [Requests -> Nat]
        /\ active' \in BOOLEAN /\ entered' \in BOOLEAN
    BY <2>1, <2>2, CompleteStep
  <2>4. given' \subseteq Requests
    BY <1>9, <2>1 DEF DeviceReturns, TypeOK
  <2> QED BY <1>9, <2>3, <2>4 DEF DeviceReturns, CallsOK, TypeOK, termVars
<1>10. CASE SetInactive
  BY <1>10 DEF SetInactive, callVars, threadVars, TypeOK, CompletedOnce, NoneLost,
               OutcomeStep
<1>11. CASE WillTerminate
  BY <1>11, WillTerminateStep
<1>12. CASE DidTerminate
  BY <1>12 DEF DidTerminate, callVars, threadVars, TypeOK, CompletedOnce, NoneLost,
               OutcomeStep
<1>13. CASE Tick
  BY <1>13 DEF Tick, callVars, threadVars, termVars, TypeOK, CompletedOnce, NoneLost,
               OutcomeStep
<1> QED BY <1>1, <1>2, <1>3, <1>4, <1>5, <1>6, <1>7, <1>8, <1>9, <1>10, <1>11,
           <1>12, <1>13 DEF Next, Thread, Terminate

LEMMA InitCalls == Init => CallsInv
<1> SUFFICES ASSUME Init PROVE CallsInv
  OBVIOUS
<1>1. addr \in [Requests -> Requests] /\ timer \in Nat
  BY AsyncAssumption DEF Init, Never
<1>2. outcome \in [Requests -> Outcomes] /\ completions \in [Requests -> {0, 1}]
  BY DEF Init, Outcomes
<1>3. CompletedOnce /\ NoneLost
  BY DEF Init, CompletedOnce, NoneLost
<1> QED BY <1>1, <1>2, <1>3 DEF Init, CallsInv, TypeOK

LEMMA AlwaysCalls == Spec => []CallsInv
<1>1. CallsInv /\ [Next]_vars => CallsInv'
  BY StepCalls
<1> QED BY InitCalls, <1>1, PTL DEF Spec

(* The variables keep their types.                                         *)
THEOREM TypeCorrect == Spec => []TypeOK
<1>1. CallsInv => TypeOK
  BY DEF CallsInv
<1> QED BY AlwaysCalls, <1>1, PTL

(* Each accepted call's completion is called once, by the device's answer, *)
(* the timer, or the abort, whichever comes first, and not before.         *)
THEOREM EachCompletedOnce == Spec => []EachEndsOnce
<1>1. CallsInv => EachEndsOnce
  BY DEF CallsInv, EachEndsOnce
<1> QED BY AlwaysCalls, <1>1, PTL

------------------------------------------------------------------------------
(* Termination: the thread is active from the entry of its thread call to  *)
(* its end, and after willTerminate nothing enters it again.               *)
TermInv ==
  /\ aborted => inactive /\ calls = {}
  /\ ~active => ~entered /\ thread = "idle"
  /\ terminated # "no" => aborted
  /\ terminated = "done" => ~active

LEMMA FinishTerm ==
  ASSUME TypeOK, TermInv, NEW done, NEW status, NEW S \in SUBSET calls,
         Finish(done, status, S)
  PROVE  /\ aborted => calls' = {} /\ active' = active /\ entered' = entered
         /\ active => active'
         /\ ~active' => entered' = entered
<1> DEFINE began == IF inactive THEN {} ELSE Made(Swept(S) \cup done)
<1>1. calls' = Kept(S) \cup began /\ Begin(began, done)
  BY DEF Finish
<1>2. aborted => began = {} /\ Kept(S) = {}
  BY DEF TermInv, Kept
<1>3. /\ active' = (active \/ began # {})
      /\ entered' = (entered \/ began # {})
  BY <1>1 DEF Begin
<1> HIDE DEF began
<1> QED BY <1>1, <1>2, <1>3 DEF TypeOK

LEMMA CompleteTerm ==
  ASSUME TypeOK, TermInv, NEW t, NEW status, CompleteAsyncReport(t, status)
  PROVE  /\ aborted => calls' = {} /\ active' = active /\ entered' = entered
         /\ active => active'
         /\ ~active' => entered' = entered
<1>1. CASE At(t) = {}
  BY <1>1 DEF CompleteAsyncReport, callVars, TermInv
<1>2. CASE At(t) # {}
  <2>1. Without(t) \in SUBSET calls /\ Finish(At(t), status, Without(t))
    BY <1>2 DEF CompleteAsyncReport, Without
  <2> QED BY <2>1, FinishTerm
<1> QED BY <1>1, <1>2

LEMMA StepTerm == ASSUME CallsInv, TermInv, [Next]_vars PROVE TermInv'
<1>0. TypeOK
  BY DEF CallsInv
<1> USE DEF TermInv
<1>1. CASE UNCHANGED vars
  BY <1>1 DEF vars, callVars, threadVars, termVars
<1>2. ASSUME NEW r \in Requests, OutReport(r) PROVE TermInv'
  <2>1. ~aborted /\ terminated = "no" /\ active' = TRUE
    BY <1>0, <1>2 DEF OutReport, Begin, TypeOK
  <2> QED BY <1>2, <2>1 DEF OutReport, threadVars, termVars
<1>3. ASSUME NEW r \in Requests, OutReportOffline(r) PROVE TermInv'
  BY <1>3 DEF OutReportOffline, threadVars, termVars
<1>4. CASE TimerFires
  <2>1. Finish({}, "none", calls) /\ calls \in SUBSET calls
    BY <1>4 DEF TimerFires
  <2> QED BY <1>0, <1>4, <2>1, FinishTerm DEF TimerFires, threadVars, termVars
<1>5. CASE ThreadBegins
  BY <1>5 DEF ThreadBegins, callVars, termVars
<1>6. CASE RunFirst
  BY <1>6 DEF RunFirst, callVars, termVars
<1>7. CASE AbortFirst
  <2>1. PICK r \in calls : CompleteAsyncReport(addr[r], "aborted")
    BY <1>7 DEF AbortFirst
  <2> QED BY <1>0, <1>7, <2>1, CompleteTerm DEF AbortFirst, threadVars, termVars
<1>8. CASE ThreadEnds
  BY <1>0, <1>8 DEF ThreadEnds, EnteredAfter, TerminationAfter, callVars, TypeOK
<1>9. CASE DeviceReturns
  <2>1. PICK status \in Statuses : CompleteAsyncReport(target, status)
    BY <1>9 DEF DeviceReturns
  <2>2. active /\ thread = "device"
    BY <1>0, <1>9 DEF DeviceReturns, TypeOK
  <2>3. /\ aborted => calls' = {} /\ active' = active /\ entered' = entered
        /\ active'
    BY <1>0, <2>1, <2>2, CompleteTerm
  <2> QED BY <1>9, <2>2, <2>3 DEF DeviceReturns, termVars
<1>10. CASE SetInactive
  BY <1>10 DEF SetInactive, callVars, threadVars
<1>11. CASE WillTerminate
  BY <1>11 DEF WillTerminate, threadVars
<1>12. CASE DidTerminate
  BY <1>12 DEF DidTerminate, MustDefer, callVars, threadVars
<1>13. CASE Tick
  BY <1>13 DEF Tick, callVars, threadVars, termVars
<1> QED BY <1>1, <1>2, <1>3, <1>4, <1>5, <1>6, <1>7, <1>8, <1>9, <1>10, <1>11,
           <1>12, <1>13 DEF Next, Thread, Terminate

(* When the device's termination is complete, and the device may be freed, *)
(* the thread is idle, its thread call is not entered and no call waits.   *)
THEOREM TerminationSafe == Spec => []TerminationWaits
<1>1. Init => TermInv
  BY DEF Init, TermInv
<1>2. CallsInv /\ TermInv /\ [Next]_vars => TermInv'
  BY StepTerm
<1>3. TermInv => TerminationWaits
  BY DEF TermInv, TerminationWaits
<1> QED BY <1>1, <1>2, <1>3, AlwaysCalls, PTL DEF Spec

------------------------------------------------------------------------------
(* The timer covers the deadlines, also while the thread has the gate; but *)
(* for the calls that completions make, which a sweep may have missed.     *)
Covered == ~inactive => \A r \in calls : ByCompletion(r) \/ timer <= deadline[r]

LEMMA MadeByCompletion ==
  ASSUME NEW S \in SUBSET Requests, NEW r \in Made(S) \cup Missed(S)
  PROVE  ByCompletion(r)
<1>1. Swept(S) \in SUBSET Requests
  BY DEF Swept
<1> QED BY <1>1 DEF Made, Missed, ByCompletion

(* Every call that stays is visited, unless a completion makes it.         *)
LEMMA FinishCovers ==
  ASSUME CallsInv, Covered, NEW done \in SUBSET calls, NEW status,
         NEW S \in SUBSET calls, Finish(done, status, S)
  PROVE  ~inactive => \A r \in calls' : ByCompletion(r) \/ timer' <= deadline'[r]
<1> DEFINE new == Made(Swept(S) \cup done)
<1> SUFFICES ASSUME ~inactive, NEW r \in calls', ~ByCompletion(r)
             PROVE  timer' <= deadline'[r]
  OBVIOUS
<1>1. S \in SUBSET Requests /\ Swept(S) \cup done \in SUBSET Requests
  BY DEF CallsInv, TypeOK, Swept
<1>2. r \notin new /\ r \notin Missed(S)
  BY <1>1, MadeByCompletion
<1>3. /\ calls' = Kept(S) \cup new /\ Begin(new, done)
      /\ ArmFor(IF Made(done) # {} THEN calls' ELSE Visited(S))
  BY DEF Finish
<1>4. r \in Kept(S) /\ Kept(S) \subseteq calls
  BY <1>2, <1>3 DEF Kept
<1>5. r \in Visited(S)
  BY <1>2, <1>4 DEF Visited
<1>6. timer' <= DeadlineOf(r)
  BY <1>3, <1>5 DEF ArmFor
<1>7. DeadlineOf(r) = deadline[r] /\ deadline'[r] = deadline[r]
  BY <1>2, <1>3, <1>4 DEF DeadlineOf, Begin, CallsInv, TypeOK
<1> QED BY <1>6, <1>7

LEMMA CompleteCovers ==
  ASSUME CallsInv, Covered, NEW t, NEW status, CompleteAsyncReport(t, status)
  PROVE  ~inactive => \A r \in calls' : ByCompletion(r) \/ timer' <= deadline'[r]
<1>1. CASE At(t) = {}
  BY <1>1 DEF CompleteAsyncReport, callVars, Covered
<1>2. CASE At(t) # {}
  <2>1. /\ Without(t) \in SUBSET calls /\ At(t) \in SUBSET calls
        /\ Finish(At(t), status, Without(t))
    BY <1>2 DEF CompleteAsyncReport, Without, At
  <2> QED BY <2>1, FinishCovers
<1> QED BY <1>1, <1>2

LEMMA StepCovers == ASSUME CallsInv, Covered, [Next]_vars PROVE Covered'
<1>1. CASE UNCHANGED vars
  BY <1>1 DEF vars, callVars, threadVars, termVars, Covered
<1>2. ASSUME NEW r \in Requests, OutReport(r) PROVE Covered'
  <2> DEFINE new == Made(Swept(calls)) \cup {r}
  <2>1. calls \in SUBSET Requests /\ Swept(calls) \in SUBSET Requests
    BY DEF Swept, CallsInv, TypeOK
  <2>2. \A q \in Made(Swept(calls)) : ByCompletion(q)
    BY <2>1, MadeByCompletion
  <2>3. /\ calls' = Kept(calls) \cup new /\ Begin(new, {}) /\ ArmFor(calls')
        /\ r \notin calls /\ ~ByCompletion(r)
    BY <1>2 DEF OutReport, CallsInv, NoneLost, ByCompletion
  <2>4. \A q \in calls' : timer' <= DeadlineOf(q)
    BY <2>3 DEF ArmFor
  <2>5. ASSUME NEW q \in calls', ~ByCompletion(q) PROVE DeadlineOf(q) = deadline'[q]
    BY <2>1, <2>2, <2>3, <2>5 DEF DeadlineOf, Begin, Kept, CallsInv, TypeOK
  <2> QED BY <2>4, <2>5 DEF Covered
<1>3. ASSUME NEW r \in Requests, OutReportOffline(r) PROVE Covered'
  BY <1>3 DEF OutReportOffline, termVars, Covered
<1>4. CASE TimerFires
  <2>1. /\ Finish({}, "none", calls) /\ calls \in SUBSET calls
        /\ {} \in SUBSET calls /\ inactive' = inactive
    BY <1>4 DEF TimerFires, termVars
  <2> QED BY <2>1, FinishCovers DEF Covered
<1>5. CASE ThreadBegins
  BY <1>5 DEF ThreadBegins, callVars, termVars, Covered
<1>6. CASE RunFirst
  BY <1>6 DEF RunFirst, callVars, termVars, Covered
<1>7. CASE AbortFirst
  <2>1. inactive /\ inactive' = inactive
    BY <1>7 DEF AbortFirst, termVars
  <2> QED BY <2>1 DEF Covered
<1>8. CASE ThreadEnds
  BY <1>8 DEF ThreadEnds, callVars, Covered
<1>9. CASE DeviceReturns
  <2>1. PICK status \in Statuses : CompleteAsyncReport(target, status)
    BY <1>9 DEF DeviceReturns
  <2>2. inactive' = inactive
    BY <1>9 DEF DeviceReturns, termVars
  <2> QED BY <2>1, <2>2, CompleteCovers DEF Covered
<1>10. CASE SetInactive
  BY <1>10 DEF SetInactive, Covered
<1>11. CASE WillTerminate
  BY <1>11 DEF WillTerminate, Covered
<1>12. CASE DidTerminate
  BY <1>12 DEF DidTerminate, callVars, Covered
<1>13. CASE Tick
  BY <1>13 DEF Tick, callVars, termVars, Covered
<1> QED BY <1>1, <1>2, <1>3, <1>4, <1>5, <1>6, <1>7, <1>8, <1>9, <1>10, <1>11,
           <1>12, <1>13 DEF Next, Thread, Terminate

(* The timer is armed for the first deadline of the calls in the list that *)
(* no completion made, at every step (Covered): TimerCoversDeadlines.      *)
THEOREM TimerCovers == Spec => [](Covered /\ TimerCoversDeadlines)
<1>1. Init => Covered
  BY DEF Init, Covered
<1>2. CallsInv /\ Covered /\ [Next]_vars => Covered'
  BY StepCovers
<1>3. Covered => Covered /\ TimerCoversDeadlines
  BY DEF Covered, TimerCoversDeadlines
<1> QED BY <1>1, <1>2, <1>3, AlwaysCalls, PTL DEF Spec

------------------------------------------------------------------------------
(* What callers are told.  No two calls in the list have one address, so   *)
(* that the thread's pointer is to the call it executes, or, when that one *)
(* has ended, to a call which was made there meanwhile, or to none.        *)
Apart == \A r, q \in calls : addr[r] = addr[q] => r = q
OwnInv ==
  /\ Apart
  /\ thread = "device" =>
       \A r \in calls : addr[r] = target => r = executing \/ r \in reused
  /\ SuccessIsOwn

(* Calls that begin get addresses that no call which stays has, and those  *)
(* that get the thread's are noted.                                        *)
LEMMA BeginApart ==
  ASSUME CallsInv, OwnInv, NEW done \in SUBSET calls, NEW new \in SUBSET Requests,
         \A r \in new : outcome[r] = "none", Begin(new, done),
         NEW kept \in SUBSET (calls \ done), kept \cap Swept(calls \ done) = {},
         calls' = kept \cup new, UNCHANGED threadVars \/ thread' # "device"
  PROVE  /\ Apart' /\ reused \subseteq reused'
         /\ thread' = "device" =>
              \A r \in calls' : addr'[r] = target' => r = executing' \/ r \in reused'
<1>1. PICK f \in [new -> Requests] :
        /\ \A r \in new : f[r] \in FreshOr(r) \ {addr[q] : q \in InUse(r, done)}
        /\ \A r, q \in new : f[r] = f[q] => r = q
        /\ addr' = [r \in Requests |-> IF r \in new THEN f[r] ELSE addr[r]]
        /\ reused' = reused \cup {r \in new : thread = "device" /\ f[r] = target}
  BY DEF Begin, Allocated
<1>2. \A q \in kept : q \in calls /\ q \in Requests /\ q \notin new
  BY DEF CallsInv, TypeOK, NoneLost
<1>3. \A q \in kept, r \in new : q \in InUse(r, done)
  BY <1>2 DEF InUse, Sooner
<1>4. \A q \in kept : addr'[q] = addr[q]
  BY <1>1, <1>2
<1>5. \A r \in new : addr'[r] = f[r]
  BY <1>1
<1>6. \A q \in kept, r \in new : addr'[q] # addr'[r]
  BY <1>1, <1>3, <1>4, <1>5
<1>7. Apart'
  <2> SUFFICES ASSUME NEW r \in calls', NEW q \in calls', addr'[r] = addr'[q]
               PROVE  r = q
    BY DEF Apart
  <2>1. CASE r \in kept /\ q \in kept
    BY <1>2, <1>4, <2>1 DEF OwnInv, Apart
  <2>2. CASE r \in new /\ q \in new
    BY <1>1, <1>5, <2>2
  <2> QED BY <1>6, <2>1, <2>2
<1>8. ASSUME thread' = "device", NEW r \in calls', addr'[r] = target'
      PROVE  r = executing' \/ r \in reused'
  <2>1. thread = "device" /\ target' = target /\ executing' = executing
    BY <1>8 DEF threadVars
  <2>2. CASE r \in kept
    BY <1>1, <1>2, <1>4, <1>8, <2>1, <2>2 DEF OwnInv
  <2>3. CASE r \in new
    BY <1>1, <1>5, <1>8, <2>1, <2>3
  <2> QED BY <2>2, <2>3
<1> QED BY <1>1, <1>7, <1>8

LEMMA FinishOwn ==
  ASSUME CallsInv, OwnInv, NEW done \in SUBSET calls, NEW status,
         Finish(done, status, calls \ done), UNCHANGED threadVars \/ thread' # "device"
  PROVE  /\ Apart' /\ reused \subseteq reused'
         /\ thread' = "device" =>
              \A r \in calls' : addr'[r] = target' => r = executing' \/ r \in reused'
         /\ \A r \in Requests : outcome'[r] = "success" =>
              outcome[r] = "success" \/ (r \in done /\ status = "success")
<1> DEFINE S == calls \ done
           made == Made(Swept(S) \cup done)
           began == IF inactive THEN {} ELSE made
           kept == Kept(S)
<1>1. Swept(S) \cup done \in SUBSET Requests
  BY DEF Swept, CallsInv, TypeOK
<1>2. made \in SUBSET Requests /\ \A r \in made : outcome[r] = "none"
  BY <1>1, MadeAreNew DEF CallsInv
<1>3. /\ calls' = kept \cup began /\ Begin(began, done)
      /\ Tell(done, status, Swept(S), made)
  BY DEF Finish
<1>4. kept \in SUBSET (calls \ done) /\ kept \cap Swept(calls \ done) = {}
  BY DEF Kept
<1>5. began \in SUBSET Requests /\ \A r \in began : outcome[r] = "none"
  BY <1>2
<1>6. \A r \in Requests : outcome'[r] = "success" =>
        outcome[r] = "success" \/ (r \in done /\ status = "success")
  BY <1>3 DEF Tell
<1> HIDE DEF began, kept, made
<1> QED BY <1>3, <1>4, <1>5, <1>6, BeginApart

LEMMA CompleteOwn ==
  ASSUME CallsInv, OwnInv, NEW t, NEW status, CompleteAsyncReport(t, status),
         UNCHANGED threadVars \/ thread' # "device"
  PROVE  /\ Apart' /\ reused \subseteq reused'
         /\ thread' = "device" =>
              \A r \in calls' : addr'[r] = target' => r = executing' \/ r \in reused'
         /\ \A r \in Requests : outcome'[r] = "success" =>
              outcome[r] = "success" \/ (r \in At(t) /\ status = "success")
<1>1. CASE At(t) = {}
  BY <1>1 DEF CompleteAsyncReport, callVars, threadVars, OwnInv, Apart
<1>2. CASE At(t) # {}
  <2>1. At(t) \in SUBSET calls /\ Without(t) = calls \ At(t)
    BY DEF At, Without
  <2>2. Finish(At(t), status, calls \ At(t))
    BY <1>2, <2>1 DEF CompleteAsyncReport
  <2> QED BY <2>1, <2>2, FinishOwn
<1> QED BY <1>1, <1>2

LEMMA StepOwn == ASSUME CallsInv, OwnInv, [Next]_vars PROVE OwnInv' /\ reused \subseteq reused'
<1> USE DEF OwnInv, SuccessIsOwn
<1>1. CASE UNCHANGED vars
  BY <1>1 DEF vars, callVars, threadVars, termVars, Apart
<1>2. ASSUME NEW r \in Requests, OutReport(r) PROVE OwnInv' /\ reused \subseteq reused'
  <2> DEFINE new == Made(Swept(calls)) \cup {r}
             kept == Kept(calls)
  <2>1. Swept(calls) \in SUBSET Requests
    BY DEF Swept, CallsInv, TypeOK
  <2>2. new \in SUBSET Requests /\ \A q \in new : outcome[q] = "none"
    BY <1>2, <2>1, MadeAreNew DEF CallsInv, OutReport
  <2>3. /\ calls' = kept \cup new /\ Begin(new, {})
        /\ Tell({}, "none", Swept(calls), new) /\ UNCHANGED threadVars
    BY <1>2 DEF OutReport
  <2>4. /\ {} \in SUBSET calls /\ kept \in SUBSET (calls \ {})
        /\ kept \cap Swept(calls \ {}) = {}
    <3>1. calls \ {} = calls
      OBVIOUS
    <3> QED BY <3>1 DEF Kept
  <2>5. \A q \in Requests : outcome'[q] = "success" => outcome[q] = "success"
    BY <2>3 DEF Tell
  <2> HIDE DEF new, kept
  <2>6. /\ Apart' /\ reused \subseteq reused'
        /\ thread' = "device" =>
             \A q \in calls' : addr'[q] = target' => q = executing' \/ q \in reused'
    BY <2>2, <2>3, <2>4, BeginApart
  <2> QED BY <2>3, <2>5, <2>6 DEF threadVars
<1>3. ASSUME NEW r \in Requests, OutReportOffline(r) PROVE OwnInv' /\ reused \subseteq reused'
  BY <1>3 DEF OutReportOffline, threadVars, Apart, CallsInv, TypeOK
<1>4. CASE TimerFires
  <2>1. /\ Finish({}, "none", calls \ {}) /\ {} \in SUBSET calls
        /\ UNCHANGED threadVars
    <3>1. calls \ {} = calls
      OBVIOUS
    <3> QED BY <1>4, <3>1 DEF TimerFires
  <2> QED BY <2>1, FinishOwn DEF threadVars
<1>5. CASE ThreadBegins
  BY <1>5 DEF ThreadBegins, callVars, Apart
<1>6. CASE RunFirst
  BY <1>6 DEF RunFirst, callVars, Apart
<1>7. CASE AbortFirst
  <2>1. PICK r \in calls : CompleteAsyncReport(addr[r], "aborted")
    BY <1>7 DEF AbortFirst
  <2>2. UNCHANGED threadVars
    BY <1>7 DEF AbortFirst
  <2>3. /\ Apart' /\ reused \subseteq reused'
        /\ thread' = "device" =>
             \A q \in calls' : addr'[q] = target' => q = executing' \/ q \in reused'
        /\ \A q \in Requests : outcome'[q] = "success" => outcome[q] = "success"
    BY <2>1, <2>2, CompleteOwn
  <2> QED BY <2>2, <2>3 DEF threadVars
<1>8. CASE ThreadEnds
  BY <1>8 DEF ThreadEnds, callVars, Apart
<1>9. CASE DeviceReturns
  <2>1. PICK status \in Statuses : /\ CompleteAsyncReport(target, status)
                                   /\ given' = IF status = "success"
                                               THEN given \cup {executing} ELSE given
    BY <1>9 DEF DeviceReturns
  <2>2. thread = "device" /\ thread' = "loop"
    BY <1>9 DEF DeviceReturns
  <2>3. \A q \in At(target) : q = executing \/ q \in reused
    BY <2>2 DEF At
  <2>4. /\ Apart' /\ reused \subseteq reused'
        /\ \A q \in Requests : outcome'[q] = "success" =>
             outcome[q] = "success" \/ (q \in At(target) /\ status = "success")
    BY <2>1, <2>2, CompleteOwn
  <2> QED BY <2>1, <2>2, <2>3, <2>4
<1>10. CASE SetInactive
  BY <1>10 DEF SetInactive, callVars, threadVars, Apart
<1>11. CASE WillTerminate
  <2>1. \A r \in Requests : outcome'[r] = "success" => outcome[r] = "success"
    BY <1>11 DEF WillTerminate, Tell
  <2> QED BY <1>11, <2>1 DEF WillTerminate, threadVars, Apart
<1>12. CASE DidTerminate
  BY <1>12 DEF DidTerminate, callVars, threadVars, Apart
<1>13. CASE Tick
  BY <1>13 DEF Tick, callVars, threadVars, Apart
<1> QED BY <1>1, <1>2, <1>3, <1>4, <1>5, <1>6, <1>7, <1>8, <1>9, <1>10, <1>11,
           <1>12, <1>13 DEF Next, Thread, Terminate

LEMMA AlwaysOwn == Spec => []OwnInv
<1>1. Init => OwnInv
  BY DEF Init, OwnInv, SuccessIsOwn, Apart
<1>2. CallsInv /\ OwnInv /\ [Next]_vars => OwnInv'
  BY StepOwn
<1> QED BY <1>1, <1>2, AlwaysCalls, PTL DEF Spec

(* Who is told success, the device has carried out, or its call was made   *)
(* at the address of the one the thread had at the device, while it had    *)
(* it there: in no other way does an answer come to another call.          *)
THEOREM SuccessOwn == Spec => []SuccessIsOwn
<1>1. OwnInv => SuccessIsOwn
  BY DEF OwnInv
<1> QED BY AlwaysOwn, <1>1, PTL

------------------------------------------------------------------------------
(* Refinement: what is at the device is never a call that is still to come.*)
Begun == \A r \in Requests : r = executing => outcome[r] # "none"

LEMMA StepBegun == ASSUME CallsInv, Begun, [Next]_vars PROVE Begun'
<1>1. OutcomeStep
  BY StepCalls
<1>2. \A r \in Requests : outcome[r] # "none" => outcome'[r] # "none"
  BY <1>1 DEF OutcomeStep, Endings, Statuses
<1>3. executing' = executing \/ executing' \in calls \/ executing' = Nil
  BY DEF Next, Thread, Terminate, vars, threadVars, OutReport, OutReportOffline,
         TimerFires, ThreadBegins, RunFirst, AbortFirst, ThreadEnds, DeviceReturns,
         SetInactive, WillTerminate, DidTerminate, Tick
<1>4. \A r \in calls : outcome[r] # "none"
  BY DEF CallsInv, NoneLost, TypeOK
<1> QED BY <1>2, <1>3, <1>4, AsyncAssumption DEF Begun

(* Only the device gives answers, and only to calls that have begun; who   *)
(* is told success at another's address had begun as well.                 *)
LEMMA StepGiven ==
  ASSUME CallsInv, OwnInv, Begun, [Next]_vars
  PROVE  /\ given \cup Mistaken \subseteq given' \cup Mistaken'
         /\ \A r \in (given' \cup Mistaken') \ (given \cup Mistaken) :
              r \in Requests /\ outcome[r] # "none"
<1>1. given' = given \/ (given' = given \cup {executing} /\ executing \in Requests)
  <2>1. CASE DeviceReturns
    BY <2>1 DEF DeviceReturns, CallsInv, TypeOK
  <2>2. CASE ~DeviceReturns
    BY <2>2 DEF Next, Thread, Terminate, vars, threadVars, OutReport,
                OutReportOffline, TimerFires, ThreadBegins, RunFirst, AbortFirst,
                ThreadEnds, SetInactive, WillTerminate, DidTerminate, Tick
  <2> QED BY <2>1, <2>2
<1>2. \A r \in given' \ given : r \in Requests /\ outcome[r] # "none"
  BY <1>1 DEF Begun
<1>3. OutcomeStep /\ reused \subseteq reused' /\ CallsInv'
  BY StepCalls, StepOwn
<1>4. \A r \in Mistaken : r \in Mistaken'
  BY <1>3 DEF Mistaken, OutcomeStep, CallsInv, TypeOK
<1>5. \A r \in Mistaken' : r \in Requests /\ outcome[r] # "none"
  BY <1>3 DEF Mistaken, OutcomeStep, CallsInv, TypeOK
<1> QED BY <1>1, <1>2, <1>4, <1>5

(* The exchange implements ReportTransactions, whatever memory calls get:  *)
(* each call is refused, or open until one ending, and a success is the    *)
(* device's own word, if not about this call, then about the one whose     *)
(* address it was made at.                                                 *)
THEOREM Refines == Spec => RefinesTransactions
<1>1. Init => Transactions!TxInit
  BY DEF Init, Transactions!TxInit, Told, Mistaken
<1>2. ASSUME CallsInv, OwnInv, OwnInv', Begun, [Next]_vars
      PROVE  [Transactions!TxNext]_(Transactions!txVars)
  <2>1. OutcomeStep /\ CallsInv'
    BY <1>2, StepCalls
  <2>2. Transactions!Answer
    <3>1. /\ given \cup Mistaken \subseteq given' \cup Mistaken'
          /\ \A r \in (given' \cup Mistaken') \ (given \cup Mistaken) :
               r \in Requests /\ outcome[r] # "none"
      BY <1>2, StepGiven
    <3>2. \A r \in (given' \cup Mistaken') \ (given \cup Mistaken) :
            r \in Requests
            /\ (IF outcome[r] = "none" THEN "new"
                ELSE IF outcome[r] = "open" THEN "open" ELSE "closed") # "new"
      BY <3>1
    <3> QED BY <3>1, <3>2 DEF Transactions!Answer
  <2>3. \A r \in Requests : outcome'[r] = "success" => r \in given' \cup Mistaken'
    BY <1>2 DEF OwnInv, SuccessIsOwn, Mistaken
  <2>4. ASSUME NEW r \in Requests
        PROVE  \/ Transactions!Still(r) \/ Transactions!Begin(r)
               \/ Transactions!Decline(r) \/ Transactions!End(r)
    <3>1. CASE outcome'[r] = outcome[r]
      BY <3>1 DEF Transactions!Still, Told
    <3>2. CASE outcome[r] = "none" /\ outcome'[r] = "open"
      BY <3>2 DEF Transactions!Begin, Transactions!Step, Told
    <3>3. CASE outcome[r] = "none" /\ outcome'[r] = "offline"
      BY <3>3 DEF Transactions!Decline, Transactions!Step, Told
    <3>4. CASE outcome[r] = "open" /\ outcome'[r] \in Endings
      BY <2>3, <3>4 DEF Transactions!End, Transactions!Step, Told, Endings, Statuses
    <3> QED BY <2>1, <3>1, <3>2, <3>3, <3>4 DEF OutcomeStep
  <2> QED BY <2>2, <2>4 DEF Transactions!TxNext
<1>3. Init => Begun
  BY AsyncAssumption DEF Init, Begun
<1>4. CallsInv /\ Begun /\ [Next]_vars => Begun'
  BY StepBegun
<1> QED BY <1>1, <1>2, <1>3, <1>4, AlwaysCalls, AlwaysOwn, PTL
        DEF Spec, RefinesTransactions, Transactions!TxSpec

(* No call is lost: it is in the list until it ends, the timer in time.    *)
THEOREM Accounted == Spec => []CallsAccounted
BY EachCompletedOnce, TimerCovers, PTL DEF CallsAccounted
================================================================================
