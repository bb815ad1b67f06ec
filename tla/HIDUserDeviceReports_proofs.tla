---------------------- MODULE HIDUserDeviceReports_proofs ----------------------
(***************************************************************************)
(* Proofs about the exchange of reports with a user device, for any number *)
(* of requests of any kind and any completion actions.                     *)
(***************************************************************************)
EXTENDS HIDUserDeviceReports, Functions, TLAPS, FiniteSetTheorems, WellFoundedInduction

(* A nonempty set of naturals has a least element.                         *)
LEMMA LeastNatural ==
  ASSUME NEW T \in SUBSET Nat, T # {}
  PROVE  \E d \in T : \A e \in T : d <= e
<1>1. PICK d \in T : \A e \in T : <<e, d>> \notin OpToRel(<, Nat)
  BY WFMin, NatLessThanWellFounded
<1>2. \A e \in T : ~(e < d)
  BY <1>1 DEF OpToRel
<1> QED BY <1>2

(* The timer is armed for the deadline of some request, and for the first. *)
LEMMA EarliestIsLeast ==
  ASSUME NEW S \in SUBSET Reqs, S # {}, NEW dl \in [Reqs -> Nat]
  PROVE  /\ Earliest(S, dl) \in {dl[r] : r \in S}
         /\ \A r \in S : Earliest(S, dl) <= dl[r]
<1> DEFINE D == {dl[r] : r \in S}
<1>1. \E d \in D : \A e \in D : d <= e
  <2>1. D \in SUBSET Nat /\ D # {}
    OBVIOUS
  <2> HIDE DEF D
  <2> QED BY <2>1, LeastNatural
<1>2. \E d \in D : \A r \in S : d <= dl[r]
  BY <1>1
<1> QED BY <1>2 DEF Earliest

(* A frame pushed on a stack of frames, and one taken off.                 *)
LEMMA PushType ==
  ASSUME NEW stack \in Seq(Frames),
         NEW op \in {"submit", "post", "posted", "expire"} \cup Cleaners,
         NEW r \in Reqs, NEW left \in SUBSET Reqs
  PROVE  Push(stack, op, r, left) \in Seq(Frames)
BY DEF Push, Frames

LEMMA TopType ==
  ASSUME TypeOK, gate # <<>>
  PROVE  Top \in Frames /\ Below \in Seq(Frames)
BY DEF TypeOK, Top, Below

(* Calling completion actions keeps stack, counts and results well typed.  *)
LEMMA RunCompletionsType ==
  ASSUME TypeOK,
         NEW op \in {"submit", "post", "posted", "expire"} \cup Cleaners,
         NEW S \in SUBSET Reqs, NEW stack \in Seq(Frames), NEW why \in Results,
         RunCompletions(op, S, stack, why)
  PROVE  /\ gate' \in Seq(Frames)
         /\ calls' \in [Reqs -> Nat]
         /\ result' \in [Reqs -> Results]
<1>1. CASE S = {}
  BY <1>1 DEF RunCompletions, TypeOK
<1>2. CASE S # {}
  <2>1. PICK r \in S : /\ gate' = Push(stack, op, r, S \ {r})
                       /\ calls' = [calls EXCEPT ![r] = @ + 1]
                       /\ result' = [result EXCEPT ![r] = why]
    BY <1>2 DEF RunCompletions
  <2>2. gate' \in Seq(Frames)
    BY <2>1, PushType
  <2> QED BY <2>1, <2>2 DEF TypeOK
<1> QED BY <1>1, <1>2

(* So does setNextAsyncTimeout, for the set, the count and the timer.      *)
LEMMA SetNextAsyncTimeoutType ==
  ASSUME TypeOK,
         NEW pend \in SUBSET Reqs, NEW dl \in [Reqs -> Nat],
         NEW stack \in Seq(Frames),
         SetNextAsyncTimeout(pend, asyncCount, dl, stack)
  PROVE  /\ pending' \in SUBSET Reqs
         /\ asyncCount' \in Int
         /\ timer' \in Nat
         /\ gate' \in Seq(Frames)
         /\ calls' \in [Reqs -> Nat]
         /\ result' \in [Reqs -> Results]
<1> DEFINE due == Due(pend, dl)
           wait == (pend \cap Async) \ due
<1>1. due \in SUBSET Reqs /\ wait \in SUBSET Reqs
  BY DEF Due
<1>2. /\ pending' = pend \ due
      /\ asyncCount' = asyncCount - Cardinality(due)
      /\ timer' = IF wait = {} THEN NoTimer ELSE Earliest(wait, dl)
      /\ RunCompletions("expire", due, stack, "timeout")
  BY DEF SetNextAsyncTimeout
<1> HIDE DEF due, wait
<1>3. Cardinality(due) \in Nat
  BY <1>1, KindAssumption, FS_Subset, FS_CardinalityType
<1>4. asyncCount' \in Int
  BY <1>2, <1>3 DEF TypeOK
<1>5. timer' \in Nat
  <2>1. CASE wait = {}
    BY <2>1, <1>2 DEF NoTimer
  <2>2. CASE wait # {}
    BY <2>2, <1>1, <1>2, EarliestIsLeast
  <2> QED BY <2>1, <2>2
<1>6. /\ gate' \in Seq(Frames)
      /\ calls' \in [Reqs -> Nat]
      /\ result' \in [Reqs -> Results]
  BY <1>1, <1>2, RunCompletionsType DEF Results
<1> QED BY <1>1, <1>2, <1>4, <1>5, <1>6

------------------------------------------------------------------------------
(* Every variable keeps its type, whatever the requests, the process and   *)
(* the completion actions do (all of IOHIDResourceDeviceUserClient's       *)
(* operations on them).                                                    *)
LEMMA TypeInit == Init => TypeOK
<1> SUFFICES ASSUME Init PROVE TypeOK
  OBVIOUS
<1>1. gate \in Seq(Frames) /\ queue \in Seq(Reqs)
  BY DEF Init
<1>2. /\ phase \in [Reqs -> Phases]
      /\ ret \in [Reqs -> Results] /\ result \in [Reqs -> Results]
  BY DEF Init, Phases, Results
<1>3. /\ mapped \in BOOLEAN /\ port \in BOOLEAN
      /\ suspended \in BOOLEAN /\ inactive \in BOOLEAN
  BY DEF Init
<1> QED BY <1>1, <1>2, <1>3 DEF Init, TypeOK, NoTimer

LEMMA TypeNext == TypeOK /\ [Next]_vars => TypeOK'
<1> USE DEF recordVars, clientVars
<1> SUFFICES ASSUME TypeOK, [Next]_vars PROVE TypeOK'
  OBVIOUS
<1>1. ASSUME NEW r \in Reqs, Refuse(r) PROVE TypeOK'
  <2>1. PICK why \in Results : result' = [result EXCEPT ![r] = why]
    BY <1>1 DEF Refuse, Results
  <2>2. cleaner' \in [Cleaners -> {"idle", "calling", "sleeping", "woken", "done"}]
    BY <1>1 DEF Refuse, WakeCleaners, TypeOK
  <2>3. maps' \subseteq Reqs
    BY <1>1 DEF Refuse, NotReady, Mapped, TypeOK
  <2>4. nextToken' \in Nat
    BY <1>1 DEF Refuse, TypeOK
  <2>5. phase' \in [Reqs -> Phases]
    BY <1>1 DEF Refuse, TypeOK, Phases
  <2> QED BY <1>1, <2>1, <2>2, <2>3, <2>4, <2>5 DEF Refuse, TypeOK
<1>2. ASSUME NEW r \in Reqs, Submit(r) PROVE TypeOK'
  <2>1. /\ token' \in [Reqs -> Nat] /\ nextToken' \in Nat
        /\ deadline' \in [Reqs -> Nat]
        /\ ret' \in [Reqs -> Results]
        /\ held' \subseteq Reqs /\ maps' \subseteq Reqs
        /\ queue' \in Seq(Reqs)
    <3>1. Timeout[r] \in Nat
      BY SizeAssumption
    <3>2. ret' \in [Reqs -> Results]
      BY <1>2 DEF Submit, TypeOK, Results
    <3> QED BY <1>2, <3>1, <3>2 DEF Submit, TypeOK, Mapped
  <2>2. phase' \in [Reqs -> Phases]
    BY <1>2 DEF Submit, TypeOK, Phases
  <2>3. /\ pending' \subseteq Reqs /\ asyncCount' \in Int /\ timer' \in Nat
        /\ gate' \in Seq(Frames)
        /\ calls' \in [Reqs -> Nat] /\ result' \in [Reqs -> Results]
    <3>1. CASE r \in Async
      <4>1. SetNextAsyncTimeout(pending \cup {r}, asyncCount, deadline',
                                Push(gate, "submit", r, {}))
        BY <1>2, <3>1 DEF Submit
      <4>2. Push(gate, "submit", r, {}) \in Seq(Frames)
        BY PushType DEF TypeOK
      <4>3. pending \cup {r} \in SUBSET Reqs
        BY DEF TypeOK
      <4> QED BY <2>1, <4>1, <4>2, <4>3, SetNextAsyncTimeoutType
    <3>2. CASE r \notin Async
      BY <1>2, <3>2 DEF Submit, TypeOK
    <3> QED BY <3>1, <3>2
  <2>4. UNCHANGED <<mapped, port, suspended, inactive, cleaner, taken, answered, now>>
    BY <1>2 DEF Submit
  <2> QED BY <2>1, <2>2, <2>3, <2>4 DEF TypeOK
<1>3. ASSUME NEW r \in Reqs, SleepTimesOut(r) \/ SleepInterrupted(r) PROVE TypeOK'
  BY <1>3 DEF SleepTimesOut, SleepInterrupted, StopsWaiting, TypeOK, Phases
<1>4. ASSUME NEW r \in Reqs, SleeperReturns(r) PROVE TypeOK'
  <2>1. WaitResult(r) \in Results
    BY DEF WaitResult, TypeOK, Results
  <2>2. cleaner' \in [Cleaners -> {"idle", "calling", "sleeping", "woken", "done"}]
    BY <1>4 DEF SleeperReturns, WakeCleaners, TypeOK
  <2>3. phase' \in [Reqs -> Phases]
    BY <1>4 DEF SleeperReturns, TypeOK, Phases
  <2> QED BY <1>4, <2>1, <2>2, <2>3 DEF SleeperReturns, TypeOK, Removed, Released
<1>5. ASSUME NEW r \in Reqs, ReleaseToken(r) PROVE TypeOK'
  BY <1>5 DEF ReleaseToken, TypeOK
<1>6. ASSUME NEW r \in Reqs, NEW reply \in Replies, PostReportResult(r, reply)
      PROVE TypeOK'
  <2>1. reply \in Results
    BY DEF Replies, Results
  <2>2. PICK p \in Reqs :
          /\ ret' = [ret EXCEPT ![p] = reply]
          /\ \/ /\ RunCompletions("post", {p}, gate, reply)
                /\ UNCHANGED phase
             \/ /\ Wake({p})
                /\ UNCHANGED <<gate, calls, result>>
    BY <1>6 DEF PostReportResult
  <2>3. /\ gate' \in Seq(Frames) /\ phase' \in [Reqs -> Phases]
        /\ calls' \in [Reqs -> Nat] /\ result' \in [Reqs -> Results]
    <3>1. CASE RunCompletions("post", {p}, gate, reply) /\ UNCHANGED phase
      <4>1. {p} \in SUBSET Reqs /\ gate \in Seq(Frames)
        BY DEF TypeOK
      <4>2. phase' \in [Reqs -> Phases]
        BY <3>1 DEF TypeOK
      <4> QED BY <2>1, <3>1, <4>1, <4>2, RunCompletionsType
    <3>2. CASE Wake({p}) /\ UNCHANGED <<gate, calls, result>>
      BY <3>2 DEF Wake, TypeOK, Phases
    <3> QED BY <2>2, <3>1, <3>2
  <2>4. ret' \in [Reqs -> Results] /\ answered' \subseteq Reqs
    BY <1>6, <2>1, <2>2 DEF TypeOK, PostReportResult
  <2> QED BY <1>6, <2>3, <2>4 DEF TypeOK, PostReportResult
<1>7. ASSUME SubmitReturns \/ PostReturns PROVE TypeOK'
  BY <1>7, TopType, SMTT(20) DEF SubmitReturns, PostReturns, InCall, CountedOff, TypeOK
<1>8. ASSUME PostCompletionReturns PROVE TypeOK'
  <2>1. Top \in Frames /\ Below \in Seq(Frames)
    BY <1>8, TopType DEF PostCompletionReturns, InCall
  <2>2. Top.req \in Reqs /\ Rest \in SUBSET Reqs
    BY <2>1 DEF Frames, Rest
  <2>3. Push(Below, "posted", Top.req, {}) \in Seq(Frames)
    BY <2>1, <2>2, PushType
  <2>4. Removed(Top.req) \in SUBSET Reqs /\ deadline \in [Reqs -> Nat]
    BY DEF Removed, TypeOK
  <2>5. SetNextAsyncTimeout(Removed(Top.req), asyncCount, deadline,
                            Push(Below, "posted", Top.req, {}))
    BY <1>8 DEF PostCompletionReturns
  <2>6. /\ pending' \subseteq Reqs /\ asyncCount' \in Int /\ timer' \in Nat
        /\ gate' \in Seq(Frames)
        /\ calls' \in [Reqs -> Nat] /\ result' \in [Reqs -> Results]
    BY <2>3, <2>4, <2>5, SetNextAsyncTimeoutType
  <2> QED BY <1>8, <2>6 DEF PostCompletionReturns, TypeOK, Released
<1>9. ASSUME TimerFires PROVE TypeOK'
  <2>1. /\ pending' \subseteq Reqs /\ asyncCount' \in Int /\ timer' \in Nat
        /\ gate' \in Seq(Frames)
        /\ calls' \in [Reqs -> Nat] /\ result' \in [Reqs -> Results]
    BY <1>9, SetNextAsyncTimeoutType DEF TimerFires, TypeOK
  <2> QED BY <1>9, <2>1 DEF TimerFires, TypeOK
<1>10. ASSUME TimeoutCompletionReturns PROVE TypeOK'
  <2>1. Rest \in SUBSET Reqs /\ Below \in Seq(Frames)
    BY <1>10, TopType DEF TimeoutCompletionReturns, InCall, Frames, Rest
  <2>2. RunCompletions("expire", Rest, Below, "timeout")
    BY <1>10 DEF TimeoutCompletionReturns
  <2>3. /\ gate' \in Seq(Frames)
        /\ calls' \in [Reqs -> Nat] /\ result' \in [Reqs -> Results]
    BY <2>1, <2>2, RunCompletionsType DEF Results
  <2> QED BY <1>10, <2>3 DEF TimeoutCompletionReturns, TypeOK, Released
<1>11. ASSUME MapMemory \/ SetPort \/ SetSuspended \/ Terminate \/ Tick PROVE TypeOK'
  <2>1. CASE MapMemory
    BY <2>1 DEF MapMemory, TypeOK
  <2>2. CASE SetPort
    BY <2>2 DEF SetPort, TypeOK
  <2>3. CASE SetSuspended
    BY <2>3 DEF SetSuspended, TypeOK
  <2>4. CASE Terminate
    BY <2>4 DEF Terminate, TypeOK
  <2>5. CASE Tick
    BY <2>5 DEF Tick, TypeOK
  <2> QED BY <1>11, <2>1, <2>2, <2>3, <2>4, <2>5
<1>12. ASSUME TakeReport PROVE TypeOK'
  BY <1>12 DEF TakeReport, TypeOK
<1>13. ASSUME NEW c \in Cleaners, NEW registered \in BOOLEAN,
              CleanupPendingReports(c, registered)
       PROVE  TypeOK'
  <2>1. /\ cleaner' \in [Cleaners -> {"idle", "calling", "sleeping", "woken", "done"}]
        /\ port' \in BOOLEAN
    BY <1>13 DEF CleanupPendingReports, CleanupLoop, TypeOK
  <2>2. phase' \in [Reqs -> Phases] /\ ret' \in [Reqs -> Results] /\ timer' \in Nat
    BY <1>13 DEF CleanupPendingReports, Wake, TypeOK, Phases, Results, NoTimer
  <2>3. RunCompletions(c, pending \cap Async, gate, "aborted")
    BY <1>13 DEF CleanupPendingReports
  <2>4. /\ gate' \in Seq(Frames)
        /\ calls' \in [Reqs -> Nat] /\ result' \in [Reqs -> Results]
    <3>1. pending \cap Async \in SUBSET Reqs /\ gate \in Seq(Frames)
      BY DEF TypeOK
    <3> QED BY <2>3, <3>1, RunCompletionsType DEF Results
  <2> QED BY <1>13, <2>1, <2>2, <2>4 DEF CleanupPendingReports, TypeOK
<1>14. ASSUME NEW c \in Cleaners, AbortCompletionReturns(c) PROVE TypeOK'
  <2>1. Rest \in SUBSET Reqs /\ Below \in Seq(Frames)
    BY <1>14, TopType DEF AbortCompletionReturns, InCall, Frames, Rest
  <2>2. RunCompletions(c, Rest, Below, "aborted")
    BY <1>14 DEF AbortCompletionReturns
  <2>3. /\ gate' \in Seq(Frames)
        /\ calls' \in [Reqs -> Nat] /\ result' \in [Reqs -> Results]
    BY <2>1, <2>2, RunCompletionsType DEF Results
  <2>4. /\ cleaner' \in [Cleaners -> {"idle", "calling", "sleeping", "woken", "done"}]
        /\ port' \in BOOLEAN
    BY <1>14 DEF AbortCompletionReturns, CleanupLoop, TypeOK
  <2> QED BY <1>14, <2>3, <2>4 DEF AbortCompletionReturns, TypeOK, Released, Removed, CountedOff
<1>15. ASSUME NEW c \in Cleaners, CleanerWakes(c) PROVE TypeOK'
  BY <1>15 DEF CleanerWakes, CleanupLoop, TypeOK
<1>16. ASSUME ClearPort \/ Stop PROVE TypeOK'
  BY <1>13, <1>16 DEF ClearPort, Stop, Cleaners, TypeOK
<1>17. ASSUME UNCHANGED vars PROVE TypeOK'
  BY <1>17 DEF vars, TypeOK
<1> QED BY <1>1, <1>2, <1>3, <1>4, <1>5, <1>6, <1>7, <1>8, <1>9, <1>10, <1>11,
           <1>12, <1>14, <1>15, <1>16, <1>17 DEF Next

(* The user client's variables always have their types.                    *)
THEOREM TypeCorrect == Spec => []TypeOK
BY TypeInit, TypeNext, PTL DEF Spec

------------------------------------------------------------------------------
(* SuccessIsEarned.  It is not inductive: a late answer could reach a      *)
(* request of the same token.  So tokens of accepted requests are distinct *)
(* and below _tokenIndex, the process can only read those, and a record's  *)
(* ret says success only after an answer.                                  *)
Accepted == {r \in Reqs : deadline[r] # 0}

TokenInv ==
  /\ TypeOK
  /\ \A r \in Accepted : token[r] < nextToken
  /\ \A r, s \in Accepted : token[r] = token[s] => r = s
  /\ pending \subseteq Accepted
  /\ taken \subseteq Accepted
  /\ \A i \in 1..Len(queue) : queue[i] \in Accepted
  /\ \A r \in Accepted : phase[r] # "new"
  /\ \A r \in Reqs : ret[r] = "success" => r \in answered
  /\ SuccessIsEarned

(* A completion action is told success only when the caller says so.       *)
LEMMA RunCompletionsResult ==
  ASSUME TypeOK, NEW op, NEW S \in SUBSET Reqs, NEW stack, NEW why \in Results,
         RunCompletions(op, S, stack, why),
         NEW r \in Reqs, result'[r] = "success"
  PROVE  result[r] = "success" \/ (why = "success" /\ r \in S)
BY DEF RunCompletions, TypeOK

LEMMA SetNextAsyncTimeoutResult ==
  ASSUME TypeOK, NEW pend \in SUBSET Reqs, NEW count, NEW dl, NEW stack,
         SetNextAsyncTimeout(pend, count, dl, stack),
         NEW r \in Reqs, result'[r] = "success"
  PROVE  result[r] = "success"
<1>1. Due(pend, dl) \in SUBSET Reqs
  BY DEF Due
<1>2. RunCompletions("expire", Due(pend, dl), stack, "timeout")
  BY DEF SetNextAsyncTimeout
<1>3. "timeout" \in Results
  BY DEF Results
<1> QED BY <1>1, <1>2, <1>3, RunCompletionsResult

LEMMA TokenNext == TokenInv /\ [Next]_vars => TokenInv'
<1> USE DEF recordVars, clientVars
<1> SUFFICES ASSUME TokenInv, [Next]_vars PROVE TokenInv'
  OBVIOUS
<1>0. TypeOK /\ TypeOK'
  BY TypeNext DEF TokenInv
<1>1. ASSUME UNCHANGED <<token, deadline, ret, nextToken>>,
             pending' \subseteq pending, taken' = taken, queue' = queue,
             \A r \in Reqs : phase'[r] = "new" => phase[r] = "new",
             answered' = answered, SuccessIsEarned'
      PROVE  TokenInv'
  BY <1>0, <1>1 DEF TokenInv, Accepted
<1>2. ASSUME NEW r \in Reqs, Refuse(r) PROVE TokenInv'
  <2>1. PICK why \in Results \ {"success"} : result' = [result EXCEPT ![r] = why]
    BY <1>2 DEF Refuse, NotReady, Results
  <2>2. SuccessIsEarned'
    BY <1>2, <2>1, <1>0 DEF TokenInv, SuccessIsEarned, Refuse, TypeOK
  <2>3. nextToken' >= nextToken
    BY <1>2, <1>0 DEF Refuse, TypeOK
  <2>4. Accepted' = Accepted
    BY <1>2 DEF Refuse, Accepted
  <2>5. \A q \in Accepted' : phase'[q] # "new"
    BY <1>0, <1>2, <2>4 DEF TokenInv, Refuse, TypeOK, Phases, Accepted
  <2>6. \A q \in Accepted' : token'[q] < nextToken'
    BY <1>0, <1>2, <2>3, <2>4 DEF TokenInv, Refuse, TypeOK, Accepted
  <2> QED BY <1>0, <1>2, <2>2, <2>4, <2>5, <2>6 DEF TokenInv, Refuse
<1>3. ASSUME NEW r \in Reqs, Submit(r) PROVE TokenInv'
  <2>1. r \notin Accepted
    BY <1>3 DEF Submit, MayCall, TokenInv
  <2>2. Timeout[r] \in Nat \ {0} /\ now \in Nat
    BY <1>0, SizeAssumption DEF TypeOK
  <2>3. Accepted' = Accepted \cup {r}
    <3>1. deadline' = [deadline EXCEPT ![r] = now + Timeout[r]]
      BY <1>3 DEF Submit
    <3>2. now + Timeout[r] # 0
      BY <2>2
    <3> QED BY <1>0, <3>1, <3>2 DEF Accepted, TypeOK
  <2>4. /\ token' = [token EXCEPT ![r] = nextToken]
        /\ nextToken' = nextToken + 1
    BY <1>3 DEF Submit
  <2>5. \A q \in Accepted' : token'[q] < nextToken'
    <3>1. nextToken \in Nat /\ token \in [Reqs -> Nat]
      BY <1>0 DEF TypeOK
    <3>2. \A q \in Accepted : q \in Reqs /\ token[q] < nextToken
      BY DEF TokenInv, Accepted
    <3>3. ASSUME NEW q \in Accepted' PROVE token'[q] < nextToken'
      BY <2>3, <2>4, <3>1, <3>2
    <3> QED BY <3>3
  <2>6. \A q, t \in Accepted' : token'[q] = token'[t] => q = t
    <3>1. \A q \in Accepted : token'[q] = token[q] /\ token[q] < nextToken
      BY <1>0, <2>1, <2>4 DEF TokenInv, TypeOK, Accepted
    <3>2. token'[r] = nextToken
      BY <1>0, <2>4 DEF TypeOK
    <3>3. \A q \in Accepted : token[q] \in Nat
      BY <1>0 DEF TypeOK, Accepted
    <3>4. nextToken \in Nat
      BY <1>0 DEF TypeOK
    <3> QED BY <2>3, <3>1, <3>2, <3>3, <3>4 DEF TokenInv
  <2>7. pending' \subseteq pending \cup {r}
    BY <1>3 DEF Submit, SetNextAsyncTimeout
  <2>8. \A i \in 1..Len(queue') : queue'[i] \in Accepted'
    <3>1. queue' = Append(queue, r) /\ queue \in Seq(Reqs)
      BY <1>0, <1>3 DEF Submit, TypeOK
    <3>2. \A i \in 1..Len(queue) : queue[i] \in Accepted
      BY DEF TokenInv
    <3> QED BY <2>3, <3>1, <3>2
  <2>9. \A q \in Accepted' : phase'[q] # "new"
    BY <1>0, <1>3, <2>3, SMTT(20) DEF TokenInv, Submit, TypeOK, Accepted
  <2>10. \A q \in Reqs : ret'[q] = "success" => q \in answered'
    BY <1>0, <1>3 DEF TokenInv, Submit, TypeOK
  <2>11. SuccessIsEarned'
    <3>1. ASSUME NEW q \in Reqs, result'[q] = "success" PROVE result[q] = "success"
      <4>1. CASE r \in Async
        <5>1. SetNextAsyncTimeout(pending \cup {r}, asyncCount, deadline',
                                  Push(gate, "submit", r, {}))
          BY <1>3, <4>1 DEF Submit
        <5>2. pending \cup {r} \in SUBSET Reqs
          BY <1>0 DEF TypeOK
        <5> QED BY <1>0, <3>1, <5>1, <5>2, SetNextAsyncTimeoutResult
      <4>2. CASE r \notin Async
        BY <1>3, <3>1, <4>2 DEF Submit
      <4> QED BY <4>1, <4>2
    <3> QED BY <1>3, <3>1 DEF SuccessIsEarned, TokenInv, Submit
  <2>12. taken' = taken
    BY <1>3 DEF Submit
  <2> QED BY <1>0, <2>3, <2>5, <2>6, <2>7, <2>8, <2>9, <2>10, <2>11, <2>12 DEF TokenInv
<1>4. ASSUME NEW r \in Reqs, SleepTimesOut(r) \/ SleepInterrupted(r) PROVE TokenInv'
  <2>1. \A q \in Reqs : phase'[q] = "new" => phase[q] = "new"
    BY <1>0, <1>4 DEF SleepTimesOut, SleepInterrupted, StopsWaiting, TypeOK
  <2>2. SuccessIsEarned'
    BY <1>4 DEF SleepTimesOut, SleepInterrupted, StopsWaiting, TokenInv, SuccessIsEarned
  <2> QED BY <1>1, <1>4, <2>1, <2>2 DEF SleepTimesOut, SleepInterrupted, StopsWaiting
<1>5. ASSUME NEW r \in Reqs, SleeperReturns(r) PROVE TokenInv'
  <2>1. WaitResult(r) = "success" => r \in answered
    BY DEF WaitResult, TokenInv
  <2>2. SuccessIsEarned'
    BY <1>0, <1>5, <2>1 DEF SleeperReturns, TypeOK, TokenInv, SuccessIsEarned
  <2>3. \A q \in Reqs : phase'[q] = "new" => phase[q] = "new"
    BY <1>0, <1>5 DEF SleeperReturns, TypeOK
  <2> QED BY <1>1, <1>5, <2>2, <2>3 DEF SleeperReturns, Removed
<1>6. ASSUME NEW r \in Reqs, NEW reply \in Replies, PostReportResult(r, reply)
      PROVE  TokenInv'
  <2>1. PICK p \in Reqs :
          /\ Answers(r, p)
          /\ ret' = [ret EXCEPT ![p] = reply]
          /\ \/ /\ RunCompletions("post", {p}, gate, reply)
                /\ UNCHANGED phase
             \/ /\ Wake({p})
                /\ UNCHANGED <<gate, calls, result>>
    BY <1>6 DEF PostReportResult
  <2>2. p = r
    BY <1>6, <2>1 DEF Answers, TokenInv, PostReportResult
  <2>3. answered \subseteq answered' /\ (reply = "success" => r \in answered')
    BY <1>6 DEF PostReportResult
  <2>4. \A q \in Reqs : ret'[q] = "success" => q \in answered'
    BY <1>0, <2>1, <2>2, <2>3 DEF TokenInv, TypeOK
  <2>5. SuccessIsEarned'
    <3>1. ASSUME NEW q \in Reqs, result'[q] = "success"
          PROVE  result[q] = "success" \/ (reply = "success" /\ q = r)
      <4>1. reply \in Results /\ {p} \in SUBSET Reqs
        BY DEF Replies, Results
      <4>2. CASE RunCompletions("post", {p}, gate, reply)
        BY <1>0, <2>2, <3>1, <4>1, <4>2, RunCompletionsResult
      <4>3. CASE UNCHANGED result
        BY <3>1, <4>3
      <4> QED BY <2>1, <4>2, <4>3
    <3> QED BY <2>3, <3>1 DEF SuccessIsEarned, TokenInv
  <2>6. \A q \in Reqs : phase'[q] = "new" => phase[q] = "new"
    BY <1>0, <2>1 DEF Wake, TypeOK
  <2> QED BY <1>0, <1>6, <2>4, <2>5, <2>6 DEF PostReportResult, TokenInv, Accepted
<1>7. ASSUME \/ SubmitReturns \/ PostReturns \/ MapMemory \/ SetPort
             \/ SetSuspended \/ Terminate \/ Tick \/ UNCHANGED vars
             \/ \E r \in Reqs : ReleaseToken(r)
             \/ \E c \in Cleaners : CleanerWakes(c)
      PROVE  TokenInv'
  <2>1. UNCHANGED <<phase, recordVars, pending, nextToken, queue, taken, answered, result>>
    BY <1>7 DEF SubmitReturns, PostReturns, MapMemory, SetPort, SetSuspended,
                Terminate, Tick, vars, ReleaseToken, CleanerWakes
  <2>2. SuccessIsEarned'
    BY <2>1 DEF SuccessIsEarned, TokenInv
  <2> QED BY <1>1, <2>1, <2>2
<1>8. ASSUME PostCompletionReturns PROVE TokenInv'
  <2>1. SetNextAsyncTimeout(Removed(Top.req), asyncCount, deadline,
                            Push(Below, "posted", Top.req, {}))
    BY <1>8 DEF PostCompletionReturns
  <2>2. Removed(Top.req) \in SUBSET Reqs /\ Removed(Top.req) \subseteq pending
    BY <1>0 DEF Removed, TypeOK
  <2>3. SuccessIsEarned'
    BY <1>0, <1>8, <2>1, <2>2, SetNextAsyncTimeoutResult
       DEF SuccessIsEarned, TokenInv, PostCompletionReturns
  <2>4. pending' \subseteq pending
    BY <2>1, <2>2 DEF SetNextAsyncTimeout
  <2> QED BY <1>1, <1>8, <2>3, <2>4 DEF PostCompletionReturns
<1>9. ASSUME TimerFires PROVE TokenInv'
  <2>1. SetNextAsyncTimeout(pending, asyncCount, deadline, gate)
    BY <1>9 DEF TimerFires
  <2>2. SuccessIsEarned'
    BY <1>0, <1>9, <2>1, SetNextAsyncTimeoutResult
       DEF SuccessIsEarned, TokenInv, TimerFires, TypeOK
  <2>3. pending' \subseteq pending
    BY <2>1 DEF SetNextAsyncTimeout
  <2> QED BY <1>1, <1>9, <2>2, <2>3 DEF TimerFires
<1>10. ASSUME TimeoutCompletionReturns PROVE TokenInv'
  <2>1. Rest \in SUBSET Reqs
    BY <1>0, <1>10, TopType DEF TimeoutCompletionReturns, InCall, Frames, Rest
  <2>2. RunCompletions("expire", Rest, Below, "timeout") /\ "timeout" \in Results
    BY <1>10 DEF TimeoutCompletionReturns, Results
  <2>3. SuccessIsEarned'
    BY <1>0, <1>10, <2>1, <2>2, RunCompletionsResult
       DEF SuccessIsEarned, TokenInv, TimeoutCompletionReturns
  <2> QED BY <1>1, <1>10, <2>3 DEF TimeoutCompletionReturns
<1>11. ASSUME TakeReport PROVE TokenInv'
  <2>1. Head(queue) \in Accepted
    BY <1>0, <1>11 DEF TakeReport, TokenInv, TypeOK
  <2>2. \A i \in 1..Len(queue') : queue'[i] \in Accepted
    <3>1. queue' = Tail(queue) /\ queue # <<>> /\ queue \in Seq(Reqs)
      BY <1>0, <1>11 DEF TakeReport, TypeOK
    <3> QED BY <3>1 DEF TokenInv
  <2>3. Accepted' = Accepted
    BY <1>11 DEF TakeReport, Accepted
  <2> QED BY <1>0, <1>11, <2>1, <2>2, <2>3 DEF TakeReport, TokenInv, SuccessIsEarned
<1>12. ASSUME NEW c \in Cleaners, NEW registered \in BOOLEAN,
              CleanupPendingReports(c, registered)
       PROVE  TokenInv'
  <2>1. pending \cap Async \in SUBSET Reqs /\ "aborted" \in Results
    BY <1>0 DEF TypeOK, Results
  <2>2. RunCompletions(c, pending \cap Async, gate, "aborted")
    BY <1>12 DEF CleanupPendingReports
  <2>3. SuccessIsEarned'
    BY <1>0, <1>12, <2>1, <2>2, RunCompletionsResult
       DEF SuccessIsEarned, TokenInv, CleanupPendingReports
  <2>4. \A q \in Reqs : ret'[q] = "success" => q \in answered'
    BY <1>12 DEF TokenInv, CleanupPendingReports
  <2>5. \A q \in Reqs : phase'[q] = "new" => phase[q] = "new"
    BY <1>12 DEF CleanupPendingReports, Wake
  <2> QED BY <1>0, <1>12, <2>3, <2>4, <2>5 DEF CleanupPendingReports, TokenInv, Accepted
<1>13. ASSUME NEW c \in Cleaners, AbortCompletionReturns(c) PROVE TokenInv'
  <2>1. Rest \in SUBSET Reqs
    BY <1>0, <1>13, TopType DEF AbortCompletionReturns, InCall, Frames, Rest
  <2>2. RunCompletions(c, Rest, Below, "aborted") /\ "aborted" \in Results
    BY <1>13 DEF AbortCompletionReturns, Results
  <2>3. SuccessIsEarned'
    <3>1. answered' = answered
      BY <1>13 DEF AbortCompletionReturns
    <3>2. ASSUME NEW q \in Reqs, result'[q] = "success" PROVE result[q] = "success"
      BY <1>0, <2>1, <2>2, <3>2, RunCompletionsResult
    <3> QED BY <3>1, <3>2 DEF SuccessIsEarned, TokenInv
  <2> QED BY <1>1, <1>13, <2>3 DEF AbortCompletionReturns, Removed
<1>14. ASSUME ClearPort \/ Stop PROVE TokenInv'
  BY <1>0, <1>12, <1>14 DEF ClearPort, Stop, Cleaners, TypeOK
<1> QED BY <1>2, <1>3, <1>4, <1>5, <1>6, <1>7, <1>8, <1>9, <1>10, <1>11, <1>13,
           <1>14 DEF Next

LEMMA TokenInit == Init => TokenInv
<1> SUFFICES ASSUME Init PROVE TokenInv
  OBVIOUS
<1>1. Accepted = {}
  BY DEF Init, Accepted
<1> QED BY <1>1, TypeInit DEF Init, TokenInv, SuccessIsEarned

(* A caller is told success only if the process answered that very request *)
(* with success, for any requests, answers, times and completion actions.  *)
THEOREM SuccessEarned == Spec => []SuccessIsEarned
<1>1. TokenInv => SuccessIsEarned
  BY DEF TokenInv
<1> QED BY <1>1, TokenInit, TokenNext, PTL DEF Spec

------------------------------------------------------------------------------
(* CompletedAtMostOnce, when completion actions make no requests.  Then    *)
(* only the frame on top of the stack runs a completion action, and a      *)
(* pending request whose action was called already is the one being called *)
(* right now, by postReportResult or cleanupPendingReports, which take it  *)
(* out of _pending when the action returns.  A timed out request has left  *)
(* _pending before its action is called.                                   *)
Waiting(stack) == \A i \in 1..Len(stack) : stack[i].op \in {"submit", "posted"}

BeingCalled(r) == InCall({"post"} \cup Cleaners) /\ Top.req = r

OnceInv ==
  /\ TypeOK
  /\ CompletedAtMostOnce
  /\ \A r \in pending : calls[r] = 0 \/ BeingCalled(r)
  /\ \A r \in pending : phase[r] # "new"
  /\ \A r \in Reqs : phase[r] = "new" => calls[r] = 0
  /\ gate # <<>> => Waiting(Below)
  /\ HandlerRunning => \A q \in Rest : calls[q] = 0 /\ phase[q] # "new"
  /\ InCall({"expire"}) => Rest \cap pending = {}

(* What Push leaves on top and below.                                      *)
LEMMA PushTop ==
  ASSUME NEW stack \in Seq(Frames),
         NEW op \in {"submit", "post", "posted", "expire"} \cup Cleaners,
         NEW r \in Reqs, NEW left \in SUBSET Reqs,
         gate' = Push(stack, op, r, left)
  PROVE  /\ gate' # <<>>
         /\ Top' = [op |-> op, req |-> r, left |-> left]
         /\ Below' = stack
<1> DEFINE f == [op |-> op, req |-> r, left |-> left]
<1>1. f \in Frames /\ gate' = Append(stack, f)
  BY DEF Push, Frames
<1> HIDE DEF f
<1>2. gate' # <<>> /\ Top' = f
  BY <1>1 DEF Top
<1>3. Below' = stack
  BY <1>1 DEF Below
<1> QED BY <1>2, <1>3 DEF f

(* The step in which completion actions of S start to be called.           *)
LEMMA RunCompletionsOnce ==
  ASSUME TypeOK, TypeOK', CompletedAtMostOnce,
         NEW op \in {"post", "expire"} \cup Cleaners,
         NEW S \in SUBSET Reqs, NEW stack \in Seq(Frames), Waiting(stack),
         NEW why, RunCompletions(op, S, stack, why),
         \A q \in S : calls[q] = 0 /\ phase'[q] # "new",
         \A q \in pending' : calls[q] = 0 /\ phase'[q] # "new",
         \A q \in Reqs : phase'[q] = "new" => calls[q] = 0,
         op = "expire" => S \cap pending' = {}
  PROVE  OnceInv'
<1>1. CASE S = {}
  <2>1. gate' = stack /\ calls' = calls
    BY <1>1 DEF RunCompletions
  <2>2. gate' # <<>> => Waiting(Below')
    BY <2>1 DEF Waiting, Below
  <2>3. gate' # <<>> => Top'.op \in {"submit", "posted"}
    BY <2>1 DEF Waiting, Top
  <2>4. ~HandlerRunning' /\ ~InCall({"expire"})'
    BY <2>3 DEF HandlerRunning, InCall, Cleaners
  <2> QED BY <2>1, <2>2, <2>4 DEF OnceInv, CompletedAtMostOnce, Waiting, BeingCalled
<1>2. CASE S # {}
  <2>1. PICK r \in S : /\ gate' = Push(stack, op, r, S \ {r})
                       /\ calls' = [calls EXCEPT ![r] = @ + 1]
    BY <1>2 DEF RunCompletions
  <2>2. /\ gate' # <<>>
        /\ Top' = [op |-> op, req |-> r, left |-> S \ {r}]
        /\ Below' = stack
    BY <2>1, PushTop
  <2>3. /\ calls' \in [Reqs -> Nat] /\ calls'[r] = 1
        /\ \A q \in Reqs : q # r => calls'[q] = calls[q]
    BY <2>1 DEF TypeOK
  <2>4. CompletedAtMostOnce'
    BY <2>3 DEF CompletedAtMostOnce
  <2>5. \A q \in pending' : calls'[q] = 0 \/ BeingCalled(q)'
    <3>1. ASSUME NEW q \in pending', q # r PROVE calls'[q] = 0
      BY <2>3, <3>1 DEF TypeOK
    <3>2. ASSUME r \in pending' PROVE BeingCalled(r)'
      BY <2>1, <2>2, <3>2 DEF BeingCalled, InCall
    <3> QED BY <3>1, <3>2
  <2>6. \A q \in Reqs : phase'[q] = "new" => calls'[q] = 0
    BY <2>3
  <2>7. Rest' = S \ {r}
    BY <2>2 DEF Rest
  <2>8. Waiting(Below')
    BY <2>2
  <2>9. \A q \in Rest' : calls'[q] = 0 /\ phase'[q] # "new"
    BY <2>3, <2>7
  <2>10. InCall({"expire"})' => Rest' \cap pending' = {}
    BY <2>2, <2>7 DEF InCall
  <2> QED BY <2>4, <2>5, <2>6, <2>8, <2>9, <2>10 DEF OnceInv, Waiting
<1> QED BY <1>1, <1>2

(* setNextAsyncTimeout, when nothing pending has been called.              *)
LEMMA SetNextAsyncTimeoutOnce ==
  ASSUME TypeOK, TypeOK', CompletedAtMostOnce,
         NEW pend \in SUBSET Reqs, NEW count, NEW dl,
         NEW stack \in Seq(Frames), Waiting(stack),
         SetNextAsyncTimeout(pend, count, dl, stack),
         \A q \in pend : calls[q] = 0 /\ phase'[q] # "new",
         \A q \in Reqs : phase'[q] = "new" => calls[q] = 0
  PROVE  OnceInv'
<1>1. Due(pend, dl) \subseteq pend
  BY DEF Due
<1>2. /\ pending' = pend \ Due(pend, dl)
      /\ RunCompletions("expire", Due(pend, dl), stack, "timeout")
  BY DEF SetNextAsyncTimeout
<1> QED BY <1>1, <1>2, RunCompletionsOnce

(* A frame for a function that waits keeps the stack below it waiting.     *)
LEMMA PushWaiting ==
  ASSUME NEW stack \in Seq(Frames), Waiting(stack),
         NEW op \in {"submit", "posted"}, NEW r \in Reqs
  PROVE  Waiting(Push(stack, op, r, {})) /\ Push(stack, op, r, {}) \in Seq(Frames)
<1> DEFINE f == [op |-> op, req |-> r, left |-> {}]
<1>1. f \in Frames /\ f.op = op
  BY DEF Frames
<1>2. Push(stack, op, r, {}) = Append(stack, f)
  BY DEF Push
<1> HIDE DEF f
<1> QED BY <1>1, <1>2 DEF Waiting

LEMMA OnceNext ==
  ASSUME Reissuers = {}
  PROVE  OnceInv /\ [Next]_vars => OnceInv'
<1> USE DEF recordVars, clientVars
<1> SUFFICES ASSUME OnceInv, [Next]_vars PROVE OnceInv'
  OBVIOUS
<1>0. TypeOK /\ TypeOK' /\ CompletedAtMostOnce
  BY TypeNext DEF OnceInv
<1>1. ASSUME GateFree
      PROVE  /\ gate \in Seq(Frames) /\ Waiting(gate)
             /\ \A q \in pending : calls[q] = 0 /\ phase[q] # "new"
  BY <1>0, <1>1 DEF GateFree, Waiting, OnceInv, BeingCalled, InCall, TypeOK
<1>2. ASSUME UNCHANGED <<calls, gate>>, pending' \subseteq pending,
             \A q \in Reqs : phase'[q] = "new" => phase[q] = "new"
      PROVE  OnceInv'
  <2>1. \A q \in pending' : q \in Reqs
    BY <1>0 DEF TypeOK
  <2>2. Rest' = Rest /\ Below' = Below /\ Top' = Top
    BY <1>2 DEF Rest, Below, Top
  <2>3. HandlerRunning => Rest \subseteq Reqs
    BY <1>0, TopType DEF HandlerRunning, InCall, Rest, Frames
  <2> QED BY <1>0, <1>2, <2>1, <2>2, <2>3
          DEF OnceInv, CompletedAtMostOnce, BeingCalled, InCall, HandlerRunning, Waiting
<1>3. ASSUME NEW r \in Reqs, Refuse(r) PROVE OnceInv'
  <2>1. \A q \in Reqs : phase'[q] = "new" => phase[q] = "new"
    BY <1>0, <1>3 DEF Refuse, TypeOK
  <2> QED BY <1>2, <1>3, <2>1 DEF Refuse
<1>4. ASSUME NEW r \in Reqs, Submit(r) PROVE OnceInv'
  <2>1. GateFree /\ phase[r] = "new"
    BY <1>4 DEF Submit, MayCall
  <2>2. calls[r] = 0
    BY <2>1 DEF OnceInv
  <2>3. \A q \in Reqs : phase'[q] = "new" => phase[q] = "new"
    BY <1>0, <1>4 DEF Submit, TypeOK
  <2>4. phase'[r] # "new"
    BY <1>0, <1>4 DEF Submit, TypeOK
  <2>5. \A q \in pending \cup {r} : calls[q] = 0 /\ phase'[q] # "new"
    <3>1. \A q \in pending : q \in Reqs
      BY <1>0 DEF TypeOK
    <3> QED BY <1>1, <2>1, <2>2, <2>3, <2>4, <3>1
  <2>6. CASE r \in Async
    <3>1. SetNextAsyncTimeout(pending \cup {r}, asyncCount, deadline',
                              Push(gate, "submit", r, {}))
      BY <1>4, <2>6 DEF Submit
    <3>2. /\ Waiting(Push(gate, "submit", r, {}))
          /\ Push(gate, "submit", r, {}) \in Seq(Frames)
      BY <1>1, <2>1, PushWaiting
    <3>3. pending \cup {r} \in SUBSET Reqs
      BY <1>0 DEF TypeOK
    <3>4. \A q \in Reqs : phase'[q] = "new" => calls[q] = 0
      BY <2>3 DEF OnceInv
    <3> QED BY <1>0, <2>5, <3>1, <3>2, <3>3, <3>4, SetNextAsyncTimeoutOnce
  <2>7. CASE r \notin Async
    <3>1. pending' = pending \cup {r} /\ UNCHANGED <<gate, calls>>
      BY <1>4, <2>7 DEF Submit
    <3>2. \A q \in pending' : calls'[q] = 0 /\ phase'[q] # "new"
      BY <2>5, <3>1
    <3>3. gate' = <<>>
      BY <2>1, <3>1 DEF GateFree
    <3> QED BY <1>0, <2>3, <3>1, <3>2, <3>3
            DEF OnceInv, CompletedAtMostOnce, HandlerRunning, InCall, Waiting
  <2> QED BY <2>6, <2>7
<1>5. ASSUME NEW r \in Reqs, SleepTimesOut(r) \/ SleepInterrupted(r) PROVE OnceInv'
  <2>1. \A q \in Reqs : phase'[q] = "new" => phase[q] = "new"
    BY <1>0, <1>5 DEF SleepTimesOut, SleepInterrupted, StopsWaiting, TypeOK
  <2> QED BY <1>2, <1>5, <2>1 DEF SleepTimesOut, SleepInterrupted, StopsWaiting
<1>6. ASSUME NEW r \in Reqs, SleeperReturns(r) PROVE OnceInv'
  <2>1. \A q \in Reqs : phase'[q] = "new" => phase[q] = "new"
    BY <1>0, <1>6 DEF SleeperReturns, TypeOK
  <2> QED BY <1>2, <1>6, <2>1 DEF SleeperReturns, Removed
<1>7. ASSUME NEW r \in Reqs, NEW reply \in Replies, PostReportResult(r, reply)
      PROVE  OnceInv'
  <2>1. PICK p \in Reqs :
          /\ p \in pending
          /\ \/ RunCompletions("post", {p}, gate, reply) /\ UNCHANGED phase
             \/ Wake({p}) /\ UNCHANGED <<gate, calls>>
    BY <1>7 DEF PostReportResult, Answers
  <2>2. GateFree /\ pending' = pending
    BY <1>7 DEF PostReportResult, UserCall
  <2>3. CASE RunCompletions("post", {p}, gate, reply) /\ UNCHANGED phase
    <3>1. \A q \in pending : calls[q] = 0 /\ phase[q] # "new"
      BY <1>1, <2>2
    <3>2. gate \in Seq(Frames) /\ Waiting(gate) /\ {p} \in SUBSET Reqs
      BY <1>1, <2>2
    <3>3. \A q \in Reqs : phase[q] = "new" => calls[q] = 0
      BY DEF OnceInv
    <3>4. phase' = phase
      BY <2>3
    <3> QED BY <1>0, <2>1, <2>2, <2>3, <3>1, <3>2, <3>3, <3>4, RunCompletionsOnce
  <2>4. CASE Wake({p}) /\ UNCHANGED <<gate, calls>>
    <3>1. \A q \in Reqs : phase'[q] = "new" => phase[q] = "new"
      BY <2>4 DEF Wake
    <3> QED BY <1>2, <2>2, <2>4, <3>1
  <2> QED BY <2>1, <2>3, <2>4
<1>8. ASSUME SubmitReturns \/ PostReturns PROVE OnceInv'
  <2>1. gate # <<>> /\ gate' = Below /\ UNCHANGED <<calls, pending, phase>>
    BY <1>8 DEF SubmitReturns, PostReturns, InCall
  <2>2. Waiting(gate') /\ gate \in Seq(Frames)
    BY <1>0, <2>1 DEF OnceInv, TypeOK
  <2>3. gate' # <<>> => Top'.op \in {"submit", "posted"}
    BY <1>0, <2>2 DEF Waiting, Top, TypeOK
  <2>4. gate' # <<>> => Waiting(Below')
    BY <1>0, <2>2 DEF Waiting, Below, TypeOK
  <2>5. \A q \in pending : calls[q] = 0
    BY <1>8 DEF OnceInv, BeingCalled, SubmitReturns, PostReturns, InCall, Cleaners
  <2>6. ~HandlerRunning' /\ ~InCall({"expire"})'
    BY <2>3 DEF HandlerRunning, InCall, Cleaners
  <2> QED BY <1>0, <2>1, <2>4, <2>5, <2>6 DEF OnceInv, CompletedAtMostOnce, Waiting
<1>9. ASSUME PostCompletionReturns PROVE OnceInv'
  <2>1. /\ gate # <<>> /\ Top.op = "post"
        /\ SetNextAsyncTimeout(Removed(Top.req), asyncCount, deadline,
                               Push(Below, "posted", Top.req, {}))
        /\ phase' = phase
    BY <1>9 DEF PostCompletionReturns, InCall
  <2>2. Top.req \in Reqs /\ Below \in Seq(Frames) /\ Waiting(Below)
    BY <1>0, <2>1, TopType DEF Frames, OnceInv
  <2>3. /\ Waiting(Push(Below, "posted", Top.req, {}))
        /\ Push(Below, "posted", Top.req, {}) \in Seq(Frames)
    BY <2>2, PushWaiting
  <2>4. \A q \in Removed(Top.req) : calls[q] = 0 /\ phase[q] # "new"
    BY DEF Removed, OnceInv, BeingCalled
  <2>5. Removed(Top.req) \in SUBSET Reqs
    BY <1>0 DEF Removed, TypeOK
  <2>6. \A q \in Reqs : phase[q] = "new" => calls[q] = 0
    BY DEF OnceInv
  <2> QED BY <1>0, <2>1, <2>3, <2>4, <2>5, <2>6, SetNextAsyncTimeoutOnce
<1>10. ASSUME TimerFires PROVE OnceInv'
  <2>1. GateFree /\ SetNextAsyncTimeout(pending, asyncCount, deadline, gate)
    BY <1>10 DEF TimerFires
  <2>2. phase' = phase
    BY <1>10 DEF TimerFires
  <2>3. \A q \in Reqs : phase[q] = "new" => calls[q] = 0
    BY DEF OnceInv
  <2>4. pending \in SUBSET Reqs
    BY <1>0 DEF TypeOK
  <2> QED BY <1>0, <1>1, <2>1, <2>2, <2>3, <2>4, SetNextAsyncTimeoutOnce
<1>11. ASSUME TimeoutCompletionReturns PROVE OnceInv'
  <2>1. /\ gate # <<>> /\ Top.op = "expire"
        /\ RunCompletions("expire", Rest, Below, "timeout")
        /\ UNCHANGED <<phase, pending>>
    BY <1>11 DEF TimeoutCompletionReturns, InCall
  <2>2. Rest \in SUBSET Reqs /\ Below \in Seq(Frames) /\ Waiting(Below)
    BY <1>0, <2>1, TopType DEF Frames, OnceInv, Rest
  <2>3. \A q \in Rest : calls[q] = 0 /\ phase[q] # "new"
    BY <2>1 DEF OnceInv, HandlerRunning, InCall
  <2>4. \A q \in pending : calls[q] = 0 /\ phase[q] # "new"
    BY <2>1 DEF OnceInv, BeingCalled, InCall, Cleaners
  <2>5. Rest \cap pending = {}
    BY <2>1 DEF OnceInv, InCall
  <2>6. \A q \in Reqs : phase[q] = "new" => calls[q] = 0
    BY DEF OnceInv
  <2> QED BY <1>0, <2>1, <2>2, <2>3, <2>4, <2>5, <2>6, RunCompletionsOnce
<1>12. ASSUME NEW c \in Cleaners, NEW registered \in BOOLEAN, GateFree,
              CleanupPendingReports(c, registered)
       PROVE  OnceInv'
  <2>1. /\ RunCompletions(c, pending \cap Async, gate, "aborted")
        /\ pending' = pending /\ Wake(pending)
    BY <1>12 DEF CleanupPendingReports
  <2>2. \A q \in Reqs : phase'[q] = "new" => phase[q] = "new"
    BY <2>1 DEF Wake
  <2>3. \A q \in pending : calls[q] = 0 /\ phase'[q] # "new"
    <3>1. pending \subseteq Reqs
      BY <1>0 DEF TypeOK
    <3> QED BY <1>1, <1>12, <2>2, <3>1
  <2>4. \A q \in Reqs : phase'[q] = "new" => calls[q] = 0
    BY <2>2 DEF OnceInv
  <2>5. pending \cap Async \in SUBSET Reqs
    BY <1>0 DEF TypeOK
  <2>6. c # "expire" /\ c \in {"post", "expire"} \cup Cleaners
    BY DEF Cleaners
  <2>7. gate \in Seq(Frames) /\ Waiting(gate)
    BY <1>1, <1>12
  <2> QED BY <1>0, <2>1, <2>3, <2>4, <2>5, <2>6, <2>7, RunCompletionsOnce
<1>13. ASSUME NEW c \in Cleaners, AbortCompletionReturns(c) PROVE OnceInv'
  <2>1. /\ gate # <<>> /\ Top.op = c
        /\ RunCompletions(c, Rest, Below, "aborted")
        /\ pending' = Removed(Top.req) /\ phase' = phase
    BY <1>13 DEF AbortCompletionReturns, InCall
  <2>2. Rest \in SUBSET Reqs /\ Below \in Seq(Frames) /\ Waiting(Below)
    BY <1>0, <2>1, TopType DEF Frames, OnceInv, Rest
  <2>3. \A q \in Rest : calls[q] = 0 /\ phase[q] # "new"
    BY <2>1 DEF OnceInv, HandlerRunning, InCall
  <2>4. \A q \in pending' : calls[q] = 0 /\ phase[q] # "new"
    BY <2>1 DEF OnceInv, BeingCalled, Removed
  <2>5. \A q \in Reqs : phase[q] = "new" => calls[q] = 0
    BY DEF OnceInv
  <2>6. c # "expire" /\ c \in {"post", "expire"} \cup Cleaners
    BY DEF Cleaners
  <2> QED BY <1>0, <2>1, <2>2, <2>3, <2>4, <2>5, <2>6, RunCompletionsOnce
<1>14. ASSUME ClearPort \/ Stop PROVE OnceInv'
  BY <1>0, <1>12, <1>14 DEF ClearPort, Stop, Cleaners, TypeOK, UserCall
<1>15. ASSUME \/ MapMemory \/ SetPort \/ SetSuspended \/ Terminate \/ Tick
              \/ TakeReport \/ UNCHANGED vars
              \/ \E r \in Reqs : ReleaseToken(r)
              \/ \E c \in Cleaners : CleanerWakes(c)
       PROVE  OnceInv'
  <2>1. UNCHANGED <<phase, pending, gate, calls>>
    BY <1>15 DEF MapMemory, SetPort, SetSuspended, Terminate, Tick, TakeReport,
                 vars, ReleaseToken, CleanerWakes
  <2> QED BY <1>2, <2>1
<1> QED BY <1>3, <1>4, <1>5, <1>6, <1>7, <1>8, <1>9, <1>10, <1>11, <1>13, <1>14,
           <1>15 DEF Next

LEMMA OnceInit == Init => OnceInv
BY TypeInit DEF Init, OnceInv, CompletedAtMostOnce, HandlerRunning, InCall

(* Without completion actions that make requests, none is called twice:    *)
(* not by an answer and a timeout, nor by either and a cleanup.            *)
THEOREM CompletedOnce ==
  ASSUME Reissuers = {}
  PROVE  Spec => []CompletedAtMostOnce
<1>1. OnceInv => CompletedAtMostOnce
  BY DEF OnceInv
<1>2. OnceInv /\ [Next]_vars => OnceInv'
  BY OnceNext
<1> QED BY <1>1, <1>2, OnceInit, PTL DEF Spec

------------------------------------------------------------------------------
(* RequestsAccounted and MemoryKept, whatever completion actions do.       *)
(* While the gate is held both can be broken for a request that a frame of *)
(* the stack still has to deal with; the invariant says which frame.  The  *)
(* order of the frames does not matter for it.                             *)
Handlers == {"post", "expire"} \cup Cleaners

HandlersOn(stack) == {f \in Range(stack) : f.op \in Handlers}
Handlings == HandlersOn(gate)
Of(f) == {f.req} \cup f.left

FramesFit ==
  \A f \in Handlings :
    /\ Of(f) \subseteq Accepted \cap Async
    /\ calls[f.req] > 0
    /\ f.op = "expire" => Of(f) \cap pending = {}

NoneLost ==
  \A r \in Async : phase[r] = "async" =>
    r \in pending \/ calls[r] > 0 \/ \E f \in Handlings : f.op = "expire" /\ r \in f.left

AllTimed ==
  \A r \in pending \cap Async :
    \/ timer # NoTimer /\ timer <= deadline[r]
    \/ \E f \in Handlings : f.op \in Cleaners /\ r \in Of(f)

PortKept == ~port /\ cleaner["port"] = "idle" => pending = {}

BuffersKept ==
  /\ pending \cap Gets \subseteq held
  /\ \A r \in held : r \in pending \/ \E f \in Handlings : f.op = "expire" /\ r \in Of(f)

(* A header is read once, so that its mapping is not released too early.   *)
HeadersKept ==
  /\ OversizedReadable
  /\ \A i, j \in 1..Len(queue) : queue[i] = queue[j] => i = j
  /\ \A i \in 1..Len(queue) : queue[i] \notin taken

AccountInv ==
  /\ TokenInv /\ FramesFit /\ NoneLost /\ AllTimed
  /\ PortKept /\ BuffersKept /\ HeadersKept

(* What is on a stack that a frame was pushed on, or taken off.            *)
LEMMA PushHandlers ==
  ASSUME NEW stack \in Seq(Frames),
         NEW op \in {"submit", "post", "posted", "expire"} \cup Cleaners,
         NEW r \in Reqs, NEW left \in SUBSET Reqs
  PROVE  HandlersOn(Push(stack, op, r, left)) =
           HandlersOn(stack) \cup
             (IF op \in Handlers THEN {[op |-> op, req |-> r, left |-> left]} ELSE {})
<1> DEFINE f == [op |-> op, req |-> r, left |-> left]
<1>1. Push(stack, op, r, left) = Append(stack, f) /\ f.op = op
  BY DEF Push
<1> HIDE DEF f
<1>2. Range(Append(stack, f)) = Range(stack) \cup {f}
  <2>1. /\ DOMAIN stack = 1..Len(stack) /\ Len(stack) \in Nat
        /\ DOMAIN Append(stack, f) = 1..Len(stack) \cup {Len(stack) + 1}
        /\ \A i \in 1..Len(stack) : Append(stack, f)[i] = stack[i]
        /\ Append(stack, f)[Len(stack) + 1] = f
    OBVIOUS
  <2> QED BY <2>1 DEF Range
<1>3. HandlersOn(Append(stack, f)) = HandlersOn(stack) \cup (IF op \in Handlers THEN {f} ELSE {})
  BY <1>1, <1>2 DEF HandlersOn
<1> QED BY <1>1, <1>3 DEF f

LEMMA TopHandlers ==
  ASSUME TypeOK, gate # <<>>
  PROVE  /\ HandlersOn(Below) \subseteq Handlings
         /\ \A f \in Handlings \ HandlersOn(Below) : f = Top
         /\ Top.op \notin Handlers => HandlersOn(Below) = Handlings
         /\ Top.op \in Handlers => Top \in Handlings
<1>1. Range(gate) = Range(Below) \cup {Top}
  <2>1. /\ gate \in Seq(Frames) /\ Len(gate) \in Nat \ {0}
        /\ DOMAIN gate = 1..Len(gate)
    BY DEF TypeOK
  <2>2. /\ DOMAIN Below = 1..(Len(gate) - 1)
        /\ \A i \in 1..(Len(gate) - 1) : Below[i] = gate[i]
    BY <2>1 DEF Below
  <2>3. 1..Len(gate) = 1..(Len(gate) - 1) \cup {Len(gate)}
    BY <2>1
  <2> QED BY <2>1, <2>2, <2>3 DEF Range, Top
<1> QED BY <1>1 DEF Handlings, HandlersOn

(* What a step does to the frames: those of G stay, and the requests of S  *)
(* are now handled by a new one.                                           *)
Started(f, op, S) ==
  f.op = op /\ f.req \in S /\ f.left = S \ {f.req} /\ calls'[f.req] > 0

Steps(G, op, S) ==
  /\ \A q \in Reqs : calls'[q] >= calls[q]
  /\ G \subseteq Handlings /\ G \subseteq Handlings'
  /\ \A f \in Handlings' : f \in G \/ Started(f, op, S)
  /\ \A q \in S : \E f \in Handlings' : Started(f, op, S) /\ q \in Of(f)

LEMMA RunSteps ==
  ASSUME TypeOK, NEW op \in Handlers, NEW S \in SUBSET Reqs, NEW stack \in Seq(Frames), NEW why,
         HandlersOn(stack) \subseteq Handlings, RunCompletions(op, S, stack, why)
  PROVE  Steps(HandlersOn(stack), op, S)
<1>1. CASE S = {}
  <2>1. gate' = stack /\ calls' = calls
    BY <1>1 DEF RunCompletions
  <2> QED BY <1>1, <2>1 DEF Steps, Handlings, TypeOK
<1>2. CASE S # {}
  <2>1. PICK r \in S : /\ gate' = Push(stack, op, r, S \ {r})
                       /\ calls' = [calls EXCEPT ![r] = @ + 1]
    BY <1>2 DEF RunCompletions
  <2> DEFINE f == [op |-> op, req |-> r, left |-> S \ {r}]
  <2>2. Handlings' = HandlersOn(stack) \cup {f}
    <3>1. op \in {"submit", "post", "posted", "expire"} \cup Cleaners
      BY DEF Handlers
    <3>2. HandlersOn(Push(stack, op, r, S \ {r})) = HandlersOn(stack) \cup {f}
      BY <3>1, PushHandlers
    <3> QED BY <2>1, <3>2 DEF Handlings
  <2>3. /\ calls'[r] > 0
        /\ \A q \in Reqs : calls'[q] >= calls[q]
    BY <2>1 DEF TypeOK
  <2>4. Started(f, op, S) /\ Of(f) = S
    BY <2>3 DEF Started, Of
  <2> HIDE DEF f
  <2> QED BY <2>2, <2>3, <2>4 DEF Steps
<1> QED BY <1>1, <1>2

LEMMA NoSteps ==
  ASSUME TypeOK, UNCHANGED calls, Handlings' = Handlings
  PROVE  Steps(Handlings, "post", {})
BY DEF Steps, TypeOK

(* Each part of the invariant, from the steps that the frames have made.   *)
LEMMA FramesFitStep ==
  ASSUME TypeOK, TypeOK', FramesFit,
         NEW G, NEW op \in Handlers, NEW S \in SUBSET (Accepted' \cap Async), Steps(G, op, S),
         Accepted \subseteq Accepted', pending' \cap Accepted \subseteq pending,
         op = "expire" => S \cap pending' = {}
  PROVE  FramesFit'
<1>1. \A f \in Handlings : Of(f) \subseteq Accepted \cap Async /\ f.req \in Of(f)
  BY DEF FramesFit, Of
<1>2. ASSUME NEW f \in G
      PROVE  /\ Of(f) \subseteq Accepted' \cap Async
             /\ calls'[f.req] > 0
             /\ f.op = "expire" => Of(f) \cap pending' = {}
  <2>1. f \in Handlings
    BY <1>2 DEF Steps
  <2>2. f.req \in Reqs /\ calls'[f.req] >= calls[f.req] /\ calls[f.req] > 0
    BY <1>1, <2>1 DEF Steps, FramesFit, Accepted
  <2>3. calls[f.req] \in Nat /\ calls'[f.req] \in Nat
    BY <2>2 DEF TypeOK
  <2> QED BY <1>1, <2>1, <2>2, <2>3 DEF FramesFit
<1>3. ASSUME NEW f, Started(f, op, S)
      PROVE  Of(f) = S /\ calls'[f.req] > 0 /\ f.op = op
  BY <1>3 DEF Started, Of
<1>4. \A f \in Handlings' : f \in G \/ Started(f, op, S)
  BY DEF Steps
<1>5. ASSUME NEW f \in Handlings'
      PROVE  /\ Of(f) \subseteq Accepted' \cap Async
             /\ calls'[f.req] > 0
             /\ f.op = "expire" => Of(f) \cap pending' = {}
  <2>1. CASE f \in G
    BY <1>2, <2>1
  <2>2. CASE Started(f, op, S)
    BY <1>3, <2>2
  <2> QED BY <1>4, <2>1, <2>2
<1> QED BY <1>5 DEF FramesFit, Of

LEMMA NoneLostStep ==
  ASSUME TypeOK, TypeOK', NoneLost,
         NEW G, NEW op \in Handlers, NEW S \in SUBSET Reqs, Steps(G, op, S),
         \A f \in Handlings \ G : f.op = "expire" => op = "expire" /\ f.left \subseteq S,
         \A r \in Async : phase'[r] = "async" =>
           \/ r \in pending' \/ calls[r] > 0
           \/ op = "expire" /\ r \in S
           \/ phase[r] = "async" /\ r \notin pending
  PROVE  NoneLost'
<1> SUFFICES ASSUME NEW r \in Async, phase'[r] = "async", r \notin pending'
             PROVE  calls'[r] > 0 \/ \E f \in Handlings' : f.op = "expire" /\ r \in f.left
  BY DEF NoneLost
<1>0. r \in Reqs /\ calls[r] \in Nat /\ calls'[r] \in Nat /\ calls'[r] >= calls[r]
  BY KindAssumption DEF TypeOK, Steps
<1>1. ASSUME op = "expire", r \in S
      PROVE  calls'[r] > 0 \/ \E f \in Handlings' : f.op = "expire" /\ r \in f.left
  <2>1. PICK f \in Handlings' : Started(f, op, S) /\ r \in Of(f)
    BY <1>1 DEF Steps
  <2> QED BY <1>1, <2>1 DEF Started, Of
<1>2. CASE calls[r] > 0
  BY <1>0, <1>2
<1>3. CASE phase[r] = "async" /\ r \notin pending /\ ~(calls[r] > 0)
  <2>1. PICK f \in Handlings : f.op = "expire" /\ r \in f.left
    BY <1>3 DEF NoneLost
  <2>2. CASE f \in G
    BY <2>1, <2>2 DEF Steps
  <2>3. CASE f \notin G
    BY <1>1, <2>1, <2>3
  <2> QED BY <2>2, <2>3
<1> QED BY <1>1, <1>2, <1>3

LEMMA BuffersKeptStep ==
  ASSUME TypeOK', BuffersKept,
         NEW G, NEW op \in Handlers, NEW S \in SUBSET Reqs, Steps(G, op, S),
         \A f \in Handlings \ G : f.op = "expire" =>
           op = "expire" /\ f.left \subseteq S /\ f.req \notin held',
         pending' \cap Gets \subseteq held',
         \A r \in held' : \/ r \in pending'
                          \/ op = "expire" /\ r \in S
                          \/ r \in held /\ r \notin pending
  PROVE  BuffersKept'
<1> SUFFICES ASSUME NEW r \in held', r \notin pending'
             PROVE  \E f \in Handlings' : f.op = "expire" /\ r \in Of(f)
  BY DEF BuffersKept
<1>1. ASSUME op = "expire", r \in S
      PROVE  \E f \in Handlings' : f.op = "expire" /\ r \in Of(f)
  BY <1>1 DEF Steps, Started
<1>2. CASE r \in held /\ r \notin pending
  <2>1. PICK f \in Handlings : f.op = "expire" /\ r \in Of(f)
    BY <1>2 DEF BuffersKept
  <2>2. CASE f \in G
    BY <2>1, <2>2 DEF Steps
  <2>3. CASE f \notin G
    <3>1. r \in f.left
      BY <2>1, <2>3 DEF Of
    <3> QED BY <1>1, <2>1, <2>3, <3>1
  <2> QED BY <2>2, <2>3
<1> QED BY <1>1, <1>2

LEMMA AllTimedStep ==
  ASSUME AllTimed, NEW G, NEW op \in Handlers, NEW S \in SUBSET Reqs, Steps(G, op, S),
         \A f \in Handlings \ G : f.op \in Cleaners =>
           op \in Cleaners /\ f.left \subseteq S /\ f.req \notin pending',
         \A r \in pending' \cap Async :
           \/ op \in Cleaners /\ r \in S
           \/ r \in pending /\ deadline'[r] = deadline[r] /\ timer' = timer
  PROVE  AllTimed'
<1> SUFFICES ASSUME NEW r \in pending' \cap Async, ~(timer' # NoTimer /\ timer' <= deadline'[r])
             PROVE  \E f \in Handlings' : f.op \in Cleaners /\ r \in Of(f)
  BY DEF AllTimed
<1>1. ASSUME op \in Cleaners, r \in S
      PROVE  \E f \in Handlings' : f.op \in Cleaners /\ r \in Of(f)
  BY <1>1 DEF Steps, Started
<1>2. CASE r \in pending /\ deadline'[r] = deadline[r] /\ timer' = timer
  <2>1. PICK f \in Handlings : f.op \in Cleaners /\ r \in Of(f)
    BY <1>2 DEF AllTimed
  <2>2. CASE f \in G
    BY <2>1, <2>2 DEF Steps
  <2>3. CASE f \notin G
    <3>1. r \in f.left
      BY <2>1, <2>3 DEF Of
    <3> QED BY <1>1, <2>1, <2>3, <3>1
  <2> QED BY <2>2, <2>3
<1> QED BY <1>1, <1>2

(* setNextAsyncTimeout arms the timer for all that stays pending.          *)
LEMMA AllTimedNext ==
  ASSUME TypeOK', NEW pend \in SUBSET Accepted', NEW count, NEW stack,
         NEW dl \in [Reqs -> Nat], dl = deadline',
         SetNextAsyncTimeout(pend, count, dl, stack)
  PROVE  AllTimed'
<1> DEFINE due == Due(pend, dl)
           wait == (pend \cap Async) \ due
<1>1. /\ pending' = pend \ due
      /\ timer' = IF wait = {} THEN NoTimer ELSE Earliest(wait, dl)
  BY DEF SetNextAsyncTimeout
<1>2. wait \in SUBSET Reqs /\ \A r \in wait : dl[r] # 0
  BY DEF Accepted
<1>3. pending' \cap Async = wait
  BY <1>1
<1> HIDE DEF due, wait
<1>4. ASSUME NEW r \in wait
      PROVE  timer' # NoTimer /\ timer' <= dl[r]
  <2>1. /\ Earliest(wait, dl) \in {dl[q] : q \in wait}
        /\ \A q \in wait : Earliest(wait, dl) <= dl[q]
    BY <1>2, <1>4, EarliestIsLeast
  <2> QED BY <1>1, <1>2, <1>4, <2>1 DEF NoTimer
<1> QED BY <1>3, <1>4 DEF AllTimed

LEMMA PortKeptStep ==
  ASSUME PortKept, port' = port, pending' \subseteq pending,
         cleaner'["port"] = "idle" => cleaner["port"] = "idle"
  PROVE  PortKept'
BY DEF PortKept

LEMMA HeadersKeptStep ==
  ASSUME HeadersKept, UNCHANGED <<queue, taken>>, maps \subseteq maps'
  PROVE  HeadersKept'
BY DEF HeadersKept, OversizedReadable

(* Steps that leave the requests and those who handle them alone.          *)
LEMMA RequestsUntouched ==
  ASSUME AccountInv, TypeOK', UNCHANGED <<deadline, held, pending, timer, calls>>,
         Handlings' = Handlings,
         \A r \in Reqs : phase'[r] = "async" => phase[r] = "async"
  PROVE  FramesFit' /\ NoneLost' /\ AllTimed' /\ BuffersKept'
<1>0. TypeOK /\ FramesFit /\ NoneLost /\ AllTimed /\ BuffersKept
  BY DEF AccountInv, TokenInv
<1>1. Steps(Handlings, "post", {}) /\ "post" \in Handlers
  BY <1>0, NoSteps DEF Handlers
<1>2. FramesFit'
  BY <1>0, <1>1, FramesFitStep DEF Accepted
<1>3. NoneLost'
  BY <1>0, <1>1, NoneLostStep, KindAssumption
<1>4. AllTimed'
  BY <1>0, <1>1, AllTimedStep
<1>5. BuffersKept'
  BY <1>0, <1>1, BuffersKeptStep DEF BuffersKept
<1> QED BY <1>2, <1>3, <1>4, <1>5

LEMMA AccountNext == AccountInv /\ [Next]_vars => AccountInv'
<1> USE DEF recordVars, clientVars
<1> SUFFICES ASSUME AccountInv, [Next]_vars PROVE AccountInv'
  OBVIOUS
<1>0. /\ TypeOK /\ TypeOK' /\ TokenInv /\ TokenInv' /\ FramesFit /\ NoneLost
      /\ AllTimed /\ PortKept /\ BuffersKept /\ HeadersKept
  BY TypeNext, TokenNext DEF AccountInv, TokenInv
<1>a. ASSUME FramesFit', NoneLost', AllTimed', PortKept', BuffersKept', HeadersKept'
      PROVE  AccountInv'
  BY <1>0, <1>a DEF AccountInv
<1>b. pending \in SUBSET Reqs /\ pending \subseteq Accepted /\ Accepted \subseteq Reqs
  BY <1>0 DEF TokenInv, Accepted, TypeOK
<1>1. ASSUME NEW r \in Reqs, Refuse(r) PROVE AccountInv'
  <2>1. \A q \in Reqs : phase'[q] = "async" => phase[q] = "async"
    BY <1>0, <1>1 DEF Refuse, TypeOK
  <2>2. UNCHANGED <<deadline, held, pending, timer, calls, gate, port, queue, taken>>
    BY <1>1 DEF Refuse
  <2>3. Handlings' = Handlings
    BY <2>2 DEF Handlings
  <2>4. cleaner'["port"] = "idle" => cleaner["port"] = "idle"
    BY <1>0, <1>1 DEF Refuse, WakeCleaners, TypeOK, Cleaners
  <2>5. maps \subseteq maps'
    BY <1>1 DEF Refuse, NotReady, Mapped
  <2> QED BY <1>0, <1>a, <2>1, <2>2, <2>3, <2>4, <2>5, RequestsUntouched, PortKeptStep, HeadersKeptStep
<1>2. ASSUME NEW r \in Reqs, Submit(r), r \in Async PROVE AccountInv'
  <2> DEFINE pend == pending \cup {r}
             stack == Push(gate, "submit", r, {})
  <2>1. SetNextAsyncTimeout(pend, asyncCount, deadline', stack)
    BY <1>2 DEF Submit
  <2>2. r \notin Accepted /\ Accepted' = Accepted \cup {r}
    <3>1. Timeout[r] \in Nat \ {0} /\ now \in Nat
      BY <1>0, SizeAssumption DEF TypeOK
    <3>2. now + Timeout[r] # 0 /\ deadline' = [deadline EXCEPT ![r] = now + Timeout[r]]
      BY <1>2, <3>1 DEF Submit
    <3>3. r \notin Accepted
      BY <1>0, <1>2 DEF Submit, MayCall, TokenInv
    <3> QED BY <1>0, <3>2, <3>3 DEF Accepted, TypeOK
  <2>3. stack \in Seq(Frames) /\ HandlersOn(stack) = Handlings
    <3>1. "submit" \notin Handlers
      BY DEF Handlers, Cleaners
    <3> QED BY <1>0, <3>1, PushType, PushHandlers DEF Handlings, TypeOK
  <2>4. deadline' \in [Reqs -> Nat]
    BY <1>0 DEF TypeOK
  <2> DEFINE S == Due(pend, deadline')
  <2>5. /\ S \subseteq pend /\ S \subseteq Async /\ S \in SUBSET Reqs
        /\ pending' = pend \ S
        /\ RunCompletions("expire", S, stack, "timeout")
    BY <1>b, <2>1 DEF SetNextAsyncTimeout, Due
  <2> HIDE DEF S, stack
  <2>6. Steps(Handlings, "expire", S) /\ "expire" \in Handlers
    <3>1. "expire" \in Handlers
      BY DEF Handlers
    <3> QED BY <1>0, <2>3, <2>5, <3>1, RunSteps
  <2>7. FramesFit'
    BY <1>0, <1>b, <2>2, <2>5, <2>6, FramesFitStep
  <2>8. NoneLost'
    <3>1. \A q \in Async : phase'[q] = "async" =>
            \/ q \in pending' \/ q \in S
            \/ phase[q] = "async" /\ q \notin pending
      BY <1>0, <1>2, <2>5, KindAssumption DEF Submit, TypeOK
    <3> QED BY <1>0, <2>5, <2>6, <3>1, NoneLostStep
  <2>9. AllTimed'
    <3>1. pend \in SUBSET Accepted'
      BY <1>b, <2>2
    <3> QED BY <1>0, <2>1, <2>4, <3>1, AllTimedNext
  <2>10. PortKept'
    BY <1>2 DEF Submit, PortKept
  <2>11. BuffersKept'
    <3>1. held' = held \cup ({r} \cap Gets)
      BY <1>2 DEF Submit
    <3>2. pending' \cap Gets \subseteq held'
      BY <1>0, <2>5, <3>1 DEF BuffersKept
    <3>3. \A q \in held' : q \in pending' \/ q \in S \/ (q \in held /\ q \notin pending)
      BY <2>5, <3>1
    <3> QED BY <1>0, <2>5, <2>6, <3>2, <3>3, BuffersKeptStep
  <2>12. HeadersKept'
    <3>1. /\ queue' = Append(queue, r) /\ queue \in Seq(Reqs) /\ maps' = Mapped(r) /\ taken' = taken
      BY <1>0, <1>2 DEF Submit, TypeOK
    <3>2. /\ \A i \in 1..Len(queue) : queue[i] # r
          /\ r \notin taken
      BY <1>0, <2>2 DEF TokenInv
    <3> QED BY <1>0, <3>1, <3>2 DEF HeadersKept, OversizedReadable, Mapped
  <2> QED BY <1>a, <2>7, <2>8, <2>9, <2>10, <2>11, <2>12
<1>3. ASSUME NEW r \in Reqs, Submit(r), r \notin Async PROVE AccountInv'
  <2>1. /\ pending' = pending \cup {r} /\ held' = held \cup ({r} \cap Gets)
        /\ UNCHANGED <<timer, gate, calls>>
    BY <1>3 DEF Submit
  <2>2. /\ Accepted \subseteq Accepted' /\ r \notin Accepted
        /\ \A q \in Reqs : q # r => deadline'[q] = deadline[q]
    <3>1. r \notin Accepted
      BY <1>0, <1>3 DEF Submit, MayCall, TokenInv
    <3>2. \A q \in Reqs : q # r => deadline'[q] = deadline[q]
      BY <1>0, <1>3 DEF Submit, TypeOK
    <3> QED BY <3>1, <3>2 DEF Accepted
  <2>3. Steps(Handlings, "post", {}) /\ "post" \in Handlers
    BY <1>0, <2>1, NoSteps DEF Handlers, Handlings
  <2>4. FramesFit'
    BY <1>0, <2>1, <2>2, <2>3, FramesFitStep
  <2>5. NoneLost'
    <3>1. \A q \in Async : phase'[q] = "async" => q \in pending' \/ (phase[q] = "async" /\ q \notin pending)
      BY <1>0, <1>3, <2>1, KindAssumption DEF Submit, TypeOK
    <3> QED BY <1>0, <2>3, <3>1, NoneLostStep
  <2>6. AllTimed'
    <3>1. \A q \in pending' \cap Async : q \in pending /\ deadline'[q] = deadline[q] /\ timer' = timer
      BY <1>3, <1>b, <2>1, <2>2
    <3> QED BY <1>0, <2>3, <3>1, AllTimedStep
  <2>7. PortKept'
    BY <1>3 DEF Submit, PortKept
  <2>8. BuffersKept'
    <3>1. pending' \cap Gets \subseteq held'
      BY <1>0, <2>1 DEF BuffersKept
    <3>2. \A q \in held' : q \in pending' \/ (q \in held /\ q \notin pending)
      BY <2>1
    <3> QED BY <1>0, <2>3, <3>1, <3>2, BuffersKeptStep
  <2>9. HeadersKept'
    <3>1. /\ queue' = Append(queue, r) /\ queue \in Seq(Reqs) /\ maps' = Mapped(r) /\ taken' = taken
      BY <1>0, <1>3 DEF Submit, TypeOK
    <3>2. /\ \A i \in 1..Len(queue) : queue[i] # r
          /\ r \notin taken
      BY <1>0, <2>2 DEF TokenInv
    <3> QED BY <1>0, <3>1, <3>2 DEF HeadersKept, OversizedReadable, Mapped
  <2> QED BY <1>a, <2>4, <2>5, <2>6, <2>7, <2>8, <2>9
<1>4. ASSUME NEW r \in Reqs, SleeperReturns(r) PROVE AccountInv'
  <2>1. /\ pending' = pending \ {r} /\ held' = held \ {r} /\ r \notin pending'
        /\ UNCHANGED <<deadline, timer, gate, calls, queue, taken, maps, port>>
    BY <1>4 DEF SleeperReturns, Removed, Released
  <2>2. \A q \in Reqs : phase'[q] = "async" => phase[q] = "async" /\ q # r
    BY <1>0, <1>4 DEF SleeperReturns, TypeOK
  <2>3. Steps(Handlings, "post", {}) /\ "post" \in Handlers
    BY <1>0, <2>1, NoSteps DEF Handlers, Handlings
  <2>4. FramesFit'
    BY <1>0, <2>1, <2>3, FramesFitStep DEF Accepted
  <2>5. NoneLost'
    <3>1. \A q \in Async : phase'[q] = "async" => q \in pending' \/ (phase[q] = "async" /\ q \notin pending)
      BY <2>1, <2>2, KindAssumption
    <3> QED BY <1>0, <2>3, <3>1, NoneLostStep
  <2>6. AllTimed'
    BY <1>0, <2>1, <2>3, AllTimedStep
  <2>7. PortKept'
    <3>1. cleaner'["port"] = "idle" => cleaner["port"] = "idle"
      BY <1>0, <1>4 DEF SleeperReturns, WakeCleaners, TypeOK, Cleaners
    <3> QED BY <1>0, <2>1, <3>1, PortKeptStep
  <2>8. BuffersKept'
    <3>1. /\ pending' \cap Gets \subseteq held'
          /\ \A q \in held' : q \in pending' \/ (q \in held /\ q \notin pending)
      BY <1>0, <2>1 DEF BuffersKept
    <3> QED BY <1>0, <2>3, <3>1, BuffersKeptStep
  <2>9. HeadersKept'
    BY <1>0, <2>1, HeadersKeptStep
  <2> QED BY <1>a, <2>4, <2>5, <2>6, <2>7, <2>8, <2>9
<1>5. ASSUME \/ MapMemory \/ SetSuspended \/ Terminate \/ Tick \/ UNCHANGED vars
             \/ \E r \in Reqs : SleepTimesOut(r) \/ SleepInterrupted(r)
      PROVE  AccountInv'
  <2>1. \A q \in Reqs : phase'[q] = "async" => phase[q] = "async"
    BY <1>0, <1>5 DEF MapMemory, SetSuspended, Terminate, Tick, vars, SleepTimesOut,
                      SleepInterrupted, StopsWaiting, TypeOK
  <2>2. UNCHANGED <<deadline, held, pending, timer, calls, gate, port, queue, taken, maps, cleaner>>
    BY <1>5 DEF MapMemory, SetSuspended, Terminate, Tick, vars, SleepTimesOut,
                SleepInterrupted, StopsWaiting
  <2>3. Handlings' = Handlings
    BY <2>2 DEF Handlings
  <2> QED BY <1>0, <1>a, <2>1, <2>2, <2>3, RequestsUntouched, PortKeptStep, HeadersKeptStep
<1>6. ASSUME SetPort \/ TakeReport \/ (\E r \in Reqs : ReleaseToken(r))
             \/ (\E c \in Cleaners : CleanerWakes(c))
      PROVE  AccountInv'
  <2>1. UNCHANGED <<phase, deadline, held, pending, timer, calls, gate>>
    BY <1>6 DEF SetPort, TakeReport, ReleaseToken, CleanerWakes
  <2>2. Handlings' = Handlings
    BY <2>1 DEF Handlings
  <2>3. FramesFit' /\ NoneLost' /\ AllTimed' /\ BuffersKept'
    BY <1>0, <2>1, <2>2, RequestsUntouched
  <2>4. PortKept'
    <3>1. CASE SetPort
      BY <3>1 DEF SetPort, PortKept
    <3>2. ASSUME NEW c \in Cleaners, CleanerWakes(c) PROVE PortKept'
      BY <1>0, <3>2 DEF CleanerWakes, CleanupLoop, PortKept, TypeOK, Cleaners
    <3>3. CASE TakeReport \/ \E r \in Reqs : ReleaseToken(r)
      BY <1>0, <3>3, PortKeptStep DEF TakeReport, ReleaseToken
    <3> QED BY <1>6, <3>1, <3>2, <3>3
  <2>5. HeadersKept'
    <3>1. CASE TakeReport
      <4>1. /\ queue \in Seq(Reqs) /\ queue # <<>>
            /\ queue' = Tail(queue) /\ taken' = taken \cup {Head(queue)} /\ maps' = maps
        BY <1>0, <3>1 DEF TakeReport, TypeOK
      <4>2. /\ Len(queue') = Len(queue) - 1 /\ Len(queue) \in Nat \ {0}
            /\ \A i \in 1..Len(queue') : queue'[i] = queue[i + 1] /\ i + 1 \in 1..Len(queue) /\ i + 1 # 1
            /\ Head(queue) = queue[1] /\ 1 \in 1..Len(queue)
        BY <4>1
      <4>3. \A i \in 1..Len(queue') : queue'[i] \notin taken'
        BY <1>0, <4>1, <4>2 DEF HeadersKept
      <4>4. \A i, j \in 1..Len(queue') : queue'[i] = queue'[j] => i = j
        <5>1. ASSUME NEW i \in 1..Len(queue'), NEW j \in 1..Len(queue'), queue'[i] = queue'[j]
              PROVE  i = j
          <6>1. i + 1 = j + 1
            BY <1>0, <4>2, <5>1 DEF HeadersKept
          <6> QED BY <4>2, <6>1
        <5> QED BY <5>1
      <4> QED BY <1>0, <4>1, <4>2, <4>3, <4>4 DEF HeadersKept, OversizedReadable
    <3>2. ASSUME NEW r \in Reqs, ReleaseToken(r) PROVE HeadersKept'
      BY <1>0, <3>2 DEF ReleaseToken, HeadersKept, OversizedReadable
    <3>3. CASE SetPort \/ \E c \in Cleaners : CleanerWakes(c)
      BY <1>0, <3>3, HeadersKeptStep DEF SetPort, CleanerWakes
    <3> QED BY <1>6, <3>1, <3>2, <3>3
  <2> QED BY <1>a, <2>3, <2>4, <2>5
<1>7. ASSUME NEW r \in Reqs, NEW reply \in Replies, PostReportResult(r, reply)
      PROVE  AccountInv'
  <2>1. PICK p \in Reqs :
          /\ p \in pending
          /\ \/ /\ p \in Async
                /\ RunCompletions("post", {p}, gate, reply)
                /\ UNCHANGED phase
             \/ /\ Wake({p})
                /\ UNCHANGED <<gate, calls>>
    BY <1>7 DEF PostReportResult, Answers
  <2>2. UNCHANGED <<deadline, held, pending, timer, port, queue, taken, maps, cleaner>>
    BY <1>7 DEF PostReportResult
  <2>3. PortKept' /\ HeadersKept'
    BY <1>0, <2>2, PortKeptStep, HeadersKeptStep
  <2>4. CASE p \in Async /\ RunCompletions("post", {p}, gate, reply) /\ UNCHANGED phase
    <3>1. Steps(Handlings, "post", {p}) /\ "post" \in Handlers /\ {p} \in SUBSET Reqs
      <4>1. "post" \in Handlers /\ {p} \in SUBSET Reqs /\ gate \in Seq(Frames) /\ HandlersOn(gate) \subseteq Handlings
        BY <1>0 DEF Handlers, Handlings, TypeOK
      <4> QED BY <1>0, <2>4, <4>1, RunSteps DEF Handlings
    <3>2. FramesFit'
      <4>1. Accepted' = Accepted /\ {p} \subseteq Accepted' \cap Async /\ "post" # "expire"
        BY <1>b, <2>1, <2>2, <2>4 DEF Accepted
      <4> QED BY <1>0, <2>2, <3>1, <4>1, FramesFitStep
    <3>3. NoneLost'
      BY <1>0, <2>2, <2>4, <3>1, NoneLostStep
    <3>4. AllTimed'
      BY <1>0, <2>2, <3>1, AllTimedStep
    <3>5. BuffersKept'
      BY <1>0, <2>2, <3>1, BuffersKeptStep DEF BuffersKept
    <3> QED BY <1>a, <2>3, <3>2, <3>3, <3>4, <3>5
  <2>5. CASE Wake({p}) /\ UNCHANGED <<gate, calls>>
    <3>1. \A q \in Reqs : phase'[q] = "async" => phase[q] = "async"
      BY <2>5 DEF Wake
    <3>2. Handlings' = Handlings
      BY <2>5 DEF Handlings
    <3> QED BY <1>0, <1>a, <2>2, <2>3, <2>5, <3>1, <3>2, RequestsUntouched
  <2> QED BY <2>1, <2>4, <2>5
<1>8. ASSUME SubmitReturns \/ PostReturns PROVE AccountInv'
  <2>1. /\ gate # <<>> /\ Top.op \in {"submit", "posted"} /\ gate' = Below
        /\ UNCHANGED <<phase, deadline, held, pending, timer, calls, port, queue, taken, maps, cleaner>>
    BY <1>8 DEF SubmitReturns, PostReturns, InCall
  <2>2. Top.op \notin Handlers
    BY <2>1 DEF Handlers, Cleaners
  <2>3. Handlings' = Handlings
    BY <1>0, <2>1, <2>2, TopHandlers DEF Handlings
  <2> QED BY <1>0, <1>a, <2>1, <2>3, RequestsUntouched, PortKeptStep, HeadersKeptStep
<1>9. ASSUME PostCompletionReturns PROVE AccountInv'
  <2> DEFINE pend == Removed(Top.req)
             stack == Push(Below, "posted", Top.req, {})
             S == Due(pend, deadline)
             G == HandlersOn(Below)
  <2>1. /\ gate # <<>> /\ Top.op = "post" /\ held' = held \ {Top.req}
        /\ SetNextAsyncTimeout(pend, asyncCount, deadline, stack)
        /\ UNCHANGED <<phase, deadline, port, queue, taken, maps, cleaner>>
    BY <1>9 DEF PostCompletionReturns, InCall, Released
  <2>2. /\ Top.req \in Reqs /\ Below \in Seq(Frames) /\ "posted" \notin Handlers
        /\ Top.op \in Handlers /\ "expire" \in Handlers
    BY <1>0, <2>1, TopType DEF Frames, Handlers, Cleaners
  <2>3. stack \in Seq(Frames) /\ HandlersOn(stack) = G
    <3>1. "posted" \in {"submit", "post", "posted", "expire"} \cup Cleaners /\ {} \in SUBSET Reqs
      OBVIOUS
    <3>2. stack \in Seq(Frames)
      BY <2>2, <3>1, PushType
    <3>3. HandlersOn(stack) = HandlersOn(Below) \cup
            (IF "posted" \in Handlers THEN {[op |-> "posted", req |-> Top.req, left |-> {}]} ELSE {})
      BY <2>2, <3>1, PushHandlers
    <3>4. HandlersOn(stack) = G
      BY <2>2, <3>3
    <3> QED BY <3>2, <3>4
  <2>4. /\ G \subseteq Handlings /\ Top \in Handlings
        /\ \A f \in Handlings \ G : f.op = "post"
    BY <1>0, <2>1, <2>2, TopHandlers
  <2>5. /\ pend = pending \ {Top.req} /\ S \subseteq pend /\ S \subseteq Async
        /\ pending' = pend \ S
        /\ RunCompletions("expire", S, stack, "timeout")
    BY <2>1 DEF SetNextAsyncTimeout, Due, Removed
  <2>6. calls[Top.req] > 0 /\ Accepted' = Accepted
    BY <1>0, <2>1, <2>4 DEF FramesFit, Accepted
  <2> HIDE DEF S, stack, G, pend
  <2>7. S \in SUBSET Reqs /\ S \in SUBSET (Accepted' \cap Async) /\ pend \in SUBSET Accepted'
    BY <1>b, <2>5, <2>6
  <2>8. Steps(G, "expire", S)
    BY <1>0, <2>2, <2>3, <2>4, <2>5, <2>7, RunSteps
  <2>9. FramesFit'
    BY <1>0, <2>2, <2>5, <2>6, <2>7, <2>8, FramesFitStep
  <2>10. NoneLost'
    BY <1>0, <2>1, <2>2, <2>4, <2>5, <2>6, <2>7, <2>8, NoneLostStep
  <2>11. AllTimed'
    <3>1. deadline \in [Reqs -> Nat] /\ deadline = deadline'
      BY <1>0, <2>1 DEF TypeOK
    <3> QED BY <1>0, <2>1, <2>7, <3>1, AllTimedNext
  <2>12. BuffersKept'
    <3>1. /\ pending' \cap Gets \subseteq held'
          /\ \A q \in held' : q \in pending' \/ q \in S \/ (q \in held /\ q \notin pending)
      BY <1>0, <2>1, <2>5 DEF BuffersKept
    <3> QED BY <1>0, <2>2, <2>4, <2>7, <2>8, <3>1, BuffersKeptStep
  <2>13. PortKept' /\ HeadersKept'
    BY <1>0, <2>1, <2>5, PortKeptStep, HeadersKeptStep
  <2> QED BY <1>a, <2>9, <2>10, <2>11, <2>12, <2>13
<1>10. ASSUME TimerFires PROVE AccountInv'
  <2> DEFINE S == Due(pending, deadline)
  <2>1. /\ SetNextAsyncTimeout(pending, asyncCount, deadline, gate)
        /\ UNCHANGED <<phase, deadline, held, port, queue, taken, maps, cleaner>>
    BY <1>10 DEF TimerFires
  <2>2. /\ S \subseteq pending /\ S \subseteq Async /\ pending' = pending \ S
        /\ RunCompletions("expire", S, gate, "timeout")
    BY <2>1 DEF SetNextAsyncTimeout, Due
  <2>3. Accepted' = Accepted /\ gate \in Seq(Frames) /\ "expire" \in Handlers
    BY <1>0, <2>1 DEF Accepted, TypeOK, Handlers
  <2> HIDE DEF S
  <2>4. S \in SUBSET Reqs /\ S \in SUBSET (Accepted' \cap Async) /\ pending \in SUBSET Accepted'
    BY <1>b, <2>2, <2>3
  <2>5. Steps(Handlings, "expire", S)
    BY <1>0, <2>2, <2>3, <2>4, RunSteps DEF Handlings
  <2>6. FramesFit'
    BY <1>0, <2>2, <2>3, <2>4, <2>5, FramesFitStep
  <2>7. NoneLost'
    BY <1>0, <2>1, <2>2, <2>3, <2>4, <2>5, NoneLostStep
  <2>8. AllTimed'
    <3>1. deadline \in [Reqs -> Nat] /\ deadline = deadline'
      BY <1>0, <2>1 DEF TypeOK
    <3> QED BY <1>0, <2>1, <2>4, <3>1, AllTimedNext
  <2>9. BuffersKept'
    <3>1. /\ pending' \cap Gets \subseteq held'
          /\ \A q \in held' : q \in pending' \/ q \in S \/ (q \in held /\ q \notin pending)
      BY <1>0, <2>1, <2>2 DEF BuffersKept
    <3> QED BY <1>0, <2>3, <2>4, <2>5, <3>1, BuffersKeptStep
  <2>10. PortKept' /\ HeadersKept'
    BY <1>0, <2>1, <2>2, PortKeptStep, HeadersKeptStep
  <2> QED BY <1>a, <2>6, <2>7, <2>8, <2>9, <2>10
<1>11. ASSUME TimeoutCompletionReturns PROVE AccountInv'
  <2> DEFINE G == HandlersOn(Below)
  <2>1. /\ gate # <<>> /\ Top.op = "expire" /\ held' = held \ {Top.req}
        /\ RunCompletions("expire", Rest, Below, "timeout")
        /\ UNCHANGED <<phase, pending, timer, deadline, port, queue, taken, maps, cleaner>>
    BY <1>11 DEF TimeoutCompletionReturns, InCall, Released
  <2>2. /\ Rest \in SUBSET Reqs /\ Below \in Seq(Frames) /\ "expire" \in Handlers
        /\ Top.op \in Handlers /\ Top.op \notin Cleaners
    BY <1>0, <2>1, TopType DEF Frames, Handlers, Cleaners, Rest
  <2>3. /\ G \subseteq Handlings /\ Top \in Handlings
        /\ \A f \in Handlings \ G : f = Top
    BY <1>0, <2>1, <2>2, TopHandlers
  <2>4. /\ Top.req \notin pending /\ Rest \cap pending = {}
        /\ Rest \subseteq Accepted \cap Async /\ Accepted' = Accepted
    BY <1>0, <2>1, <2>3 DEF FramesFit, Of, Rest, Accepted
  <2>5. \A f \in Handlings \ G : f.op = "expire" /\ f.left = Rest /\ f.req = Top.req
    BY <2>1, <2>3 DEF Rest
  <2> HIDE DEF G
  <2>6. Steps(G, "expire", Rest)
    BY <1>0, <2>1, <2>2, <2>3, RunSteps DEF G
  <2>7. FramesFit'
    BY <1>0, <2>1, <2>2, <2>4, <2>6, FramesFitStep
  <2>8. NoneLost'
    BY <1>0, <2>1, <2>2, <2>5, <2>6, NoneLostStep
  <2>9. AllTimed'
    BY <1>0, <2>1, <2>2, <2>3, <2>6, AllTimedStep
  <2>10. BuffersKept'
    <3>1. /\ pending' \cap Gets \subseteq held'
          /\ \A q \in held' : q \in pending' \/ (q \in held /\ q \notin pending)
      BY <1>0, <2>1, <2>4 DEF BuffersKept
    <3> QED BY <1>0, <2>1, <2>2, <2>5, <2>6, <3>1, BuffersKeptStep
  <2>11. PortKept' /\ HeadersKept'
    BY <1>0, <2>1, PortKeptStep, HeadersKeptStep
  <2> QED BY <1>a, <2>7, <2>8, <2>9, <2>10, <2>11
<1>12. ASSUME NEW c \in Cleaners, NEW registered \in BOOLEAN,
              c = "stop" => registered = port,
              CleanupPendingReports(c, registered)
       PROVE  AccountInv'
  <2> DEFINE S == pending \cap Async
  <2>1. /\ RunCompletions(c, S, gate, "aborted") /\ Wake(pending)
        /\ UNCHANGED <<deadline, held, pending, queue, taken, maps>>
    BY <1>12 DEF CleanupPendingReports
  <2>2. /\ c \in Handlers /\ c # "expire" /\ gate \in Seq(Frames)
        /\ S \in SUBSET Reqs /\ Accepted' = Accepted
    BY <1>0, <1>b, <2>1 DEF Handlers, Cleaners, TypeOK, Accepted
  <2>3. Steps(Handlings, c, S)
    BY <1>0, <2>1, <2>2, RunSteps DEF Handlings
  <2>4. FramesFit'
    BY <1>0, <1>b, <2>1, <2>2, <2>3, FramesFitStep
  <2>5. NoneLost'
    <3>1. \A q \in Async : phase'[q] = "async" => phase[q] = "async"
      BY <2>1, KindAssumption DEF Wake
    <3> QED BY <1>0, <2>1, <2>2, <2>3, <3>1, NoneLostStep
  <2>6. AllTimed'
    BY <1>0, <2>1, <2>2, <2>3, AllTimedStep
  <2>7. BuffersKept'
    BY <1>0, <2>1, <2>2, <2>3, BuffersKeptStep DEF BuffersKept
  <2>8. PortKept'
    BY <1>0, <1>12, SMTT(20) DEF CleanupPendingReports, CleanupLoop, PortKept, TypeOK, Cleaners
  <2>9. HeadersKept'
    BY <1>0, <2>1, HeadersKeptStep
  <2> QED BY <1>a, <2>4, <2>5, <2>6, <2>7, <2>8, <2>9
<1>13. ASSUME NEW c \in Cleaners, AbortCompletionReturns(c) PROVE AccountInv'
  <2> DEFINE G == HandlersOn(Below)
  <2>1. /\ gate # <<>> /\ Top.op = c /\ held' = held \ {Top.req} /\ pending' = pending \ {Top.req}
        /\ RunCompletions(c, Rest, Below, "aborted")
        /\ UNCHANGED <<phase, timer, deadline, queue, taken, maps>>
    BY <1>13 DEF AbortCompletionReturns, InCall, Released, Removed
  <2>2. /\ Rest \in SUBSET Reqs /\ Below \in Seq(Frames) /\ c \in Handlers /\ c # "expire"
    BY <1>0, <2>1, TopType DEF Frames, Handlers, Cleaners, Rest
  <2>3. /\ G \subseteq Handlings /\ Top \in Handlings
        /\ \A f \in Handlings \ G : f = Top
    BY <1>0, <2>1, <2>2, TopHandlers
  <2>4. /\ Rest \subseteq Accepted \cap Async /\ Accepted' = Accepted /\ calls[Top.req] > 0
    BY <1>0, <2>1, <2>3 DEF FramesFit, Of, Rest, Accepted
  <2>5. \A f \in Handlings \ G : f.op = c /\ f.left = Rest /\ f.req = Top.req
    BY <2>1, <2>3 DEF Rest
  <2> HIDE DEF G
  <2>6. Steps(G, c, Rest)
    BY <1>0, <2>1, <2>2, <2>3, RunSteps DEF G
  <2>7. FramesFit'
    BY <1>0, <2>1, <2>2, <2>4, <2>6, FramesFitStep
  <2>8. NoneLost'
    BY <1>0, <2>1, <2>2, <2>4, <2>5, <2>6, NoneLostStep
  <2>9. AllTimed'
    BY <1>0, <2>1, <2>2, <2>5, <2>6, AllTimedStep
  <2>10. BuffersKept'
    <3>1. /\ pending' \cap Gets \subseteq held'
          /\ \A q \in held' : q \in pending' \/ (q \in held /\ q \notin pending)
      BY <1>0, <2>1 DEF BuffersKept
    <3> QED BY <1>0, <2>2, <2>5, <2>6, <3>1, BuffersKeptStep
  <2>11. PortKept'
    <3>1. CASE Rest = {}
      BY <1>0, <1>13, <2>1, <3>1 DEF AbortCompletionReturns, CleanupLoop, PortKept, TypeOK, Cleaners
    <3>2. CASE Rest # {}
      BY <1>0, <1>13, <2>1, <3>2, PortKeptStep DEF AbortCompletionReturns
    <3> QED BY <3>1, <3>2
  <2>12. HeadersKept'
    BY <1>0, <2>1, HeadersKeptStep
  <2> QED BY <1>a, <2>7, <2>8, <2>9, <2>10, <2>11, <2>12
<1>14. ASSUME ClearPort PROVE AccountInv'
  BY <1>12, <1>14 DEF ClearPort, Cleaners
<1>15. ASSUME Stop PROVE AccountInv'
  BY <1>0, <1>12, <1>15 DEF Stop, Cleaners, TypeOK
<1> QED BY <1>1, <1>2, <1>3, <1>4, <1>5, <1>6, <1>7, <1>8, <1>9, <1>10, <1>11, <1>13,
           <1>14, <1>15 DEF Next

LEMMA AccountInit == Init => AccountInv
<1> SUFFICES ASSUME Init PROVE AccountInv
  OBVIOUS
<1>1. Handlings = {} /\ Len(queue) = 0
  BY DEF Init, Handlings, HandlersOn, Range
<1>2. FramesFit /\ NoneLost /\ AllTimed /\ PortKept /\ BuffersKept
  BY <1>1, KindAssumption DEF Init, FramesFit, NoneLost, AllTimed, PortKept, BuffersKept
<1>3. HeadersKept
  BY <1>1 DEF HeadersKept, OversizedReadable
<1> QED BY <1>2, <1>3, TokenInit DEF AccountInv

(* No request drops out of _pending unanswered, the timer covers all that  *)
(* wait, and none waits for a process without a port, for any requests and *)
(* times, and whatever requests completion actions make.                   *)
THEOREM AllAccounted == Spec => []RequestsAccounted
<1>1. AccountInv => RequestsAccounted
  <2>1. GateFree => Handlings = {}
    BY DEF GateFree, Handlings, HandlersOn, Range
  <2> QED BY <2>1 DEF AccountInv, RequestsAccounted, NoLostRequest, NoneLost, TimerCoversDeadlines,
                      AllTimed, NothingPendingWithoutPort, PortKept
<1> QED BY <1>1, AccountInit, AccountNext, PTL DEF Spec

(* The buffer of a get report outlives every answer that can find it, and  *)
(* the mapping of a set report lasts until its header has been read.       *)
THEOREM MemoryHolds == Spec => []MemoryKept
<1>1. AccountInv => MemoryKept
  <2>1. GateFree => Handlings = {}
    BY DEF GateFree, Handlings, HandlersOn, Range
  <2> QED BY <2>1 DEF AccountInv, MemoryKept, BufferRetained, BuffersKept, HeadersKept
<1> QED BY <1>1, AccountInit, AccountNext, PTL DEF Spec

------------------------------------------------------------------------------
(* After stop: nothing is pending, nobody holds the gate, and the process  *)
(* and the threads are refused.  A request of a thread that sleeps, or is  *)
(* about to go on, is pending.                                             *)
Asleep == {"sleeping", "awakened", "timedOut", "interrupted"}

OnlyLowest(stack) ==
  \A i \in 1..Len(stack) : stack[i].op \in Cleaners => i = 1 /\ (stack[i].op = "stop" => inactive)

MayPush(op, stack) == op \in Cleaners => stack = <<>> /\ (op = "stop" => inactive)

StopInv ==
  /\ AccountInv
  /\ \A r \in Reqs : phase[r] \in Asleep => r \in pending \ Async
  /\ cleaner["stop"] # "idle" => inactive
  /\ cleaner["stop"] = "done" => pending = {} /\ gate = <<>>
  /\ OnlyLowest(gate)

(* Cleanup starts when the gate is free, so its frame is the lowest; and   *)
(* stop comes after terminate.                                             *)
LEMMA PushLowest ==
  ASSUME NEW stack \in Seq(Frames), OnlyLowest(stack),
         NEW op, MayPush(op, stack), NEW r, NEW left
  PROVE  OnlyLowest(Push(stack, op, r, left))
<1> DEFINE f == [op |-> op, req |-> r, left |-> left]
<1>1. Push(stack, op, r, left) = Append(stack, f) /\ f.op = op
  BY DEF Push
<1> HIDE DEF f
<1>2. ASSUME NEW i \in 1..Len(Append(stack, f)), Append(stack, f)[i].op \in Cleaners
      PROVE  i = 1 /\ (Append(stack, f)[i].op = "stop" => inactive)
  <2>1. CASE i \in 1..Len(stack)
    BY <1>2, <2>1 DEF OnlyLowest
  <2>2. CASE i = Len(stack) + 1
    <3>1. Append(stack, f)[i] = f
      BY <2>2
    <3>2. stack = <<>> /\ (op = "stop" => inactive)
      BY <1>1, <1>2, <3>1 DEF MayPush
    <3> QED BY <1>1, <2>2, <3>1, <3>2
  <2> QED BY <1>2, <2>1, <2>2
<1> QED BY <1>1, <1>2 DEF OnlyLowest

LEMMA BelowLowest ==
  ASSUME TypeOK, gate # <<>>, OnlyLowest(gate)
  PROVE  OnlyLowest(Below) /\ MayPush(Top.op, Below)
<1>1. gate \in Seq(Frames) /\ Len(gate) \in Nat \ {0}
  BY DEF TypeOK
<1>2. OnlyLowest(Below)
  BY <1>1 DEF OnlyLowest, Below
<1>3. ASSUME Top.op \in Cleaners PROVE Below = <<>> /\ (Top.op = "stop" => inactive)
  <2>1. Len(gate) \in 1..Len(gate) /\ gate[Len(gate)].op \in Cleaners
    BY <1>1, <1>3 DEF Top
  <2>2. Len(gate) = 1 /\ (Top.op = "stop" => inactive)
    BY <2>1 DEF OnlyLowest, Top
  <2>3. Below = <<>>
    BY <1>1, <2>2 DEF Below
  <2> QED BY <2>2, <2>3
<1> QED BY <1>2, <1>3 DEF MayPush

LEMMA RunLowest ==
  ASSUME NEW stack \in Seq(Frames), OnlyLowest(stack),
         NEW op, MayPush(op, stack),
         NEW S, NEW why, RunCompletions(op, S, stack, why)
  PROVE  OnlyLowest(gate')
<1>1. CASE S = {}
  BY <1>1 DEF RunCompletions
<1>2. CASE S # {}
  <2>1. PICK r \in S : gate' = Push(stack, op, r, S \ {r})
    BY <1>2 DEF RunCompletions
  <2> QED BY <2>1, PushLowest
<1> QED BY <1>1, <1>2

SleepersPend == \A r \in Reqs : phase[r] \in Asleep => r \in pending \ Async

LEMMA SleepersPendNext == StopInv /\ [Next]_vars => SleepersPend'
<1> USE DEF recordVars, clientVars
<1> SUFFICES ASSUME StopInv, [Next]_vars PROVE SleepersPend'
  OBVIOUS
<1>0. TypeOK /\ TypeOK' /\ FramesFit /\ SleepersPend
  BY TypeNext DEF StopInv, AccountInv, TokenInv, SleepersPend
<1>1. ASSUME \A r \in Reqs : phase'[r] \in Asleep => phase[r] \in Asleep,
             \A r \in pending : r \in pending' \/ r \in Async \/ phase'[r] \notin Asleep
      PROVE  SleepersPend'
  BY <1>0, <1>1 DEF SleepersPend
<1>2. ASSUME NEW r \in Reqs, Refuse(r) \/ SleeperReturns(r) PROVE SleepersPend'
  <2>1. /\ \A q \in Reqs : q # r => phase'[q] = phase[q]
        /\ phase'[r] = "done"
    BY <1>0, <1>2 DEF Refuse, SleeperReturns, TypeOK
  <2>2. \A q \in pending : q \in pending' \/ q = r
    BY <1>2 DEF Refuse, SleeperReturns, Removed
  <2>3. "done" \notin Asleep
    BY DEF Asleep
  <2> QED BY <1>1, <2>1, <2>2, <2>3
<1>3. ASSUME NEW r \in Reqs, Submit(r) PROVE SleepersPend'
  <2>1. /\ \A q \in Reqs : q # r => phase'[q] = phase[q]
        /\ phase'[r] = IF r \in Async THEN "async" ELSE "sleeping"
    BY <1>0, <1>3 DEF Submit, TypeOK
  <2>2. \A q \in pending \cup {r} : q \in pending' \/ q \in Async
    BY <1>3 DEF Submit, SetNextAsyncTimeout, Due
  <2>3. "async" \notin Asleep
    BY DEF Asleep
  <2> QED BY <1>0, <2>1, <2>2, <2>3 DEF SleepersPend
<1>4. ASSUME NEW r \in Reqs, SleepTimesOut(r) \/ SleepInterrupted(r) PROVE SleepersPend'
  <2>1. /\ phase[r] = "sleeping" /\ pending' = pending
        /\ \A q \in Reqs : q # r => phase'[q] = phase[q]
    BY <1>0, <1>4 DEF SleepTimesOut, SleepInterrupted, StopsWaiting, TypeOK
  <2>2. "sleeping" \in Asleep
    BY DEF Asleep
  <2> QED BY <1>1, <2>1, <2>2
<1>5. ASSUME NEW S, Wake(S), pending' = pending PROVE SleepersPend'
  <2>1. \A q \in Reqs : phase'[q] = phase[q] \/ phase[q] = "sleeping"
    BY <1>5 DEF Wake
  <2>2. "sleeping" \in Asleep
    BY DEF Asleep
  <2> QED BY <1>1, <1>5, <2>1, <2>2
<1>6. ASSUME UNCHANGED <<phase, pending>> PROVE SleepersPend'
  BY <1>1, <1>6
<1>7. ASSUME NEW r \in Reqs, NEW reply \in Replies, PostReportResult(r, reply) PROVE SleepersPend'
  BY <1>5, <1>6, <1>7 DEF PostReportResult
<1>8. ASSUME NEW c \in Cleaners, NEW registered, CleanupPendingReports(c, registered)
      PROVE  SleepersPend'
  BY <1>5, <1>8 DEF CleanupPendingReports
<1>9. ASSUME gate # <<>>, Top.op \in Handlers PROVE Top.req \in Async
  BY <1>0, <1>9, TopHandlers DEF FramesFit, Of
<1>10. ASSUME PostCompletionReturns PROVE SleepersPend'
  <2>1. gate # <<>> /\ Top.op \in Handlers
    BY <1>10 DEF PostCompletionReturns, InCall, Handlers
  <2>2. /\ \A q \in pending : q \in pending' \/ q \in Async
        /\ phase' = phase
    BY <1>9, <1>10, <2>1 DEF PostCompletionReturns, SetNextAsyncTimeout, Due, Removed
  <2> QED BY <1>1, <2>2
<1>11. ASSUME NEW c \in Cleaners, AbortCompletionReturns(c) PROVE SleepersPend'
  <2>1. gate # <<>> /\ Top.op \in Handlers
    BY <1>11 DEF AbortCompletionReturns, InCall, Handlers
  <2>2. /\ \A q \in pending : q \in pending' \/ q \in Async
        /\ phase' = phase
    BY <1>9, <1>11, <2>1 DEF AbortCompletionReturns, Removed
  <2> QED BY <1>1, <2>2
<1>12. ASSUME TimerFires PROVE SleepersPend'
  <2>1. /\ \A q \in pending : q \in pending' \/ q \in Async
        /\ phase' = phase
    BY <1>12 DEF TimerFires, SetNextAsyncTimeout, Due
  <2> QED BY <1>1, <2>1
<1>13. ASSUME ClearPort \/ Stop PROVE SleepersPend'
  BY <1>8, <1>13 DEF ClearPort, Stop, Cleaners
<1> QED BY <1>2, <1>3, <1>4, <1>6, <1>7, <1>10, <1>11, <1>12, <1>13
        DEF Next, SubmitReturns, PostReturns, TimeoutCompletionReturns, MapMemory, SetPort,
            SetSuspended, TakeReport, CleanerWakes, Terminate, Tick, ReleaseToken, vars

LEMMA InactiveStays == [Next]_vars /\ inactive => inactive'
BY DEF Next, Refuse, Submit, SleepTimesOut, SleepInterrupted, StopsWaiting, SleeperReturns,
       ReleaseToken, PostReportResult, SubmitReturns, PostCompletionReturns, PostReturns,
       TimerFires, TimeoutCompletionReturns, MapMemory, SetPort, ClearPort, SetSuspended,
       TakeReport, AbortCompletionReturns, CleanerWakes, Terminate, Stop, Tick, vars,
       CleanupPendingReports, clientVars

LEMMA LowestNext == StopInv /\ [Next]_vars => OnlyLowest(gate)'
<1> USE DEF recordVars, clientVars
<1> SUFFICES ASSUME StopInv, [Next]_vars PROVE OnlyLowest(gate')
  BY InactiveStays DEF OnlyLowest
<1>0. /\ TypeOK /\ gate \in Seq(Frames) /\ OnlyLowest(gate)
      /\ \A op \in {"submit", "post", "posted", "expire"} : \A stack : MayPush(op, stack)
  BY DEF StopInv, AccountInv, TokenInv, TypeOK, Cleaners, MayPush
<1>1. ASSUME UNCHANGED gate PROVE OnlyLowest(gate')
  BY <1>0, <1>1 DEF OnlyLowest
<1>2. ASSUME NEW r \in Reqs, Submit(r) PROVE OnlyLowest(gate')
  <2>1. CASE r \in Async
    <3>1. Push(gate, "submit", r, {}) \in Seq(Frames)
      BY <1>0, PushType
    <3>2. OnlyLowest(Push(gate, "submit", r, {}))
      BY <1>0, PushLowest
    <3>3. \E S : RunCompletions("expire", S, Push(gate, "submit", r, {}), "timeout")
      BY <1>2, <2>1 DEF Submit, SetNextAsyncTimeout
    <3> QED BY <1>0, <3>1, <3>2, <3>3, RunLowest
  <2>2. CASE r \notin Async
    BY <1>1, <1>2, <2>2 DEF Submit
  <2> QED BY <2>1, <2>2
<1>3. ASSUME NEW r \in Reqs, NEW reply \in Replies, PostReportResult(r, reply) PROVE OnlyLowest(gate')
  <2>1. UNCHANGED gate \/ \E p \in Reqs : RunCompletions("post", {p}, gate, reply)
    BY <1>3 DEF PostReportResult
  <2> QED BY <1>0, <1>1, <2>1, RunLowest
<1>4. ASSUME gate # <<>>
      PROVE  /\ Below \in Seq(Frames) /\ Top.req \in Reqs /\ OnlyLowest(Below)
             /\ MayPush(Top.op, Below)
  BY <1>0, <1>4, TopType, BelowLowest DEF Frames
<1>5. ASSUME SubmitReturns \/ PostReturns PROVE OnlyLowest(gate')
  BY <1>4, <1>5 DEF SubmitReturns, PostReturns, InCall
<1>6. ASSUME PostCompletionReturns PROVE OnlyLowest(gate')
  <2>1. gate # <<>>
    BY <1>6 DEF PostCompletionReturns, InCall
  <2>2. Push(Below, "posted", Top.req, {}) \in Seq(Frames)
    BY <1>4, <2>1, PushType
  <2>3. OnlyLowest(Push(Below, "posted", Top.req, {}))
    BY <1>0, <1>4, <2>1, PushLowest
  <2>4. \E S : RunCompletions("expire", S, Push(Below, "posted", Top.req, {}), "timeout")
    BY <1>6 DEF PostCompletionReturns, SetNextAsyncTimeout
  <2> QED BY <1>0, <2>2, <2>3, <2>4, RunLowest
<1>7. ASSUME TimerFires PROVE OnlyLowest(gate')
  <2>1. \E S : RunCompletions("expire", S, gate, "timeout")
    BY <1>7 DEF TimerFires, SetNextAsyncTimeout
  <2> QED BY <1>0, <2>1, RunLowest
<1>8. ASSUME TimeoutCompletionReturns PROVE OnlyLowest(gate')
  <2>1. gate # <<>> /\ RunCompletions("expire", Rest, Below, "timeout")
    BY <1>8 DEF TimeoutCompletionReturns, InCall
  <2> QED BY <1>0, <1>4, <2>1, RunLowest
<1>9. ASSUME NEW c \in Cleaners, NEW registered, GateFree, c = "stop" => inactive,
              CleanupPendingReports(c, registered)
      PROVE  OnlyLowest(gate')
  <2>1. RunCompletions(c, pending \cap Async, gate, "aborted") /\ MayPush(c, gate)
    BY <1>9 DEF CleanupPendingReports, GateFree, MayPush
  <2> QED BY <1>0, <2>1, RunLowest
<1>10. ASSUME NEW c \in Cleaners, AbortCompletionReturns(c) PROVE OnlyLowest(gate')
  <2>1. gate # <<>> /\ Top.op = c /\ RunCompletions(c, Rest, Below, "aborted")
    BY <1>10 DEF AbortCompletionReturns, InCall
  <2> QED BY <1>4, <2>1, RunLowest
<1>11. ASSUME ClearPort \/ Stop PROVE OnlyLowest(gate')
  BY <1>9, <1>11 DEF ClearPort, Stop, UserCall, Cleaners
<1> QED BY <1>1, <1>2, <1>3, <1>5, <1>6, <1>7, <1>8, <1>10, <1>11
        DEF Next, Refuse, SleepTimesOut, SleepInterrupted, StopsWaiting, SleeperReturns, MapMemory,
            SetPort, SetSuspended, TakeReport, CleanerWakes, Terminate, Tick, ReleaseToken, vars

(* Once stop has returned, nothing goes on.                                *)
LEMMA StoppedStaysQuiet ==
  ASSUME StopInv, [Next]_vars, cleaner["stop"] = "done"
  PROVE  UNCHANGED <<calls, gate, pending>> /\ inactive' = TRUE
<1> USE DEF recordVars, clientVars
<1>1. inactive = TRUE /\ pending = {} /\ gate = <<>> /\ TypeOK
  BY DEF StopInv, AccountInv, TokenInv, TypeOK
<1>2. \A r \in Reqs : phase[r] \notin Asleep
  BY <1>1 DEF StopInv
<1>3. \A r \in Reqs : ~Submit(r) /\ ~SleepTimesOut(r) /\ ~SleepInterrupted(r) /\ ~SleeperReturns(r)
  BY <1>1, <1>2 DEF Submit, Open, SleepTimesOut, SleepInterrupted, StopsWaiting, SleeperReturns, Asleep
<1>4. \A r \in Reqs : ~ReleaseToken(r) /\ \A reply \in Replies : ~PostReportResult(r, reply)
  BY <1>1 DEF ReleaseToken, PostReportResult, UserCall
<1>5. ~SubmitReturns /\ ~PostReturns /\ ~PostCompletionReturns /\ ~TimeoutCompletionReturns
      /\ \A c \in Cleaners : ~AbortCompletionReturns(c)
  BY <1>1 DEF SubmitReturns, PostReturns, PostCompletionReturns, TimeoutCompletionReturns,
              AbortCompletionReturns, InCall
<1>6. ~MapMemory /\ ~SetPort /\ ~ClearPort /\ ~SetSuspended /\ ~Terminate /\ ~Stop
  BY <1>1 DEF MapMemory, SetPort, ClearPort, SetSuspended, Terminate, Stop, UserCall
<1>7. ASSUME TimerFires PROVE UNCHANGED <<calls, gate, pending, inactive>>
  <2>1. Due(pending, deadline) = {}
    BY <1>1 DEF Due
  <2> QED BY <1>1, <1>7, <2>1 DEF TimerFires, SetNextAsyncTimeout, RunCompletions
<1>8. \/ \E r \in Reqs : Refuse(r)
      \/ TakeReport \/ (\E c \in Cleaners : CleanerWakes(c)) \/ Tick \/ UNCHANGED vars
      \/ TimerFires
  BY <1>3, <1>4, <1>5, <1>6 DEF Next
<1>9. UNCHANGED <<calls, gate, pending, inactive>>
  BY <1>7, <1>8 DEF Refuse, TakeReport, CleanerWakes, Tick, vars
<1> QED BY <1>1, <1>9

LEMMA StopNext == StopInv /\ [Next]_vars => StopInv'
<1> USE DEF recordVars, clientVars
<1> SUFFICES ASSUME StopInv, [Next]_vars PROVE StopInv'
  OBVIOUS
<1>0. TypeOK /\ AccountInv' /\ SleepersPend' /\ OnlyLowest(gate)'
  BY AccountNext, SleepersPendNext, LowestNext DEF StopInv, AccountInv, TokenInv
<1>1. inactive => inactive'
  BY InactiveStays
<1>2. \/ cleaner'["stop"] = cleaner["stop"]
      \/ cleaner["stop"] = "sleeping" /\ cleaner'["stop"] = "woken"
      \/ Stop
      \/ AbortCompletionReturns("stop")
      \/ CleanerWakes("stop")
  <2>1. ASSUME WakeCleaners
        PROVE  \/ cleaner'["stop"] = cleaner["stop"]
               \/ cleaner["stop"] = "sleeping" /\ cleaner'["stop"] = "woken"
    BY <2>1 DEF WakeCleaners, Cleaners
  <2>2. ASSUME NEW c \in Cleaners, AbortCompletionReturns(c) \/ CleanerWakes(c), c # "stop"
        PROVE  cleaner'["stop"] = cleaner["stop"]
    BY <1>0, <2>2 DEF AbortCompletionReturns, CleanerWakes, CleanupLoop, TypeOK, Cleaners
  <2>3. ASSUME ClearPort PROVE cleaner'["stop"] = cleaner["stop"]
    BY <1>0, <2>3 DEF ClearPort, CleanupPendingReports, CleanupLoop, TypeOK, Cleaners
  <2> QED BY <2>1, <2>2, <2>3
          DEF Next, Refuse, Submit, SleepTimesOut, SleepInterrupted, StopsWaiting, SleeperReturns,
              ReleaseToken, PostReportResult, SubmitReturns, PostCompletionReturns, PostReturns,
              TimerFires, TimeoutCompletionReturns, MapMemory, SetPort, SetSuspended,
              TakeReport, Terminate, Tick, vars
<1>3. ASSUME AbortCompletionReturns("stop")
      PROVE  inactive /\ gate # <<>> /\ Below = <<>> /\ RunCompletions("stop", Rest, Below, "aborted")
  <2>1. gate # <<>> /\ Top.op = "stop" /\ RunCompletions("stop", Rest, Below, "aborted")
    BY <1>3 DEF AbortCompletionReturns, InCall
  <2>2. MayPush("stop", Below)
    BY <1>0, <2>1, BelowLowest DEF StopInv
  <2> QED BY <2>1, <2>2 DEF MayPush, Cleaners
<1>4. cleaner'["stop"] # "idle" => inactive'
  <2>1. CASE Stop
    BY <1>1, <2>1 DEF Stop
  <2>2. CASE AbortCompletionReturns("stop")
    BY <1>1, <1>3, <2>2
  <2>3. CASE CleanerWakes("stop")
    BY <1>1, <2>3 DEF CleanerWakes, StopInv
  <2> QED BY <1>1, <1>2, <2>1, <2>2, <2>3 DEF StopInv
<1>5. ASSUME cleaner'["stop"] = "done" PROVE pending' = {} /\ gate' = <<>>
  <2>1. CASE cleaner["stop"] = "done"
    BY <2>1, StoppedStaysQuiet DEF StopInv
  <2>2. CASE Stop
    <3>1. GateFree /\ CleanupPendingReports("stop", port)
      BY <2>2 DEF Stop
    <3>2. pending \cap Async = {} /\ pending = {}
      BY <1>0, <1>5, <3>1 DEF CleanupPendingReports, CleanupLoop, TypeOK, Cleaners
    <3> QED BY <3>1, <3>2 DEF CleanupPendingReports, RunCompletions, GateFree
  <2>3. CASE AbortCompletionReturns("stop") /\ cleaner["stop"] # "done"
    <3>1. Rest = {} /\ pending' = {}
      BY <1>0, <1>5, <2>3 DEF AbortCompletionReturns, CleanupLoop, TypeOK, Cleaners
    <3> QED BY <1>3, <2>3, <3>1 DEF RunCompletions
  <2>4. CASE CleanerWakes("stop")
    BY <1>0, <1>5, <2>4 DEF CleanerWakes, CleanupLoop, TypeOK, Cleaners, GateFree
  <2> QED BY <1>2, <1>5, <2>1, <2>2, <2>3, <2>4
<1> QED BY <1>0, <1>4, <1>5 DEF StopInv, SleepersPend

(* After stop has returned, no completion action is called, and no thread  *)
(* is asleep in the gate that it has removed or wants that gate back.      *)
THEOREM QuietHolds == Spec => QuietAfterStop
<1>1. Init => StopInv
  <2> SUFFICES ASSUME Init PROVE StopInv
    OBVIOUS
  <2>1. \A r \in Reqs : phase[r] \notin Asleep
    BY DEF Init, Asleep
  <2>2. cleaner["stop"] = "idle" /\ OnlyLowest(gate)
    BY DEF Init, Cleaners, OnlyLowest
  <2> QED BY <2>1, <2>2, AccountInit DEF StopInv
<1>2. StopInv /\ [Next]_vars => StopInv'
  BY StopNext
<1>3. StopInv /\ [Next]_vars =>
        [cleaner["stop"] = "done" => /\ UNCHANGED calls
                                     /\ \A r \in Reqs : phase[r] \in {"new", "async", "done"}]_vars
  <2> SUFFICES ASSUME StopInv, [Next]_vars, cleaner["stop"] = "done"
               PROVE  /\ UNCHANGED calls
                      /\ \A r \in Reqs : phase[r] \in {"new", "async", "done"}
    OBVIOUS
  <2>1. \A r \in Reqs : phase[r] \in Phases /\ phase[r] \notin Asleep
    BY DEF StopInv, AccountInv, TokenInv, TypeOK
  <2> QED BY <2>1, StoppedStaysQuiet DEF Phases, Asleep
<1> QED BY <1>1, <1>2, <1>3, PTL DEF Spec, QuietAfterStop

------------------------------------------------------------------------------
(* What a request was told, when completion actions make no requests.      *)
Endings == {"success", "overrun", "timeout", "aborted", "error"}

ToldInv ==
  /\ OnceInv /\ TokenInv
  /\ \A r \in pending \cap Async : phase[r] = "async"
  /\ HandlerRunning => \A q \in Rest : phase[q] = "async"
  /\ \A r \in Reqs : phase[r] = "new" => result[r] = "none"
  /\ \A r \in Reqs : phase[r] = "async" /\ calls[r] = 0 => result[r] = "none"
  /\ \A r \in Reqs : phase[r] \in Asleep =>
       r \notin Async /\ result[r] = "none" /\ ret[r] \in Endings

(* What a step makes of each call, in the terms of ReportTransactions.     *)
Refusals == {"offline", "notReady", "noMemory"}

Stays(q) == (phase'[q] = "new" <=> phase[q] = "new") /\ result'[q] = result[q]
Begins(q) == phase[q] = "new" /\ phase'[q] # "new" /\ result'[q] = "none"
Declines(q) == phase[q] = "new" /\ phase'[q] # "new" /\ result'[q] \in Refusals
Ends(q) == /\ phase[q] # "new" /\ phase'[q] # "new"
           /\ result[q] = "none" /\ result'[q] \in Endings
           /\ result'[q] = "success" => q \in answered'

Moves ==
  /\ \A q \in Reqs : Stays(q) \/ Begins(q) \/ Declines(q) \/ Ends(q)
  /\ answered \subseteq answered'
  /\ \A q \in answered' \ answered : phase[q] # "new"

(* Some of the requests of S are told why, others what they knew, unless   *)
(* their call returns.                                                     *)
Told(S, why) ==
  \A q \in Reqs : \/ calls'[q] = calls[q] /\ result'[q] = result[q]
                  \/ q \in S /\ calls'[q] > 0 /\ result'[q] = why
                  \/ phase'[q] = "done"

(* A call does not go back, and one that will sleep was never asynchronous. *)
PhasesAdvance ==
  \A q \in Reqs :
    /\ phase'[q] = "new" => phase[q] = "new"
    /\ phase'[q] = "async" => phase[q] \in {"async", "new"}
    /\ phase'[q] \in Asleep =>
         phase[q] \in Asleep \cup {"new"} /\ q \notin Async /\ ret'[q] \in Endings

LEMMA ToldStep ==
  ASSUME ToldInv, OnceInv', TokenInv', NEW S \in SUBSET Reqs, NEW why,
         Told(S, why), PhasesAdvance,
         \A q \in S : phase'[q] = "async",
         \A q \in pending' \cap Async : phase'[q] = "async",
         HandlerRunning' => \A q \in Rest' : phase'[q] = "async"
  PROVE  ToldInv'
<1>0. \A q \in Reqs : calls[q] \in Nat /\ calls'[q] \in Nat
  BY DEF ToldInv, OnceInv, TypeOK
<1>1. \A q \in Reqs : phase'[q] = "new" => result'[q] = "none"
  BY DEF ToldInv, Told, PhasesAdvance
<1>2. \A q \in Reqs : phase'[q] = "async" /\ calls'[q] = 0 => result'[q] = "none"
  BY <1>0 DEF ToldInv, Told, PhasesAdvance, OnceInv
<1>3. \A q \in Reqs : phase'[q] \in Asleep => q \notin Async /\ result'[q] = "none" /\ ret'[q] \in Endings
  <2>1. "async" \notin Asleep /\ "done" \notin Asleep
    BY DEF Asleep
  <2> QED BY <2>1 DEF ToldInv, Told, PhasesAdvance
<1> QED BY <1>1, <1>2, <1>3 DEF ToldInv

(* The step in which requests of S are told by their completion actions.   *)
LEMMA TellStep ==
  ASSUME ToldInv, OnceInv', TokenInv', NEW S \in SUBSET Reqs, NEW why \in Endings,
         NEW op \in {"post", "expire"} \cup Cleaners,
         NEW stack \in Seq(Frames), Waiting(stack), RunCompletions(op, S, stack, why),
         \A q \in S : calls[q] = 0 /\ phase[q] = "async" /\ phase'[q] = "async",
         \A q \in S : why = "success" => q \in answered',
         answered \subseteq answered', \A q \in answered' \ answered : phase[q] # "new",
         \A q \in pending' \cap Async : phase'[q] = "async",
         PhasesAdvance
  PROVE  ToldInv' /\ Moves
<1>0. TypeOK
  BY DEF ToldInv, OnceInv
<1>1. /\ \A q \in Reqs : \/ calls'[q] = calls[q] /\ result'[q] = result[q]
                         \/ q \in S /\ calls'[q] > 0 /\ result'[q] = why
      /\ HandlerRunning' => Rest' \subseteq S
  <2>1. CASE S = {}
    <3>1. gate' = stack /\ UNCHANGED <<calls, result>>
      BY <2>1 DEF RunCompletions
    <3>2. ~HandlerRunning'
      BY <3>1 DEF HandlerRunning, InCall, Waiting, Top, Cleaners
    <3> QED BY <3>1, <3>2
  <2>2. CASE S # {}
    <3>1. PICK r \in S : /\ gate' = Push(stack, op, r, S \ {r})
                         /\ calls' = [calls EXCEPT ![r] = @ + 1]
                         /\ result' = [result EXCEPT ![r] = why]
      BY <2>2 DEF RunCompletions
    <3>2. /\ op \in {"submit", "post", "posted", "expire"} \cup Cleaners
          /\ r \in Reqs /\ S \ {r} \in SUBSET Reqs
      OBVIOUS
    <3>3. Top' = [op |-> op, req |-> r, left |-> S \ {r}]
      BY <3>1, <3>2, PushTop
    <3>4. Rest' = S \ {r}
      BY <3>3 DEF Rest
    <3> QED BY <1>0, <3>1, <3>4 DEF TypeOK
  <2> QED BY <2>1, <2>2
<1>2. ToldInv'
  <2>1. Told(S, why)
    BY <1>1 DEF Told
  <2> QED BY <1>1, <2>1, ToldStep
<1>3. ASSUME NEW q \in Reqs PROVE Stays(q) \/ Begins(q) \/ Ends(q)
  <2>1. CASE q \in S /\ result'[q] = why
    <3>1. result[q] = "none" /\ phase[q] # "new" /\ phase'[q] # "new"
      BY <2>1 DEF ToldInv
    <3> QED BY <2>1, <3>1 DEF Ends
  <2>2. CASE result'[q] = result[q]
    <3>1. CASE phase[q] = "new" /\ phase'[q] # "new"
      BY <2>2, <3>1 DEF ToldInv, Begins
    <3>2. CASE phase'[q] = "new" <=> phase[q] = "new"
      BY <2>2, <3>2 DEF Stays
    <3> QED BY <3>1, <3>2 DEF PhasesAdvance
  <2> QED BY <1>1, <2>1, <2>2
<1> QED BY <1>2, <1>3 DEF Moves

(* A step in which nobody is told anything, and no frame is pushed.        *)
LEMMA SilentStep ==
  ASSUME ToldInv, OnceInv', TokenInv', UNCHANGED <<calls, result, answered>>, PhasesAdvance,
         gate' = gate \/ ~HandlerRunning',
         \A q \in pending' \cap Async : phase'[q] = "async",
         \A q \in Reqs : phase[q] = "async" => phase'[q] = "async"
  PROVE  ToldInv' /\ Moves
<1>1. HandlerRunning' => \A q \in Rest' : phase'[q] = "async"
  <2> SUFFICES ASSUME HandlerRunning', gate' = gate, NEW q \in Rest PROVE phase'[q] = "async"
    BY DEF Rest, Top
  <2>1. HandlerRunning /\ gate # <<>>
    BY DEF HandlerRunning, InCall, Top
  <2>2. q \in Reqs
    BY <2>1, TopType DEF ToldInv, OnceInv, Frames, Rest
  <2> QED BY <2>1, <2>2 DEF ToldInv
<1>2. Told({}, "none")
  BY DEF Told
<1>3. ToldInv'
  BY <1>1, <1>2, ToldStep
<1>4. Moves
  BY DEF Moves, Stays, Begins, PhasesAdvance, ToldInv
<1> QED BY <1>3, <1>4

LEMMA ToldNext ==
  ASSUME Reissuers = {}, ToldInv, [Next]_vars
  PROVE  ToldInv' /\ (Moves \/ UNCHANGED vars)
<1> USE DEF recordVars, clientVars
<1>0. /\ TypeOK /\ TypeOK' /\ OnceInv /\ OnceInv' /\ TokenInv /\ TokenInv'
      /\ pending \subseteq Reqs
  BY OnceNext, TokenNext DEF ToldInv, OnceInv, TypeOK
<1>1. ASSUME GateFree
      PROVE  /\ gate \in Seq(Frames) /\ Waiting(gate)
             /\ \A q \in pending : calls[q] = 0
  BY <1>0, <1>1 DEF GateFree, Waiting, OnceInv, BeingCalled, InCall, TypeOK
<1>2. ASSUME UNCHANGED <<phase, ret>> PROVE PhasesAdvance
  BY <1>2 DEF PhasesAdvance, ToldInv
<1>3. ASSUME UNCHANGED <<phase, ret, answered>>, pending' \subseteq pending,
             NEW S \in SUBSET Reqs, NEW why \in Endings, why # "success",
             NEW op \in {"post", "expire"} \cup Cleaners,
             NEW stack \in Seq(Frames), Waiting(stack), RunCompletions(op, S, stack, why),
             \A q \in S : calls[q] = 0 /\ phase[q] = "async"
      PROVE  ToldInv' /\ Moves
  <2>1. \A q \in pending' \cap Async : phase'[q] = "async"
    BY <1>3 DEF ToldInv
  <2> QED BY <1>0, <1>2, <1>3, <2>1, TellStep
<1>4. ASSUME NEW r \in Reqs, Refuse(r) PROVE ToldInv' /\ Moves
  <2>1. PICK why \in Refusals : result' = [result EXCEPT ![r] = why]
    BY <1>4 DEF Refuse, NotReady, Refusals
  <2>2. /\ phase[r] = "new" /\ phase'[r] = "done"
        /\ \A q \in Reqs : q # r => phase'[q] = phase[q] /\ result'[q] = result[q]
        /\ result'[r] = why
        /\ UNCHANGED <<ret, pending, calls, gate, answered>>
    BY <1>0, <1>4, <2>1 DEF Refuse, MayCall, TypeOK
  <2>3. PhasesAdvance /\ Told({}, "none")
    BY <2>2 DEF PhasesAdvance, Told, ToldInv, Asleep
  <2>4. \A q \in Reqs : phase[q] = "async" => phase'[q] = "async"
    BY <2>2
  <2>5. HandlerRunning' => \A q \in Rest' : phase'[q] = "async"
    <3> SUFFICES ASSUME HandlerRunning', NEW q \in Rest PROVE phase'[q] = "async"
      BY <2>2 DEF Rest, Top
    <3>1. HandlerRunning /\ gate # <<>>
      BY <2>2 DEF HandlerRunning, InCall, Top
    <3>2. q \in Reqs
      BY <1>0, <3>1, TopType DEF Frames, Rest
    <3> QED BY <2>4, <3>1, <3>2 DEF ToldInv
  <2>6. \A q \in pending' \cap Async : phase'[q] = "async"
    BY <1>0, <2>2, <2>4 DEF ToldInv
  <2>7. ToldInv'
    BY <1>0, <2>3, <2>5, <2>6, ToldStep
  <2>8. Moves
    BY <2>1, <2>2 DEF Moves, Stays, Declines
  <2> QED BY <2>7, <2>8
<1>5. ASSUME NEW r \in Reqs, Submit(r) PROVE ToldInv' /\ Moves
  <2>1. GateFree /\ phase[r] = "new" /\ answered' = answered
    BY <1>5 DEF Submit, MayCall
  <2>2. /\ \A q \in Reqs : q # r => phase'[q] = phase[q] /\ ret'[q] = ret[q] /\ deadline'[q] = deadline[q]
        /\ phase'[r] = IF r \in Async THEN "async" ELSE "sleeping"
        /\ ret'[r] = "error"
    BY <1>0, <1>5 DEF Submit, TypeOK
  <2>3. PhasesAdvance
    BY <2>1, <2>2 DEF PhasesAdvance, ToldInv, Endings, Asleep
  <2>4. pending' \subseteq pending \cup {r}
    BY <1>5 DEF Submit, SetNextAsyncTimeout
  <2>5. \A q \in pending' \cap Async : phase'[q] = "async"
    BY <1>0, <2>2, <2>4 DEF ToldInv
  <2>6. CASE r \in Async
    <3> DEFINE S == Due(pending \cup {r}, deadline')
    <3>1. RunCompletions("expire", S, Push(gate, "submit", r, {}), "timeout")
      BY <1>5, <2>6 DEF Submit, SetNextAsyncTimeout
    <3>2. /\ Waiting(Push(gate, "submit", r, {}))
          /\ Push(gate, "submit", r, {}) \in Seq(Frames)
      BY <1>1, <2>1, PushWaiting
    <3>3. r \notin S
      <4>1. deadline'[r] = now + Timeout[r] /\ now \in Nat /\ Timeout[r] \in Nat \ {0}
        BY <1>0, <1>5, SizeAssumption DEF Submit, TypeOK
      <4> QED BY <4>1 DEF Due
    <3>4. S \subseteq pending /\ S \subseteq Async
      BY <3>3 DEF Due
    <3> HIDE DEF S
    <3>5. \A q \in S : calls[q] = 0 /\ phase[q] = "async" /\ phase'[q] = "async"
      BY <1>0, <1>1, <2>1, <2>2, <3>3, <3>4 DEF ToldInv
    <3>6. "timeout" \in Endings /\ S \in SUBSET Reqs
      BY <1>0, <3>4 DEF Endings
    <3> QED BY <1>0, <2>1, <2>3, <2>5, <3>1, <3>2, <3>5, <3>6, TellStep
  <2>7. CASE r \notin Async
    <3>1. UNCHANGED <<gate, calls, result>>
      BY <1>5, <2>7 DEF Submit
    <3>2. \A q \in Reqs : phase[q] = "async" => phase'[q] = "async"
      BY <2>1, <2>2
    <3> QED BY <1>0, <2>1, <2>3, <2>5, <3>1, <3>2, SilentStep
  <2> QED BY <2>6, <2>7
<1>6. ASSUME NEW r \in Reqs, SleepTimesOut(r) \/ SleepInterrupted(r) PROVE ToldInv' /\ Moves
  <2>1. /\ phase[r] = "sleeping" /\ phase'[r] \in {"timedOut", "interrupted"}
        /\ \A q \in Reqs : q # r => phase'[q] = phase[q]
        /\ UNCHANGED <<ret, pending, calls, result, gate, answered>>
    BY <1>0, <1>6 DEF SleepTimesOut, SleepInterrupted, StopsWaiting, TypeOK
  <2>2. PhasesAdvance
    BY <2>1 DEF PhasesAdvance, ToldInv, Asleep
  <2>3. /\ \A q \in Reqs : phase[q] = "async" => phase'[q] = "async"
        /\ \A q \in pending' \cap Async : phase'[q] = "async"
    BY <1>0, <2>1 DEF ToldInv
  <2> QED BY <1>0, <2>1, <2>2, <2>3, SilentStep
<1>7. ASSUME NEW r \in Reqs, SleeperReturns(r) PROVE ToldInv' /\ Moves
  <2>1. /\ gate = <<>> /\ phase[r] \in {"awakened", "timedOut", "interrupted"} /\ phase'[r] = "done"
        /\ \A q \in Reqs : q # r => phase'[q] = phase[q] /\ result'[q] = result[q]
        /\ result'[r] = WaitResult(r) /\ pending' \subseteq pending
        /\ UNCHANGED <<ret, calls, gate, answered>>
    BY <1>0, <1>7 DEF SleeperReturns, TypeOK, GateFree, Removed
  <2>2. PhasesAdvance /\ Told({}, "none")
    BY <2>1 DEF PhasesAdvance, Told, ToldInv, Asleep
  <2>3. \A q \in pending' \cap Async : phase'[q] = "async"
    BY <1>0, <2>1 DEF ToldInv
  <2>4. ToldInv'
    BY <1>0, <2>1, <2>2, <2>3, ToldStep DEF HandlerRunning, InCall
  <2>5. Ends(r)
    <3>1. phase[r] \in Asleep
      BY <2>1 DEF Asleep
    <3>2. result[r] = "none" /\ ret[r] \in Endings
      BY <3>1 DEF ToldInv
    <3>3. WaitResult(r) \in Endings /\ (WaitResult(r) = "success" => r \in answered)
      BY <1>0, <3>2 DEF WaitResult, Endings, TokenInv
    <3> QED BY <2>1, <3>2, <3>3 DEF Ends
  <2>6. Moves
    BY <2>1, <2>5 DEF Moves, Stays
  <2> QED BY <2>4, <2>6
<1>8. ASSUME NEW r \in Reqs, NEW reply \in Replies, PostReportResult(r, reply)
      PROVE  ToldInv' /\ Moves
  <2>1. PICK p \in Reqs :
          /\ Answers(r, p)
          /\ ret' = [ret EXCEPT ![p] = reply]
          /\ \/ /\ p \in Async
                /\ RunCompletions("post", {p}, gate, reply)
                /\ UNCHANGED phase
             \/ /\ Wake({p})
                /\ UNCHANGED <<gate, calls, result>>
    BY <1>8 DEF PostReportResult
  <2>2. /\ GateFree /\ pending' = pending /\ p \in pending /\ p = r
        /\ answered' = IF reply = "success" THEN answered \cup {r} ELSE answered
        /\ phase[r] # "new" /\ reply \in Endings
    BY <1>0, <1>8, <2>1 DEF PostReportResult, UserCall, Answers, TokenInv, Replies, Endings
  <2>3. \A q \in Reqs : ret'[q] \in Endings \/ ret'[q] = ret[q]
    BY <1>0, <2>1, <2>2 DEF TypeOK
  <2>4. CASE p \in Async /\ RunCompletions("post", {p}, gate, reply) /\ UNCHANGED phase
    <3>1. PhasesAdvance
      BY <2>3, <2>4 DEF PhasesAdvance, ToldInv
    <3>2. /\ \A q \in {p} : calls[q] = 0 /\ phase[q] = "async" /\ phase'[q] = "async"
          /\ \A q \in pending' \cap Async : phase'[q] = "async"
      BY <1>0, <1>1, <2>2, <2>4 DEF ToldInv
    <3>3. gate \in Seq(Frames) /\ Waiting(gate) /\ {p} \in SUBSET Reqs
      BY <1>1, <2>2
    <3>4. /\ \A q \in {p} : reply = "success" => q \in answered'
          /\ answered \subseteq answered' /\ \A q \in answered' \ answered : phase[q] # "new"
      BY <2>2
    <3> HIDE DEF PhasesAdvance
    <3> QED BY <1>0, <2>2, <2>4, <3>1, <3>2, <3>3, <3>4, TellStep
  <2>5. CASE Wake({p}) /\ UNCHANGED <<gate, calls, result>>
    <3>1. \A q \in Reqs : \/ phase'[q] = phase[q]
                          \/ phase[q] \in Asleep /\ phase'[q] = "awakened"
      <4>1. \A q \in Reqs : phase'[q] = phase[q] \/ (phase[q] = "sleeping" /\ phase'[q] = "awakened")
        BY <2>5 DEF Wake
      <4> QED BY <4>1 DEF Asleep
    <3>2. PhasesAdvance
      BY <2>3, <3>1 DEF PhasesAdvance, ToldInv
    <3>3. /\ \A q \in Reqs : phase[q] = "async" => phase'[q] = "async"
          /\ \A q \in pending' \cap Async : phase'[q] = "async"
      BY <1>0, <2>2, <3>1 DEF ToldInv, Asleep
    <3>4. Told({}, "none")
      BY <2>5 DEF Told
    <3>5. ~HandlerRunning'
      BY <2>2, <2>5 DEF HandlerRunning, InCall, GateFree
    <3>6. ToldInv'
      BY <1>0, <3>2, <3>3, <3>4, <3>5, ToldStep
    <3>7. Moves
      BY <2>2, <2>5, <3>1 DEF Moves, Stays, Asleep
    <3> QED BY <3>6, <3>7
  <2> QED BY <2>1, <2>4, <2>5
<1>9. ASSUME SubmitReturns \/ PostReturns PROVE ToldInv' /\ Moves
  <2>1. /\ gate # <<>> /\ gate' = Below
        /\ UNCHANGED <<phase, ret, pending, calls, result, answered>>
    BY <1>9 DEF SubmitReturns, PostReturns, InCall
  <2>2. ~HandlerRunning'
    <3>1. Waiting(gate') /\ gate' \in Seq(Frames)
      BY <1>0, <2>1, TopType DEF OnceInv
    <3>2. gate' # <<>> => Top'.op \in {"submit", "posted"}
      BY <3>1 DEF Waiting, Top
    <3> QED BY <3>2 DEF HandlerRunning, InCall, Cleaners
  <2>3. \A q \in pending' \cap Async : phase'[q] = "async"
    BY <2>1 DEF ToldInv
  <2> QED BY <1>0, <1>2, <2>1, <2>2, <2>3, SilentStep
<1>10. ASSUME PostCompletionReturns PROVE ToldInv' /\ Moves
  <2> DEFINE S == Due(Removed(Top.req), deadline)
  <2>1. /\ gate # <<>> /\ Top.op = "post"
        /\ SetNextAsyncTimeout(Removed(Top.req), asyncCount, deadline,
                               Push(Below, "posted", Top.req, {}))
        /\ UNCHANGED <<phase, ret, answered>>
    BY <1>10 DEF PostCompletionReturns, InCall
  <2>2. Top.req \in Reqs /\ Below \in Seq(Frames) /\ Waiting(Below)
    BY <1>0, <2>1, TopType DEF Frames, OnceInv
  <2>3. /\ Waiting(Push(Below, "posted", Top.req, {}))
        /\ Push(Below, "posted", Top.req, {}) \in Seq(Frames)
    BY <2>2, PushWaiting
  <2>4. /\ S \subseteq pending \ {Top.req} /\ S \subseteq Async /\ pending' \subseteq pending
        /\ RunCompletions("expire", S, Push(Below, "posted", Top.req, {}), "timeout")
    BY <2>1 DEF SetNextAsyncTimeout, Due, Removed
  <2> HIDE DEF S
  <2>5. \A q \in S : calls[q] = 0 /\ phase[q] = "async"
    BY <1>0, <2>4 DEF ToldInv, OnceInv, BeingCalled
  <2>6. S \in SUBSET Reqs /\ "timeout" \in Endings
    BY <1>0, <2>4 DEF Endings
  <2> QED BY <1>3, <2>1, <2>3, <2>4, <2>5, <2>6
<1>11. ASSUME TimerFires PROVE ToldInv' /\ Moves
  <2> DEFINE S == Due(pending, deadline)
  <2>1. /\ GateFree /\ UNCHANGED <<phase, ret, answered>>
        /\ RunCompletions("expire", S, gate, "timeout") /\ pending' \subseteq pending
        /\ S \subseteq pending /\ S \subseteq Async
    BY <1>11 DEF TimerFires, SetNextAsyncTimeout, Due
  <2> HIDE DEF S
  <2>2. \A q \in S : calls[q] = 0 /\ phase[q] = "async"
    BY <1>0, <1>1, <2>1 DEF ToldInv
  <2>3. S \in SUBSET Reqs /\ "timeout" \in Endings
    BY <1>0, <2>1 DEF Endings
  <2> QED BY <1>1, <1>3, <2>1, <2>2, <2>3
<1>12. ASSUME TimeoutCompletionReturns PROVE ToldInv' /\ Moves
  <2>1. /\ gate # <<>> /\ Top.op = "expire"
        /\ RunCompletions("expire", Rest, Below, "timeout")
        /\ UNCHANGED <<phase, ret, answered, pending>>
    BY <1>12 DEF TimeoutCompletionReturns, InCall
  <2>2. Rest \in SUBSET Reqs /\ Below \in Seq(Frames) /\ Waiting(Below) /\ "timeout" \in Endings
    BY <1>0, <2>1, TopType DEF Frames, OnceInv, Rest, Endings
  <2>3. \A q \in Rest : calls[q] = 0 /\ phase[q] = "async"
    BY <1>0, <2>1 DEF ToldInv, OnceInv, HandlerRunning, InCall
  <2> QED BY <1>3, <2>1, <2>2, <2>3
<1>13. ASSUME NEW c \in Cleaners, NEW registered, GateFree, CleanupPendingReports(c, registered)
       PROVE  ToldInv' /\ Moves
  <2> DEFINE S == pending \cap Async
  <2>1. /\ RunCompletions(c, S, gate, "aborted") /\ Wake(pending)
        /\ ret' = [q \in Reqs |-> IF q \in pending THEN "aborted" ELSE ret[q]]
        /\ UNCHANGED <<pending, answered>>
    BY <1>13 DEF CleanupPendingReports
  <2>2. \A q \in Reqs : \/ phase'[q] = phase[q]
                        \/ phase[q] \in Asleep /\ phase'[q] = "awakened"
    <3>1. \A q \in Reqs : phase'[q] = phase[q] \/ (phase[q] = "sleeping" /\ phase'[q] = "awakened")
      BY <2>1 DEF Wake
    <3> QED BY <3>1 DEF Asleep
  <2>3. PhasesAdvance
    <3>1. \A q \in Reqs : ret'[q] = ret[q] \/ ret'[q] \in Endings
      BY <2>1 DEF Endings
    <3> QED BY <2>2, <3>1 DEF PhasesAdvance, ToldInv
  <2>4. /\ \A q \in S : calls[q] = 0 /\ phase[q] = "async" /\ phase'[q] = "async"
        /\ \A q \in pending' \cap Async : phase'[q] = "async"
    BY <1>0, <1>1, <1>13, <2>1, <2>2 DEF ToldInv, Asleep
  <2>5. S \in SUBSET Reqs /\ "aborted" \in Endings /\ c \in {"post", "expire"} \cup Cleaners
    BY <1>0 DEF Endings
  <2> HIDE DEF S
  <2> QED BY <1>0, <1>1, <1>13, <2>1, <2>3, <2>4, <2>5, TellStep
<1>14. ASSUME NEW c \in Cleaners, AbortCompletionReturns(c) PROVE ToldInv' /\ Moves
  <2>1. /\ gate # <<>> /\ Top.op = c
        /\ RunCompletions(c, Rest, Below, "aborted")
        /\ UNCHANGED <<phase, ret, answered>> /\ pending' \subseteq pending
    BY <1>14 DEF AbortCompletionReturns, InCall, Removed
  <2>2. Rest \in SUBSET Reqs /\ Below \in Seq(Frames) /\ Waiting(Below) /\ "aborted" \in Endings
    BY <1>0, <2>1, TopType DEF Frames, OnceInv, Rest, Endings
  <2>3. \A q \in Rest : calls[q] = 0 /\ phase[q] = "async"
    BY <1>0, <2>1 DEF ToldInv, OnceInv, HandlerRunning, InCall
  <2> QED BY <1>3, <2>1, <2>2, <2>3
<1>15. ASSUME ClearPort \/ Stop PROVE ToldInv' /\ Moves
  BY <1>13, <1>15 DEF ClearPort, Stop, UserCall, Cleaners
<1>16. ASSUME \/ MapMemory \/ SetPort \/ SetSuspended \/ Terminate \/ Tick \/ TakeReport
              \/ \E r \in Reqs : ReleaseToken(r)
              \/ \E c \in Cleaners : CleanerWakes(c)
       PROVE  ToldInv' /\ Moves
  <2>1. UNCHANGED <<phase, ret, pending, calls, result, gate, answered>>
    BY <1>16 DEF MapMemory, SetPort, SetSuspended, Terminate, Tick, TakeReport, ReleaseToken,
                 CleanerWakes
  <2>2. \A q \in pending' \cap Async : phase'[q] = "async"
    BY <2>1 DEF ToldInv
  <2> QED BY <1>0, <1>2, <2>1, <2>2, SilentStep
<1>17. ASSUME UNCHANGED vars PROVE ToldInv'
  <2>1. UNCHANGED <<phase, ret, pending, calls, result, gate, answered>>
    BY <1>17 DEF vars
  <2>2. \A q \in pending' \cap Async : phase'[q] = "async"
    BY <2>1 DEF ToldInv
  <2> QED BY <1>0, <1>2, <2>1, <2>2, SilentStep
<1> QED BY <1>4, <1>5, <1>6, <1>7, <1>8, <1>9, <1>10, <1>11, <1>12, <1>14, <1>15, <1>16, <1>17
        DEF Next

LEMMA ToldInit == Init => ToldInv
<1> SUFFICES ASSUME Init PROVE ToldInv
  OBVIOUS
<1>1. \A r \in Reqs : phase[r] \notin Asleep
  BY DEF Init, Asleep
<1>2. gate = <<>> /\ pending = {}
  BY DEF Init
<1> QED BY <1>1, <1>2, OnceInit, TokenInit DEF Init, ToldInv, HandlerRunning, InCall

(* A step that moves each call is a step of the transactions.              *)
LEMMA MovesAreTransactions ==
  ASSUME ToldInv, ToldInv', Moves
  PROVE  Transactions!TxNext
<1> DEFINE state == [r \in Reqs |-> IF phase[r] = "new" THEN "new"
                                    ELSE IF result[r] = "none" THEN "open" ELSE "closed"]
<1>1. Transactions!Answer
  <2>1. answered \subseteq Reqs /\ answered' \subseteq Reqs
    BY DEF ToldInv, OnceInv, TypeOK
  <2> QED BY <2>1 DEF Moves, Transactions!Answer
<1>2. ASSUME NEW q \in Reqs
      PROVE  \/ Transactions!Still(q) \/ Transactions!Begin(q)
             \/ Transactions!Decline(q) \/ Transactions!End(q)
  <2>1. CASE Stays(q)
    BY <2>1 DEF Stays, Transactions!Still
  <2>2. CASE Begins(q)
    BY <2>2 DEF Begins, Transactions!Begin, Transactions!Step
  <2>3. CASE Declines(q)
    BY <2>3 DEF Declines, Refusals, Transactions!Decline, Transactions!Step
  <2>4. CASE Ends(q)
    BY <2>4 DEF Ends, Endings, Transactions!End, Transactions!Step
  <2> QED BY <2>1, <2>2, <2>3, <2>4 DEF Moves
<1> QED BY <1>1, <1>2 DEF Transactions!TxNext

(* Without completion actions that make requests, the exchange implements  *)
(* ReportTransactions: each call is refused, or is open until it ends with *)
(* one outcome, and success is the process's own word.                     *)
THEOREM Refines ==
  ASSUME Reissuers = {}
  PROVE  Spec => RefinesTransactions
<1>1. Init => Transactions!TxInit
  BY DEF Init, Transactions!TxInit
<1>2. ToldInv /\ [Next]_vars => ToldInv' /\ [Transactions!TxNext]_(Transactions!txVars)
  <2> SUFFICES ASSUME ToldInv, [Next]_vars
               PROVE  ToldInv' /\ [Transactions!TxNext]_(Transactions!txVars)
    OBVIOUS
  <2>1. ToldInv' /\ (Moves \/ UNCHANGED vars)
    BY ToldNext
  <2>2. CASE Moves
    BY <2>1, <2>2, MovesAreTransactions
  <2>3. CASE UNCHANGED vars
    BY <2>1, <2>3 DEF vars, Transactions!txVars
  <2> QED BY <2>1, <2>2, <2>3
<1> QED BY <1>1, <1>2, ToldInit, PTL DEF Spec, RefinesTransactions, Transactions!TxSpec

==============================================================================
