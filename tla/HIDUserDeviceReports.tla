------------------------- MODULE HIDUserDeviceReports -------------------------
(***************************************************************************)
(* The exchange of get and set reports between the kernel and the process  *)
(* that implements a virtual HID device (IOHIDResourceDeviceUserClient).   *)
(*                                                                         *)
(* A kernel thread that wants a report puts a record of its request in     *)
(* _pending, writes a header with the request's token into a queue shared  *)
(* with the process, and either sleeps on the record (a synchronous        *)
(* request) or leaves a completion action in it (an asynchronous one).     *)
(* The process reads the header and posts its answer under the token.      *)
(* Requests end by an answer, by a timeout, by an interrupted sleep, or by *)
(* cleanupPendingReports, when the process clears its notification port or *)
(* the user client stops.                                                  *)
(*                                                                         *)
(* Every entry point runs inside one command gate.  The gate is recursive, *)
(* and completion actions are called while it is held: `gate' is the stack *)
(* of calls in progress on the thread that holds it, one frame for each    *)
(* function that is waiting for a completion action or for                 *)
(* setNextAsyncTimeout to return.  gate = <<>> means nobody holds it.      *)
(***************************************************************************)
EXTENDS Integers, Sequences, FiniteSets

CONSTANTS
  Reqs,          \* the calls of getReport and setReport, each made once
  Async,         \* those with a completion action
  Gets,          \* those of getReport; the rest are of setReport
  Oversized,     \* set reports over kMaxQueueReportSize, sent by mapping
  Reissuers,     \* those whose completion action may make async requests
  Timeout,       \* [Reqs -> ticks], the timeout each request ends up with
  QueueSize,     \* headers the shared queue has room for
  MaxTime        \* BOUND: the clock stops here

ASSUME KindAssumption ==
  /\ IsFiniteSet(Reqs)
  /\ Async \subseteq Reqs
  /\ Gets \subseteq Reqs
  /\ Oversized \subseteq Reqs \ Gets
  /\ Reissuers \subseteq Async
ASSUME SizeAssumption ==
  /\ QueueSize \in Nat
  /\ MaxTime \in Nat
  /\ Timeout \in [Reqs -> Nat \ {0}]

Cleaners == {"port", "stop"}   \* the two callers of cleanupPendingReports
NoTimer == 0                   \* deadlines are at least 1
Replies == {"success", "overrun"}
Results == {"none", "success", "overrun", "timeout", "aborted", "error",
            "offline", "notReady", "noMemory"}

VARIABLES
  phase,       \* where each call is: see Phases
  token,       \* the token in each request's record
  deadline,    \* the deadline in each request's record
  ret,         \* the ret field of each request's record
  held,        \* requests whose report descriptor is retained
  pending,     \* _pending
  timer,       \* the deadline _asyncReportTimer is armed for, or NoTimer
  asyncCount,  \* _outstandingAsyncCount
  nextToken,   \* _tokenIndex
  mapped,      \* the process has mapped the queue (_queue exists)
  port,        \* _port is set
  suspended,   \* _suspended
  inactive,    \* isInactive()
  maps,        \* _overSizedReports: set reports whose mapping exists
  cleaner,     \* how far each caller of cleanupPendingReports is
  gate,        \* the calls in progress under the command gate
  queue,       \* the headers in the shared queue
  taken,       \* requests whose header the process has read
  answered,    \* requests the process has answered with success
  result,      \* what the caller or the completion action was told
  calls,       \* how often each completion action was called
  now          \* mach_absolute_time()

recordVars == <<token, deadline, ret, held>>
clientVars == <<mapped, port, suspended, inactive, maps>>
vars == <<phase, recordVars, pending, timer, asyncCount, nextToken,
          clientVars, cleaner, gate, queue, taken, answered, result, calls, now>>

Phases == {"new",                                    \* not made yet
           "sleeping",                               \* asleep in commandSleep
           "awakened", "timedOut", "interrupted",    \* wants the gate back
           "async",                                  \* accepted, returned
           "done"}                                   \* returned with a result
Frames == [op: {"submit", "post", "posted", "expire"} \cup Cleaners,
           req: Reqs, left: SUBSET Reqs]

TypeOK ==
  /\ phase \in [Reqs -> Phases]
  /\ token \in [Reqs -> Nat]
  /\ deadline \in [Reqs -> Nat]
  /\ ret \in [Reqs -> Results]
  /\ held \subseteq Reqs
  /\ pending \subseteq Reqs
  /\ timer \in Nat
  /\ asyncCount \in Int
  /\ nextToken \in Nat
  /\ mapped \in BOOLEAN /\ port \in BOOLEAN
  /\ suspended \in BOOLEAN /\ inactive \in BOOLEAN
  /\ maps \subseteq Reqs
  /\ cleaner \in [Cleaners -> {"idle", "calling", "sleeping", "woken", "done"}]
  /\ gate \in Seq(Frames)
  /\ queue \in Seq(Reqs)
  /\ taken \subseteq Reqs
  /\ answered \subseteq Reqs
  /\ result \in [Reqs -> Results]
  /\ calls \in [Reqs -> Nat]
  /\ now \in Nat

Init ==
  /\ phase = [r \in Reqs |-> "new"]
  /\ token = [r \in Reqs |-> 0]
  /\ deadline = [r \in Reqs |-> 0]
  /\ ret = [r \in Reqs |-> "none"]
  /\ held = {} /\ pending = {} /\ maps = {} /\ taken = {} /\ answered = {}
  /\ timer = NoTimer
  /\ asyncCount = 0 /\ nextToken = 0 /\ now = 0
  /\ mapped = FALSE /\ port = FALSE /\ suspended = FALSE /\ inactive = FALSE
  /\ cleaner = [c \in Cleaners |-> "idle"]
  /\ gate = <<>> /\ queue = <<>>
  /\ result = [r \in Reqs |-> "none"]
  /\ calls = [r \in Reqs |-> 0]

------------------------------------------------------------------------------
(* The gate.                                                               *)

GateFree == gate = <<>>
Top == gate[Len(gate)]
Below == SubSeq(gate, 1, Len(gate) - 1)
InCall(ops) == gate # <<>> /\ Top.op \in ops
BugForgotten == {}
Rest == Top.left
HandlerRunning == InCall({"post", "expire"} \cup Cleaners)
Push(stack, op, r, left) ==
  Append(stack, [op |-> op, req |-> r, left |-> left])

(* IOUserClient's default locking: a call from the process waits while     *)
(* registerNotificationPort, which holds the lock for writing, cleans up.  *)
UserCall == GateFree /\ ~inactive /\ cleaner["port"] = "idle"

(* Call the completion actions of the requests in S, one after the other,  *)
(* with result why; when the last one has returned, stack is what is left. *)
RunCompletions(op, S, stack, why) ==
  IF S = {}
  THEN gate' = stack /\ UNCHANGED <<calls, result>>
  ELSE \E r \in S :
         /\ gate' = Push(stack, op, r, S \ {r})
         /\ calls' = [calls EXCEPT ![r] = @ + 1]
         /\ result' = [result EXCEPT ![r] = why]

(* setNextAsyncTimeout, called with the requests pend pending, count of    *)
(* them outstanding and deadlines dl: requests that are due are removed    *)
(* and counted off, the timer is armed for the first of the others, and    *)
(* only then are the completion actions of the due ones called.            *)
BugLatest(S, dl) == CHOOSE d \in {dl[r] : r \in S} : \A r \in S : d >= dl[r]

Earliest(S, dl) == CHOOSE d \in {dl[r] : r \in S} : \A r \in S : d <= dl[r]

Due(pend, dl) == {r \in pend \cap Async : dl[r] <= now}

(* Bug: the timer is not armed again.                                      *)
BugNotRearmed(pend, count, dl, stack) ==
  /\ pending' = pend \ Due(pend, dl)
  /\ asyncCount' = count - Cardinality(Due(pend, dl))
  /\ timer' = NoTimer
  /\ RunCompletions("expire", Due(pend, dl), stack, "timeout")

SetNextAsyncTimeout(pend, count, dl, stack) ==
  LET due == Due(pend, dl)
      wait == (pend \cap Async) \ due
  IN  /\ pending' = pend \ due
      /\ asyncCount' = count - Cardinality(due)
      /\ timer' = IF wait = {} THEN NoTimer ELSE Earliest(wait, dl)
      /\ RunCompletions("expire", due, stack, "timeout")

(* What ends a request takes its record out of _pending, releases the      *)
(* descriptor of a get report, and counts off an asynchronous request.     *)
BugStays(r) == pending
Removed(r) == pending \ {r}
BugLeaks(r) == held
Released(r) == held \ {r}
CountedOff == asyncCount - 1

(* The mapping of an oversized set report is kept in _overSizedReports.    *)
BugNotKept(r) == maps
Mapped(r) == maps \cup ({r} \cap Oversized)

(* commandWakeup(&_pending): a caller of cleanupPendingReports that sleeps *)
(* wants the gate back.                                                    *)
BugNoWakeup == UNCHANGED cleaner

WakeCleaners ==
  cleaner' = [c \in Cleaners |->
                IF cleaner[c] = "sleeping" THEN "woken" ELSE cleaner[c]]

Wake(S) == phase' = [r \in Reqs |-> IF r \in S /\ phase[r] = "sleeping"
                                    THEN "awakened" ELSE phase[r]]

------------------------------------------------------------------------------
(* getReport and setReport.                                                *)

(* A device thread takes the gate; a completion action already holds it    *)
(* (such an action makes asynchronous requests only).                      *)
MayCall(r) ==
  /\ phase[r] = "new"
  /\ \/ GateFree
     \/ HandlerRunning /\ Top.req \in Reissuers /\ r \in Async

Open == ~inactive /\ ~suspended
QueueFull == Len(queue) >= QueueSize

(* The early returns.  After the first one the call has used up a token    *)
(* and its record has been in _pending, so that a synchronous call wakes   *)
(* the callers of cleanupPendingReports on its way out.  The mapping of an *)
(* oversized report is made before the queue turns out to be full.         *)
NotReady(r, why) ==
  \/ /\ ~mapped /\ why = "notReady" /\ UNCHANGED maps
  \/ /\ mapped /\ ~port /\ why = "offline" /\ UNCHANGED maps
  \/ /\ mapped /\ port /\ why = "noMemory"
     /\ \/ r \in Oversized /\ UNCHANGED maps
        \/ QueueFull /\ maps' = Mapped(r)

Refuse(r) ==
  /\ MayCall(r)
  /\ \/ /\ ~Open
        /\ result' = [result EXCEPT ![r] = "offline"]
        /\ UNCHANGED <<nextToken, maps, cleaner>>
     \/ /\ Open
        /\ \E why \in Results :
             NotReady(r, why) /\ result' = [result EXCEPT ![r] = why]
        /\ nextToken' = nextToken + 1
        /\ IF r \in Async THEN UNCHANGED cleaner ELSE WakeCleaners
  /\ phase' = [phase EXCEPT ![r] = "done"]
  /\ UNCHANGED <<recordVars, pending, timer, asyncCount, mapped, port,
                 suspended, inactive, gate, queue, taken, answered, calls, now>>

(* The call gets its request into the queue.  It then sleeps, or sets the  *)
(* timer; the code counts an asynchronous request as outstanding after     *)
(* setNextAsyncTimeout has returned (SubmitReturns).                       *)
Submit(r) ==
  /\ MayCall(r)
  /\ Open /\ mapped /\ port /\ ~QueueFull
  /\ now + Timeout[r] <= MaxTime        \* BOUND: the deadline is reached
  /\ token' = [token EXCEPT ![r] = nextToken]
  /\ nextToken' = nextToken + 1
  /\ deadline' = [deadline EXCEPT ![r] = now + Timeout[r]]
  /\ ret' = [ret EXCEPT ![r] = "error"]
  /\ held' = held \cup ({r} \cap Gets)
  /\ maps' = Mapped(r)
  /\ queue' = Append(queue, r)
  /\ \/ /\ r \in Async
        /\ phase' = [phase EXCEPT ![r] = "async"]
        /\ SetNextAsyncTimeout(pending \cup {r}, asyncCount, deadline',
                               Push(gate, "submit", r, {}))
     \/ /\ r \notin Async
        /\ phase' = [phase EXCEPT ![r] = "sleeping"]
        /\ pending' = pending \cup {r}
        /\ UNCHANGED <<asyncCount, timer, gate, calls, result>>
  /\ UNCHANGED <<mapped, port, suspended, inactive, cleaner, taken, answered, now>>

SubmitReturns ==
  /\ InCall({"submit"})
  /\ asyncCount' = asyncCount + 1
  /\ gate' = Below
  /\ UNCHANGED <<phase, recordVars, pending, timer, nextToken, clientVars,
                 cleaner, queue, taken, answered, result, calls, now>>

(* A sleeper stops waiting, because its deadline has passed or its thread  *)
(* is aborted (THREAD_ABORTSAFE).  It does not hold the gate yet.          *)
StopsWaiting(r, how) ==
  /\ phase[r] = "sleeping"
  /\ phase' = [phase EXCEPT ![r] = how]
  /\ UNCHANGED <<recordVars, pending, timer, asyncCount, nextToken, clientVars,
                 cleaner, gate, queue, taken, answered, result, calls, now>>

SleepTimesOut(r) == now >= deadline[r] /\ StopsWaiting(r, "timedOut")
SleepInterrupted(r) == StopsWaiting(r, "interrupted")

(* commandSleep returns with the gate held: the rest of getReportGated.    *)
BugWaitResult(r) == IF phase[r] = "awakened" THEN ret[r] ELSE phase[r]

WaitResult(r) == CASE phase[r] = "awakened" -> ret[r]
                   [] phase[r] = "timedOut" -> "timeout"
                   [] OTHER -> "error"

SleeperReturns(r) ==
  /\ GateFree
  /\ phase[r] \in {"awakened", "timedOut", "interrupted"}
  /\ result' = [result EXCEPT ![r] = WaitResult(r)]
  /\ phase' = [phase EXCEPT ![r] = "done"]
  /\ pending' = Removed(r)
  /\ held' = Released(r)
  /\ WakeCleaners
  /\ UNCHANGED <<token, deadline, ret, timer, asyncCount, nextToken, clientVars,
                 gate, queue, taken, answered, calls, now>>

------------------------------------------------------------------------------
(* The process behind the device.                                          *)

MapMemory ==
  /\ UserCall /\ ~mapped
  /\ mapped' = TRUE
  /\ UNCHANGED <<phase, recordVars, pending, timer, asyncCount, nextToken, port,
                 suspended, inactive, maps, cleaner, gate, queue, taken,
                 answered, result, calls, now>>

SetPort ==
  /\ UserCall /\ mapped
  /\ port' = TRUE
  /\ UNCHANGED <<phase, recordVars, pending, timer, asyncCount, nextToken, mapped,
                 suspended, inactive, maps, cleaner, gate, queue, taken,
                 answered, result, calls, now>>

SetSuspended ==
  /\ UserCall
  /\ suspended' = ~suspended
  /\ UNCHANGED <<phase, recordVars, pending, timer, asyncCount, nextToken, mapped,
                 port, inactive, maps, cleaner, gate, queue, taken, answered,
                 result, calls, now>>

TakeReport ==
  /\ queue # <<>>
  /\ taken' = taken \cup {Head(queue)}
  /\ queue' = Tail(queue)
  /\ UNCHANGED <<phase, recordVars, pending, timer, asyncCount, nextToken,
                 clientVars, cleaner, gate, answered, result, calls, now>>

(* The process has no more use for the mapping of an oversized report.     *)
ReleaseToken(r) ==
  /\ UserCall /\ r \in taken \cap maps
  /\ maps' = maps \ {r}
  /\ UNCHANGED <<phase, recordVars, pending, timer, asyncCount, nextToken, mapped,
                 port, suspended, inactive, cleaner, gate, queue, taken,
                 answered, result, calls, now>>

(* An answer for the report that was read as request r, first, again or    *)
(* late.  It goes to a pending record with r's token (without one the call *)
(* returns kIOReturnNotFound and changes nothing).  A get report's answer  *)
(* may be longer than its descriptor; the request ends all the same.       *)
BugAnyToken(r, p) == p \in pending

Answers(r, p) == p \in pending /\ token[p] = token[r]

PostReportResult(r, reply) ==
  /\ UserCall /\ r \in taken
  /\ answered' = IF reply = "success" THEN answered \cup {r} ELSE answered
  /\ \E p \in Reqs :
       /\ Answers(r, p)
       /\ reply = "overrun" => p \in Gets
       /\ ret' = [ret EXCEPT ![p] = reply]
       /\ \/ /\ p \in Async
             /\ RunCompletions("post", {p}, gate, reply)
             /\ UNCHANGED phase
          \/ /\ p \notin Async
             /\ Wake({p})
             /\ UNCHANGED <<gate, calls, result>>
  /\ UNCHANGED <<token, deadline, held, pending, timer, asyncCount, nextToken,
                 clientVars, cleaner, queue, taken, now>>

(* The completion action called by postReportResult returns.               *)
PostCompletionReturns ==
  /\ InCall({"post"})
  /\ held' = Released(Top.req)
  /\ SetNextAsyncTimeout(Removed(Top.req), asyncCount, deadline,
                         Push(Below, "posted", Top.req, {}))
  /\ UNCHANGED <<phase, token, deadline, ret, nextToken, clientVars, cleaner,
                 queue, taken, answered, now>>

PostReturns ==
  /\ InCall({"posted"})
  /\ asyncCount' = CountedOff
  /\ gate' = Below
  /\ UNCHANGED <<phase, recordVars, pending, timer, nextToken, clientVars,
                 cleaner, queue, taken, answered, result, calls, now>>

------------------------------------------------------------------------------
(* Timeouts of asynchronous requests.                                      *)

TimerFires ==
  /\ GateFree /\ timer # NoTimer /\ now >= timer
  /\ SetNextAsyncTimeout(pending, asyncCount, deadline, gate)
  /\ UNCHANGED <<phase, recordVars, nextToken, clientVars, cleaner, queue,
                 taken, answered, now>>

TimeoutCompletionReturns ==
  /\ InCall({"expire"})
  /\ held' = Released(Top.req)
  /\ RunCompletions("expire", Rest, Below, "timeout")
  /\ UNCHANGED <<phase, token, deadline, ret, pending, timer, asyncCount,
                 nextToken, clientVars, cleaner, queue, taken, answered, now>>

------------------------------------------------------------------------------
(* cleanupPendingReports, and its two callers.                             *)

(* The loop at its end: sleep until no request is pending, then return to  *)
(* the caller; stop goes on to release the notification port.              *)
(* Bug: the caller does not wait for the sleepers it has woken.            *)
BugNoWait(c, pend, registered) ==
  /\ cleaner' = [cleaner EXCEPT ![c] = IF c = "stop" THEN "done" ELSE "idle"]
  /\ port' = (registered /\ c # "stop")

CleanupLoop(c, pend, registered) ==
  /\ cleaner' = [cleaner EXCEPT ![c] = IF pend # {} THEN "sleeping"
                                       ELSE IF c = "stop" THEN "done" ELSE "idle"]
  /\ port' = (registered /\ ~(c = "stop" /\ pend = {}))

(* Abort what is pending: wake the sleepers, call the completion actions.  *)
CleanupPendingReports(c, registered) ==
  /\ timer' = NoTimer
  /\ ret' = [r \in Reqs |-> IF r \in pending THEN "aborted" ELSE ret[r]]
  /\ Wake(pending)
  /\ RunCompletions(c, pending \cap Async, gate, "aborted")
  /\ IF pending \cap Async = {}
     THEN CleanupLoop(c, pending, registered)
     ELSE /\ cleaner' = [cleaner EXCEPT ![c] = "calling"]
          /\ port' = registered
  /\ UNCHANGED <<token, deadline, held, pending, asyncCount, nextToken, mapped,
                 suspended, inactive, maps, queue, taken, answered, now>>

ClearPort ==
  /\ UserCall /\ mapped
  /\ CleanupPendingReports("port", FALSE)

Stop ==
  /\ GateFree /\ inactive /\ cleaner["stop"] = "idle"
  /\ CleanupPendingReports("stop", port)

(* A completion action called by cleanupPendingReports returns.            *)
AbortCompletionReturns(c) ==
  /\ InCall({c})
  /\ held' = Released(Top.req)
  /\ pending' = Removed(Top.req)
  /\ asyncCount' = CountedOff
  /\ RunCompletions(c, Rest, Below, "aborted")
  /\ IF Rest = {} THEN CleanupLoop(c, pending', port)
                      ELSE UNCHANGED <<cleaner, port>>
  /\ UNCHANGED <<phase, token, deadline, ret, timer, nextToken, mapped,
                 suspended, inactive, maps, queue, taken, answered, now>>

CleanerWakes(c) ==
  /\ GateFree /\ cleaner[c] = "woken"
  /\ CleanupLoop(c, pending, port)
  /\ UNCHANGED <<phase, recordVars, pending, timer, asyncCount, nextToken, mapped,
                 suspended, inactive, maps, gate, queue, taken, answered,
                 result, calls, now>>

(* The process closes the user client, or dies: terminate() marks it.      *)
Terminate ==
  /\ ~inactive
  /\ inactive' = TRUE
  /\ UNCHANGED <<phase, recordVars, pending, timer, asyncCount, nextToken, mapped,
                 port, suspended, maps, cleaner, gate, queue, taken, answered,
                 result, calls, now>>

Tick ==
  /\ now < MaxTime                       \* BOUND
  /\ now' = now + 1
  /\ UNCHANGED <<phase, recordVars, pending, timer, asyncCount, nextToken,
                 clientVars, cleaner, gate, queue, taken, answered, result, calls>>

------------------------------------------------------------------------------
Next ==
  \/ \E r \in Reqs : \/ Refuse(r) \/ Submit(r)
                     \/ SleepTimesOut(r) \/ SleepInterrupted(r)
                     \/ SleeperReturns(r)
                     \/ ReleaseToken(r)
                     \/ \E reply \in Replies : PostReportResult(r, reply)
  \/ SubmitReturns
  \/ PostCompletionReturns \/ PostReturns
  \/ TimerFires \/ TimeoutCompletionReturns
  \/ MapMemory \/ SetPort \/ ClearPort \/ SetSuspended \/ TakeReport
  \/ \E c \in Cleaners : AbortCompletionReturns(c) \/ CleanerWakes(c)
  \/ Terminate \/ Stop
  \/ Tick

Spec == Init /\ [][Next]_vars

(* What the kernel does by itself: time passes, threads that can have the  *)
(* gate get it, completion actions return, and a sleep ends at its         *)
(* deadline.  Nothing is assumed of the process.                           *)
Fairness ==
  /\ WF_vars(Tick) /\ WF_vars(TimerFires)
  /\ WF_vars(SubmitReturns) /\ WF_vars(PostReturns)
  /\ WF_vars(PostCompletionReturns) /\ WF_vars(TimeoutCompletionReturns)
  /\ \A c \in Cleaners : /\ WF_vars(AbortCompletionReturns(c))
                         /\ WF_vars(CleanerWakes(c))
  /\ \A r \in Reqs : /\ WF_vars(SleepTimesOut(r))
                     /\ WF_vars(SleeperReturns(r))

FairSpec == Spec /\ Fairness

------------------------------------------------------------------------------
(* Properties.                                                             *)

(* A completion action is called at most once, whichever of the answer,    *)
(* the timeout and the cleanup come (postReportResult, setNextAsyncTimeout *)
(* and cleanupPendingReports all call it).                                 *)
CompletedAtMostOnce == \A r \in Reqs : calls[r] <= 1

(* Between two uses of the gate an asynchronous request that was accepted  *)
(* is either still in _pending or its completion action has been called.   *)
NoLostRequest ==
  GateFree => \A r \in Async : phase[r] = "async" => r \in pending \/ calls[r] > 0

(* A caller is told success only if the process answered that very request *)
(* with success: tokens tell the requests apart, however late an answer.   *)
SuccessIsEarned == \A r \in Reqs : result[r] = "success" => r \in answered

(* Between two uses of the gate the timer is armed no later than the first *)
(* deadline of the asynchronous requests in _pending.                      *)
TimerCoversDeadlines ==
  GateFree => \A r \in pending \cap Async : timer # NoTimer /\ timer <= deadline[r]

(* The buffer of a get report stays retained as long as an answer can find *)
(* the request and write into it, and is released once the request ended.  *)
BufferRetained ==
  /\ pending \cap Gets \subseteq held
  /\ GateFree => held \subseteq pending

(* Without a notification port, once the cleanup is over, no request is    *)
(* pending: none waits for a process that will not be told about it.       *)
NothingPendingWithoutPort ==
  GateFree /\ ~port /\ cleaner["port"] = "idle" => pending = {}

(* The address in the header of an oversized report is mapped until the    *)
(* process has read it, even if the request has ended long before.         *)
OversizedReadable ==
  \A i \in 1..Len(queue) : queue[i] \in Oversized => queue[i] \in maps

(* What is pending is accounted for: no request drops out of _pending      *)
(* unanswered, the timer covers it, and nothing waits for a process that   *)
(* has closed its port (postReportResult, setNextAsyncTimeout, and         *)
(* cleanupPendingReports each change only a part of this).                 *)
RequestsAccounted ==
  NoLostRequest /\ TimerCoversDeadlines /\ NothingPendingWithoutPort

(* The memory that outlives a step is there for who uses it: the buffer    *)
(* that an answer writes into, the mapping that the process reads.         *)
MemoryKept == BufferRetained /\ OversizedReadable

(* The calls behave like transactions that end once, for good: with the    *)
(* records, the queue, the gate and the timers hidden.                     *)
Transactions == INSTANCE ReportTransactions WITH
  Calls <- Reqs,
  Refusals <- {"offline", "notReady", "noMemory"},
  Endings <- {"success", "overrun", "timeout", "aborted", "error"},
  state <- [r \in Reqs |-> IF phase[r] = "new" THEN "new"
                           ELSE IF result[r] = "none" THEN "open" ELSE "closed"],
  outcome <- result,
  given <- answered

(* Every behaviour of the user client is one of ReportTransactions.        *)
RefinesTransactions == Transactions!TxSpec

(* After stop has returned, no call sleeps in the gate it has removed and  *)
(* no completion action is called.                                         *)
QuietAfterStop ==
  [][cleaner["stop"] = "done" => /\ UNCHANGED calls
                                 /\ \A r \in Reqs : phase[r] \in {"new", "async", "done"}]_vars

(* Every request that is accepted ends, even if the process never answers. *)
EveryRequestEnds == \A r \in Reqs : r \in pending ~> result[r] # "none" /\ r \notin pending

(* A caller of cleanupPendingReports that goes to sleep is woken again and *)
(* returns (it sleeps without a timeout, holding the process's calls off). *)
CleanupReturns ==
  \A c \in Cleaners : cleaner[c] = "sleeping" ~> cleaner[c] \in {"idle", "done"}

(* Nobody waits for good: neither who made a request, by the timer, nor    *)
(* who cleans up, by the last of the requests that it has aborted.         *)
RequestsEnd == EveryRequestEnds /\ CleanupReturns
==============================================================================
