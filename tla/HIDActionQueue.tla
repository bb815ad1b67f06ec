---------------------------- MODULE HIDActionQueue ----------------------------
(***************************************************************************)
(* IOHIDActionQueue: blocks dispatched by any thread run on one work loop. *)
(* dispatchAsync appends under _lock and, after the unlock, raises the     *)
(* interrupt source if the array was empty; the work loop drains the array *)
(* in one call of handleIOHIDAction.  dispatchSync runs its block at once, *)
(* in the caller's thread, under the work loop's gate.  cancel() enqueues  *)
(* a last block that detaches the queue and calls the cancel handler.      *)
(*                                                                         *)
(* The work loop's own thread, Loop, dispatches too: from inside a block.  *)
(***************************************************************************)
EXTENDS Integers, Sequences

CONSTANTS
  Threads,     \* threads that use the queue
  Loop,        \* the thread of the work loop
  Free,        \* the gate has no holder; no block is running
  CancelBlock, \* the block that cancel() enqueues
  MaxAsync,    \* BOUND: dispatchAsync calls of one thread
  MaxSync      \* BOUND: dispatchSync calls of one thread

ASSUME ActionQueueAssumption ==
  /\ Loop \notin Threads /\ Free \notin Threads \cup {Loop}
  /\ MaxAsync \in Nat /\ MaxSync \in Nat

Callers == Threads \cup {Loop}
Blocks == [by: Callers, n: 1..MaxAsync]
ASSUME BlockAssumption ==
  Free \notin Blocks /\ CancelBlock \notin Blocks /\ CancelBlock # Free

VARIABLES
  state,        \* _state: "Inactive", "Activated", "Cancelled"
  actionArray,  \* _actionArray
  pending,      \* the interrupt source has an interrupt not yet handled
  attached,     \* the event sources belong to the work loop
  gate,         \* who holds the work loop's gate, or Free
  draining,     \* the work loop is inside handleIOHIDAction
  current,      \* the block it is running, or Free
  pc,           \* pc[t]: "idle", "signal", "sync", "attach", "cancel"
  async,        \* async[t]: blocks t has dispatched
  ran,          \* ran[t]: blocks of t that have been started
  syncs,        \* syncs[t]: dispatchSync calls of t
  handled       \* times the cancel handler was called

queue == <<actionArray, pending>>
loopVars == <<gate, draining, current>>
counts == <<async, ran, syncs>>
vars == <<state, queue, attached, loopVars, pc, counts, handled>>

TypeOK ==
  /\ state \in {"Inactive", "Activated", "Cancelled"}
  /\ actionArray \in Seq(Blocks \cup {CancelBlock})
  /\ pending \in BOOLEAN /\ attached \in BOOLEAN
  /\ gate \in Callers \cup {Free} /\ draining \in BOOLEAN
  /\ draining <=> gate = Loop
  /\ current \in Blocks \cup {CancelBlock, Free}
  /\ pc \in [Callers -> {"idle", "signal", "sync", "attach", "cancel"}]
  /\ async \in [Callers -> 0..MaxAsync] /\ ran \in [Callers -> Nat]
  /\ syncs \in [Callers -> Nat]
  /\ handled \in Nat

Init ==
  /\ state = "Inactive"
  /\ actionArray = <<>> /\ pending = FALSE /\ attached = FALSE
  /\ gate = Free /\ draining = FALSE /\ current = Free
  /\ pc = [t \in Callers |-> "idle"]
  /\ async = [t \in Callers |-> 0] /\ ran = [t \in Callers |-> 0]
  /\ syncs = [t \in Callers |-> 0]
  /\ handled = 0

(* The work loop's thread can call only from inside a block.               *)
CanCall(t) == pc[t] = "idle" /\ (t = Loop => current \in Blocks)

------------------------------------------------------------------------------
(* activate() and the cancel() that the owner calls when nobody else uses  *)
(* the queue any more: dispatching asserts _state == Activated.            *)
Activate(t) ==
  /\ CanCall(t) /\ t # Loop /\ state = "Inactive"
  /\ state' = "Activated"
  /\ pc' = [pc EXCEPT ![t] = "attach"]
  /\ UNCHANGED <<queue, attached, loopVars, counts, handled>>

AddEventSources(t) ==
  /\ pc[t] = "attach"
  /\ attached' = TRUE
  /\ pc' = [pc EXCEPT ![t] = "idle"]
  /\ UNCHANGED <<state, queue, loopVars, counts, handled>>

(* What the callers see to, and cancel() does not look at: nobody is on    *)
(* the way into the queue when it is cancelled, and it was activated (its  *)
(* interrupt has no work loop before that).                                *)
NoDispatcher == \A t \in Callers : pc[t] \in {"idle", "cancel"}

BugCancelTwice == state \in {"Activated", "Cancelled"} /\ handled = 0
MayCancel == state = "Activated"

Cancel(t) ==
  /\ CanCall(t) /\ attached /\ NoDispatcher
  /\ MayCancel
  /\ state' = "Cancelled"
  /\ pc' = [pc EXCEPT ![t] = "cancel"]
  /\ UNCHANGED <<queue, attached, loopVars, counts, handled>>

------------------------------------------------------------------------------
(* enqueueIOHIDAction: under _lock; the interrupt comes after the unlock.  *)

Added(a) == Append(actionArray, a)

BugNextOnly == Len(actionArray) = 1
WasEmpty == actionArray = <<>>

Enqueue(t, a) ==
  /\ actionArray' = Added(a)
  /\ pc' = [pc EXCEPT ![t] = IF WasEmpty THEN "signal" ELSE "idle"]
  /\ UNCHANGED <<pending, attached, loopVars, syncs, ran, handled>>

DispatchAsync(t) ==
  /\ CanCall(t) /\ attached /\ state = "Activated" /\ async[t] < MaxAsync
  /\ Enqueue(t, [by |-> t, n |-> async[t] + 1])
  /\ async' = [async EXCEPT ![t] = @ + 1]
  /\ UNCHANGED state

EnqueueCancel(t) ==
  /\ pc[t] = "cancel"
  /\ Enqueue(t, CancelBlock)
  /\ UNCHANGED <<state, async>>

InterruptOccurred(t) ==
  /\ pc[t] = "signal"
  /\ pending' = TRUE
  /\ pc' = [pc EXCEPT ![t] = "idle"]
  /\ UNCHANGED <<state, actionArray, attached, loopVars, counts, handled>>

------------------------------------------------------------------------------
(* The block runs under the gate, which the work loop's thread has already.*)
BugNoGate(t) == TRUE
GateOpen(t) == gate \in {Free, t}

DispatchSync(t) ==
  /\ CanCall(t) /\ attached /\ state = "Activated" /\ syncs[t] < MaxSync
  /\ GateOpen(t)
  /\ gate' = t
  /\ pc' = [pc EXCEPT ![t] = "sync"]
  /\ syncs' = [syncs EXCEPT ![t] = @ + 1]
  /\ UNCHANGED <<state, queue, attached, draining, current, async, ran, handled>>

SyncReturns(t) ==
  /\ pc[t] = "sync"
  /\ gate' = IF t = Loop THEN Loop ELSE Free
  /\ pc' = [pc EXCEPT ![t] = "idle"]
  /\ UNCHANGED <<state, queue, attached, draining, current, counts, handled>>

------------------------------------------------------------------------------
(* The work loop takes its gate and calls handleIOHIDAction.               *)
HandleIOHIDAction ==
  /\ pending /\ attached /\ gate = Free
  /\ pending' = FALSE
  /\ gate' = Loop /\ draining' = TRUE
  /\ UNCHANGED <<state, actionArray, attached, current, pc, counts, handled>>

Dequeue ==
  /\ draining /\ current = Free /\ actionArray # <<>>
  /\ current' = Head(actionArray)
  /\ actionArray' = Tail(actionArray)
  /\ ran' = IF current' = CancelBlock THEN ran
            ELSE [ran EXCEPT ![current'.by] = @ + 1]
  /\ UNCHANGED <<state, pending, attached, gate, draining, pc, async, syncs,
                 handled>>

(* A block returns when all its own calls have; the cancel block detaches  *)
(* the event sources and calls the handler.                                *)
BlockReturns ==
  /\ current # Free /\ pc[Loop] = "idle"
  /\ current' = Free
  /\ IF current = CancelBlock
     THEN attached' = FALSE /\ handled' = handled + 1
     ELSE UNCHANGED <<attached, handled>>
  /\ UNCHANGED <<state, queue, gate, draining, pc, counts>>

BugStopsEarly == draining /\ current = Free
Drained == draining /\ current = Free /\ actionArray = <<>>

HandlerReturns ==
  /\ Drained
  /\ draining' = FALSE /\ gate' = Free
  /\ UNCHANGED <<state, queue, attached, current, pc, counts, handled>>

------------------------------------------------------------------------------
Call(t) == \/ Activate(t) \/ Cancel(t) \/ DispatchAsync(t) \/ DispatchSync(t)
Step(t) == \/ AddEventSources(t) \/ EnqueueCancel(t) \/ InterruptOccurred(t)
           \/ SyncReturns(t)
WorkLoop == HandleIOHIDAction \/ Dequeue \/ BlockReturns \/ HandlerReturns

Next == \/ \E t \in Callers : Call(t) \/ Step(t)
        \/ WorkLoop

Spec == Init /\ [][Next]_vars

(* Calls that have begun go on, and so does the work loop.                 *)
FairSpec == Spec /\ WF_vars(WorkLoop) /\ \A t \in Callers : WF_vars(Step(t))

------------------------------------------------------------------------------
(* Properties.                                                             *)

(* The empty-to-nonempty rule loses no wake-up: blocks that wait have an   *)
(* interrupt, a work loop that is still draining, or a caller on its way   *)
(* to raise the interrupt.                                                 *)
NoneStranded ==
  actionArray # <<>> => pending \/ draining \/ \E t \in Callers : pc[t] = "signal"

(* A block that was dispatched synchronously never runs beside another.    *)
OneAtATime ==
  \A t \in Callers :
    pc[t] = "sync" =>
      /\ gate = t
      /\ t # Loop => current = Free /\ \A u \in Callers \ {t} : pc[u] # "sync"

(* The cancel handler is called once, and after every block.               *)
HandlerIsLast ==
  handled > 0 => /\ handled = 1 /\ actionArray = <<>> /\ current = Free
                 /\ ran = async

(* The queue, its gate and the cancellation together run what was asked    *)
(* for, alone where that was asked for, and nothing after the handler.     *)
SerialRun == OneAtATime /\ HandlerIsLast /\ NoneStranded

(* The queue implements SerialQueue: the blocks run one at a time, in the  *)
(* order of the calls ("assert(_actionCounter == i - 1)" in the tests),    *)
(* and every block that is dispatched runs.                                *)
Serial == INSTANCE SerialQueue WITH
  Actions <- Blocks, Last <- CancelBlock, Nothing <- Free,
  waiting <- actionArray, running <- current, closed <- (handled > 0)
ImplementsSerialQueue == Serial!Spec
================================================================================
