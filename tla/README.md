# IOHIDFamily in TLA+

IOHIDFamily is the human-interface-device stack of macOS: a kernel extension
with the HID devices, their drivers and user clients (`src/IOHIDFamily`), the
older event system of the window server (`src/IOHIDSystem`), the libraries
applications use (`src/IOHIDLib`, `src/HID`, `src/HIDDriverKit`) and the
plug-ins of the event system daemon (`src/IOHIDEventSystemPlugIns`).  This
directory holds TLA+ models of its concurrent core, what TLC checks of them,
and what TLAPS proves about them.

## 1. The system

### 1.1 Components, their state and operations

| component | state | operations |
|---|---|---|
| **User device report exchange** (`IOHIDResourceUserClient.cpp`) | `_pending` (records with token, deadline, ret, descriptor, completion), `_asyncReportTimer`, `_outstandingAsyncCount`, `_tokenIndex`, `_queue`, `_port`, `_suspended`, `_overSizedReports` | getReport/setReport (sync and async), postReportResult, setNextAsyncTimeout, cleanupPendingReports, registerNotificationPort, clientMemoryForType, releaseToken, setProperties, stop |
| **Shared data queues** (`IOHIDResourceQueue`, `IOHIDEventServiceQueue`, `IOHIDEventQueue`, `IOHIDReportElementQueue`; readers in `IOHIDLib`) | a ring in shared memory with `head`, `tail`, entry sizes; a notification port | enqueue, setNotificationPort, sendDataAvailableNotification, dequeue by the process |
| **Action queue** (`IOHIDActionQueue.cpp`) | `_actionArray` under a lock, an interrupt event source, a command gate, `_state` bits, cancel handler | dispatchAsync, dispatchSync, activate, cancel, handleIOHIDAction |
| **HID device** (`IOHIDDevice.cpp`) | element containers, `_clientSet`, `_seizedClient`, outstanding async report calls, element transactions, event/async-report thread calls | handleOpen/Close, handleReport, get/setReport (sync over async), postElementTransaction, willTerminate/didTerminate |
| **HID library user client** (`IOHIDLibUserClient.cpp`) | `fClientOpened`, `fValid`, queue map, `_pending` transactions, `fBlockedReports` | open/close/seize, queue create/start/stop, get/setReport, message, stop |
| **Elements** (`IOHIDElementPrivate.cpp`, `IOHIDElementContainer.cpp`) | element values, transaction state, report handlers' element chains, queues per element | processReport, createReport, setTransactionState, raw/duplicate report elements |
| **Interface** (`IOHIDInterface.cpp`) | device, report action, one open client | open/close, handleReport, get/setReport |
| **Event service and its clients** (`IOHIDEventService.cpp`, `IOHIDEventServiceUserClient.cpp`) | client dictionary, keyboard and pointing nubs, `_state`, consumer/key-repeat timers, event queues | open/close, dispatchEvent, copyEvent, setProperties |
| **Event driver** (`IOHIDEventDriver.cpp`, `IOHIDComplexEventDriver`) | element groups parsed from the device, last values | parseElements, handleInterruptReport |
| **DriverKit bridges** (`AppleUserHIDDevice.cpp`, `AppleUserHIDEventService.cpp`) | outstanding report actions, commit sets | getReport/setReport to a dext, CompleteReport, commit |
| **Fast path** (`IOFastPath`) | ring of samples with state bits, per-client property state | dispatch, copyEvent, open/close |
| **IOHIDSystem** (`IOHIDSystem.cpp`, `IOHIDUserClient.cpp`) | the event lock-step `evg` area shared with the window server, cursor, low-level event queue, command gate | evOpen, postEvent, keyboard/pointing handlers, power and session notifications |
| **Keyboard and pointing devices** (`IOHIKeyboard.cpp`, `IOHIKeyboardMapper.cpp`, `IOHIPointing.cpp`, `IOHIDKeyboard.cpp` ...) | key state, modifiers, caps-lock, auto-repeat timers, acceleration tables | keyboardEvent, translateKeyCode, dispatchPointer |
| **Report descriptor parser** (`IOHIDDescriptorParser`) | none (a pure function of the descriptor) | HIDOpenReportDescriptor and queries |
| **Keyboard filter** (`IOHIDKeyboardFilter.mm`) | sticky-key states, slow-key and repeat timers, modifier remapping, mouse-key toggle | filterEvent, properties |
| **Event processor filter** (`IOHIDEventProcessorFilter.cpp`) | multi-press and long-press state machines with timers | sync, enter, dispatch |
| **Pointer and scroll filter, NX translation, other plug-ins** | acceleration state, button state, statistics | filterEvent |
| **IOHIDLib** (device, queue and transaction classes) | plug-in reference counts, run-loop sources, callbacks | open, start, setCallback, commit |
| **HID framework** (`src/HID`) | state flags of HIDDevice, HIDManager, HIDUserDevice, HIDEventSystemClient | activate, cancel, setters |

### 1.2 How they interact

A device's transport driver (or, for a virtual device, the user device
exchange) is the provider of an `IOHIDDevice`.  Input reports travel up:
`handleReport` updates elements, elements fill the queues of the library user
clients and call the interfaces' report actions, the event driver turns
elements into events and the event service puts those into its clients'
queues.  Output travels down through `getReport`/`setReport` calls that block
or complete asynchronously.  Queues are shared memory with a notification
port.  Serialisation is by work loops and command gates (recursive, released
while a thread sleeps in `commandSleep`), by locks of their own (the action
queue, the device's async report lists), or by nothing but memory order (the
rings).  Lifetimes end in two phases, `terminate` marks an object inactive at
once, `stop` runs when its clients have let go.

### 1.3 What is hard

* answers, timeouts, aborts and interrupted sleeps that race for one request;
* completion actions called with a gate held that call back into the object;
* rings whose two ends run without a common lock;
* cancel, close and stop while work is queued or callers sleep;
* bookkeeping that many exit paths share (pending sets, counts, retains).

### 1.4 What makes a component correct

* User device reports: a request ends once, with its own outcome, and ends even
  if the process never answers; buffers and mappings live as long as somebody
  can use them.
* Shared queues: what the process reads is what was enqueued, in order, and a
  process that sleeps is woken.
* Action queue: blocks run in order, one at a time, each once, the cancel
  handler last.
* Device, asynchronous calls: the same as for user device reports, and
  termination neither strands a call nor overtakes the thread at the device.
* Device, commits: the client is called back once, after the last report, with
  success only if all of them succeeded.
* Device, clients: reports reach every open client that keeps its reports, once
  and in order, unless another has seized the device; no thread sleeps for good.
* Elements: a report handler's chain updates each element of the report once;
  a transaction's state returns to idle.
* Event service: who stays open gets every event, and no client is listed or
  called after it has gone.
* IOHIDSystem: the session has one owner; keys keep their order, among themselves
  and towards the events that processes post; none is stranded in the queue; of
  several sets of parameters the last one is in force in every device.
* Keyboard filter: sticky, slow and repeated keys always come to a key-up for each
  key-down, and none comes down after its key was let go.
* HID framework: activate and cancel are called in a legal order, and the
  cancel handler is called once.

## 2. Plan

In order of importance.  Items 1 to 9 are done, as section 3 describes; what is left
of them is named with each.

1. `HIDUserDeviceReports` with the abstract `ReportTransactions`; proofs of
   all its safety properties, of single completion and of the refinement.
2. `SharedDataQueue`; proofs of all its safety properties.
3. `HIDActionQueue` with the abstract `SerialQueue`; proofs of all its safety
   properties and of the refinement.
4. `HIDDeviceAsyncReports`, which refines `ReportTransactions` as well; proofs
   of all its safety properties and of the refinement.
5. `HIDDeviceCommits`; proofs of all its safety properties.  Left: the composition
   with `HIDDeviceAsyncReports`, whose completion is `CommitComplete`.
6. `HIDDeviceClients`; proofs of all its safety properties, each from what it
   needs of the clients.  Left: suspension of the process, and termination.
7. `HIDKeyboardFilter`.
8. `HIDSystem` and `HIDSystemParams`; proofs of all their safety properties.
9. `HIDEventService`; proofs of all its safety properties.
10. `HIDElements`: `processReport`'s chain of handlers, element transactions
   (`postElementTransaction`, `setTransactionState`), the synchronous commit.
11. `AppleUserHIDDevice` (report actions of a driver extension) and
   `IOHIDInterface`, where they add protocols of their own.
12. `IOFastPath`, the framework's activate/cancel flags, the event processor
   filter.

Abstract specifications worth stating next: a broadcast log for the clients of a
device (each open client reads a suffix of one sequence of reports) for item 6,
and a bag of keys that are down for item 7.  Bounds: two clients or threads
(two of one kind and one of another where three roles differ), two or three
requests, rings of at most three entries.

## 3. What is modelled

One module per component; its `MC` companion only fixes constants.  Every action
is one stretch of code that runs without giving up its lock or gate.  Definitions
named `Bug...` are deliberate faults: small changes that show, for each
property, that the checks would notice.  They are used by no action.

### 3.1 `HIDUserDeviceReports`

`IOHIDResourceDeviceUserClient`.  `gate` is the stack of calls on the thread
that holds the command gate: the code calls completion actions with the gate
held, and these may call `getReport` again; so each function that is waiting for
a completion action, or for `setNextAsyncTimeout`, is a frame.

| code | model |
|---|---|
| `_pending` and its records; the callers | `pending`, `token`, `deadline`, `ret`; `phase`, `result`, `calls` |
| `_tokenIndex`, `_suspended`, `isInactive()` | `nextToken`, `suspended`, `inactive` |
| `_queue` and its contents, `_overSizedReports`, retained descriptors | `mapped`, `queue`, `maps`, `held` |
| `_asyncReportTimer`, `_outstandingAsyncCount` | `timer`, `asyncCount` |
| `_port`, callers of `cleanupPendingReports` | `port`, `cleaner` |
| `getReportGated`/`setReportGated` | `Refuse`, `Submit`, `SubmitReturns` |
| `postReportResult` | `PostReportResult`, `PostCompletionReturns`, `PostReturns` |
| `commandSleep` ending, and the rest of the function | `SleepTimesOut`, `SleepInterrupted`, `SleeperReturns` |
| `setNextAsyncTimeout` and its timer | `SetNextAsyncTimeout`, `TimerFires`, `TimeoutCompletionReturns` |
| `cleanupPendingReports` for `registerNotificationPortGated` and `stop` | `ClearPort`, `Stop`, `AbortCompletionReturns`, `CleanerWakes` |
| the process's other calls | `MapMemory`, `SetPort`, `SetSuspended`, `TakeReport`, `ReleaseToken` |

`answered`, `taken`, `result` and `calls` are histories.  Token numbers do not
wrap.  The ring's layout is left to section 3.2; here it is a sequence.

### 3.2 `SharedDataQueue`

`IOHIDEventServiceQueue::enqueueEvent`, and `IOHIDResourceQueue::enqueueReport`,
which is the same code without the notification options.  The enqueuer's loads,
stores and fences are separate steps; each processor's last store to an offset
stays in `tailStore` or `headStore` until it becomes visible, which is what a
store buffer does (more than one delayed store is not needed: either side stores
one offset and then synchronises).  The client's dequeue is external code and is
modelled from what `IOHIDLib` and the comment in the queue expect of it.

### 3.3 `HIDActionQueue`

All operations of `IOHIDActionQueue`.  `_actionArray` and `_state` are under
`_lock`; the interrupt (`pending`) is raised after the unlock; the work loop's
drain holds the gate and takes the lock for each block.  `dispatchSync` takes the
gate and, if the caller is inside a block, runs nested; that the gate is recursive is
taken over from `IOCommandGate`, so that a gate that is not would not show as a
deadlock here.  `Cancel` asks for what its callers see to and `cancel()` itself does
not look at: nobody is on the way into the queue (`NoDispatcher`), and the queue was
activated.  `SerialQueue` is what a user of the queue sees.

### 3.4 `HIDDeviceAsyncReports`

The half of `IOHIDDevice` that turns asynchronous `getReport`/`setReport` calls
into synchronous ones on a thread call.  `calls` is `_asyncReportCalls`, `addr`
the memory each call has, `executing` the pointer that `runSyncReportAsync`
keeps across the time in which it gives up the gate.  A new call gets a fresh address
or that of any call that has been freed (`Allocated`); what is completed inside one
action is freed, and what completions ask for is put in the list, in the code's order
(`Sooner`, `Before`).  A completion action runs inside the action that calls it and may
make one more call (`Reissue`).  `reused` is a history: the calls that got the address
of the freed one that the thread had at the device (section 6).
`terminated`, `deferred` and the retained thread are `willTerminate` and
`didTerminate`.

### 3.5 `HIDDeviceCommits`

`runElementValues` with a completion, and `CommitComplete`.  The context's
`callsMade`, `callsCompleted` and status, and the list `_asyncCommitCalls`, are
variables; the caller's thread is at a program counter between its calls, as it
gives up the gate for each.  The report that a call makes ends in whichever way
`HIDDeviceAsyncReports` lets it: accepted and answered, refused, timed out, aborted,
also by the timer and the termination while the thread is still at its calls.
`overtaken` is a history: the requests to which that has happened (section 6).

### 3.6 `HIDDeviceClients`

| code | model |
|---|---|
| `IOHIDDevice::_seizedClient`, `_clientSet` | `seizedClient`, `opened` |
| `fClientOpened`, `fClientSeized`, `fValid`, `fCachedOptionBits` | `opened`, `seized`, `valid`, `bits` |
| `IOHIDElementPrivate::_queueArray`, `_elementValue` | `queueArray`, `elementValue` |
| the queue's ring and its header's `status` | `ring`, `status` |
| `fBlockedReports` and the sleeping threads | `fBlockedReports`, `pc`, `index` |
| `open` with `handleOpen` and the message to other clients | `Open` |
| `close` with `handleClose`, the message and the wake-up; its sleep | `Close`, `CloseReturns` |
| `handleReportWithTime`, then one step per queue of `processReport` | `HandleReport`; `Enqueue`, `Drop`, `Block`; `ReportHandled` |
| `handleEnqueue` after its sleep | `Retry`, `GiveUp`, `SleepAgain` |
| the process's run loop | `ValueAvailable`, `CopyNextValue`, `SignalQueueEmpty`, `ResumeReports` |

A client opens with any of the sets of options that `Options` lists for it, also while
it is open.  `owed`, `late` and `misled` are histories for the properties only; `misled`
are the clients that a message about another's seizing, or its end, has passed by or
deceived (section 6).  Assumed: clients are
privileged (`resourceNotificationGated` enables their queues), a process does
not open a client while its own `close()` sleeps, queues are started, and no process
is killed while a thread of its own sleeps: the sleeps of `close()`, of a blocked report
and of its like (lines 762, 2270 and 2279 of `IOHIDLibUserClient.cpp`) can then be
interrupted, in the model they end by `commandWakeup` only.  A client has
one queue, which is in the array once (`addEventQueue` adds none twice); `DisposeQueue`
takes it out, and those behind it move up under the threads that are on their way.

### 3.7 `HIDKeyboardFilter`

The service filter that every keyboard event of the daemon passes.  All that the
filter keeps is the record `filter`; a handler on its queue (an event, a timer, a
block, a property) is one action.  An event that the filter sends comes to
`filter()` again inside the call that sends it: the stages take the function `Send`
that stands for that second passage, and `Send` is recursive.

| code | model |
|---|---|
| `_activeKeys` with the flag "modified" | `active` |
| `_slowKeysSlowEvent`, `_keyRepeatEvent`, `_delayedCapsLockEvent` and its like | `slowEvent`, `repeat`, `delayed` |
| the dispatch sources | `timers`, those that are armed |
| `_stickyKeyState`, `_stickyKeysShiftKeyCount`, `_mouseKeyActivationCount` | `latch`, `shifts`, `alts` |
| the feature bits and delays that are not zero; the mappings | `on`, `maps` |
| `dispatch_async` to `_queue`; the queue itself | `blocks`, at most `MaxBlocks` |
| the stages of `filter()`, in its order | `FilterEvent`; `ProcessKeyMappings` ... `ProcessKeyState` |
| the timers' handlers | `DispatchSlowKey`, `DispatchKeyRepeat`, `DispatchDelayed`, `ResetCount` |
| blocks; the notification that ends sticky keys | `RunBlock`, `StickyKeyNotification` |
| `setPropertyForClient` | `SetOption`, `SetKeyMap` |
| schedule, unschedule | `ScheduleWithDispatchQueue`, `UnscheduleFromDispatchQueue` |

`held` is what the user's fingers do.  `stale` is a history: a key's mapping changed,
through a client or Fn, while slow keys or a delay were at work on a key that is held.
Nothing is claimed of such behaviours (section 6).  Left out are
`_capsLockDelayOverrideMS`, a property that changes the delay of caps lock or switches
it off (line 1219; in the model the delay is there or is not, whatever the reason),
and `_liftedKeys`, which keeps the lifting of a key from lifting it again (line 1524).

### 3.8 `HIDSystem`

| code | model |
|---|---|
| `evOpenCalled`, `eventsOpen` | the same |
| connections of window servers: `newUserClientGated`, `evOpenGated`, `evCloseGated` | `Connect`, `Abort`, `Retry`, `CreateShmem`, `Disconnect` |
| `gKeyboardEQ` under its lock, the interrupt | `gKeyboardEQ`, `interrupt` |
| `keyboardEvent` and its like on a keyboard's thread | `Stamp`, `Enqueue`, `InterruptOccurred` |
| `doProcessKeyboardEQ`, `processKeyboardEQ`, the gated handlers | `DoProcessKeyboardEQ`, `ProcessThenPost`, `Posts` |
| a process that posts: the clock outside the gate, the rest inside | `ExtPostEvent`, `ExtPostEventGated` |
| `postEvent` to the event queues of the clients | `posted`, a sequence of batches: what one element makes the gated handlers post, or one event of a process |

What is gated is one action.  A key costs one element of action "key"; an element
"power" posts two events, as the press of the power key does, and "release", which is
when it goes up, one; "special" stands for the other special keys, and "flags" elements
carry modifiers: both post nothing.  `Pressed` names the kinds that the keyboards of an
instance make.  `processKeyboardEQ` lets go of the queue's lock for each element (lines
2183 to 2191); as its callers hold the gate, all that can come between is a keyboard's
`Enqueue` at the end of the queue, with the effect of one before the drain or after it,
so that `ProcessThenPost` is one step.  `CreateShmem` asks for the owner, though
`createShmemGated` looks at nothing: what keeps it from coming after the end of its
connection is the connection's own lock (`kIOUserClientDefaultLockingKey`,
`IOHIDUserClient.cpp:101`).
`enqueued` is a history.  Assumed: the external methods of a connection return
before its `stop()` (the kernel's reference to the port sees to that).

### 3.9 `HIDSystemParams`

`setParamProperties`: `Pre` (with the sleep for `setParamPropertiesInProgress`),
`NextDevice` and `Tell` for each device outside the gate, `Post` with the wake-up.
Devices attach, register and go on the notification thread (`Attach`,
`RegisterEventSource`; `Terminate`, also of a device that is not registered yet), and
`SetProperties` gives one device settings of its own, which
`createFilteredParamPropertiesForService` hides from global ones (`Valid`).  `last` is
a history: the set that began last, and the devices that were registered then.
Dictionaries are functions; which keys belong to which type of device is left out.

### 3.10 `HIDEventService`

| code | model |
|---|---|
| `_clientDict`, replaced under `_clientDictLock`, never changed in place | `clientDict`; `snapshot` is the copy that a thread has retained |
| `dispatchEvent`, one client after the other with no lock | `DispatchEvent`, `Callbacks` |
| `eventServiceCallback` with `_state` and the client's gate | `EventServiceCallback`, `EnqueueEventGated` |
| `open`, `close` of the client in its gate, in two steps each | `Open`, `Opened`, `Close`, `Closed` |
| `clientClose`, `didTerminate`, `stop`, `free` | `Terminate`, `DidTerminate`, `DidClose`, `Stop`, `Stopped`, `Free` |

`steady`, a history, holds the clients that have been open since a thread retained its
copy; `counted`, another, those that have counted its event (`_eventCount`).  Who
counts an event puts it in its queue or, if that is full, counts it as dropped too
(`_droppedEventCount`, line 663 of `IOHIDEventServiceUserClient.cpp`): `NoneMissed`
does not say which, as what fits is the matter of `SharedDataQueue`.  Assumed:
external methods return before `stop()`; `runAction` on a gate that is gone does
nothing; a client has a queue (a service may set its size to zero, and then gets no
event, line 639); and there is memory.  Without memory `handleOpen` refuses a client
(lines 1117 and 1126 of `IOHIDEventService.cpp`), `handleClose` leaves a client that
closes in the dictionary (line 1147), and `dispatchEvent` calls nobody (line 2285):
`StoppedIsClosed` and `NoneMissed` do not hold of these.

## 4. What the runs check

| run | instance | what it shows |
|---|---|---|
| `user_device_reports` | a synchronous get, an asynchronous get that may ask again, an asynchronous oversized set; a queue of 2; 2 ticks | `RequestsAccounted`, `SuccessIsEarned`, `MemoryKept`, `QuietAfterStop`, and the refinement of `ReportTransactions` |
| `user_device_liveness` | a synchronous and an asynchronous get, a queue of 1 | `RequestsEnd` |
| `data_queue` | four kinds of queue, six words, entries of two or three words, six of them | `InOrder`, `RingBounds`, `Deliveries` |
| `action_queue` | two threads and the work loop's own, two asynchronous and one synchronous call each | `SerialRun`, refinement of `SerialQueue` (safety and liveness) |
| `device_async` | three calls, one made by another's completion, in memory that is reused; 3 ticks | `CallsAccounted`, `TerminationWaits`, refinement of `ReportTransactions`, `CallsEnd` |
| `device_commits` | requests of two reports and of one, any of which may be refused, be late or find no memory, with the timer and the termination at any moment | `Completions`, `SuccessMeansAll`, `EveryRequestEnds` |
| `device_clients` | two clients with queues of one entry, either of which may seize; one opens twice and disposes of its queue; three reports | `DeliveredInOrder`, `SeizeAgrees`, `NobodyStranded` |
| `keyboard_filter` | Shift, Option, Fn, caps lock and a letter, three held at a time; three sets of options; a mapping that a client sets and one by Fn; one block waiting | `NothingStuck`, `KeysAccounted` |
| `hid_system` | three servers, two keyboards with two elements of three kinds (a key, the power key, modifiers), a process with one event, a clock to 2 | `SingleOwner`, `NoneStranded`, `KeysInOrder` |
| `hid_system_params` | three threads with a set each (two keys, temporary or not), two devices, one with settings of its own | `OneSetAtATime`, `LastSetInForce`, `EverySetReturns` |
| `event_service` | two clients, one of which opens twice, two threads with an event each | `NoneMissed`, `NoneOutlived`, `EveryClientGoes` |
| `user_device_reissue` | two asynchronous gets, the first of which asks again | the code departs from what a test says (section 6) |

Several of these are conjunctions of named parts, each of which says one thing:
`RequestsAccounted` of `NoLostRequest`, `TimerCoversDeadlines` and
`NothingPendingWithoutPort`; `MemoryKept` of `BufferRetained` and
`OversizedReadable`; `RequestsEnd` of `EveryRequestEnds` and `CleanupReturns`;
`RingBounds` of `WritesInRing` and `EmptyTakesHalf`; `Deliveries` of `AllDelivered`
and `ForceDelivers`; `SerialRun` of `OneAtATime`, `HandlerIsLast` and
`NoneStranded`; `CallsAccounted` of `EachEndsOnce` and `TimerCoversDeadlines`;
`CallsEnd` of `EveryCallEnds` and `TerminationEnds`; `Completions` of
`OnceAtTheEnd`, `ToldWhenDone` and what it says of `touched`; `NobodyStranded` of
`WaitersAreWoken` and `ThreadsReturn`; `KeysAccounted` of `HeldBackIsDue` and
`ReportedWhileHeld`; `NoneOutlived` of `StoppedIsClosed` and `CalledAlive`.  A fault
in the list of mutants refutes each part by itself.

### 4.1 Bounds and why they are enough

* Requests and calls: the races are between the endings of one request (answer,
  timeout, cleanup, interruption) and between one request and the timer or memory
  of another.  Two show both; the third is made by a completion action.
* Time: deadlines of 1 and 2 ticks with a clock to 2 or 3 give every order of two
  deadlines and an answer, before, at and after each.
* The ring: entries of two and three words in six wrap exactly at the end, with
  room for a bare header, and with none; six entries go round the ring twice.
* Action queue: two blocks of one thread are the least that can change places;
  two threads and the work loop race for the first place and for cancel.
* Clients: a queue of one entry and three reports put one in the queue and two in
  the list of blocked threads, so that one can wake the next; one client after the
  other in the queue array has a thread sleep at the first and then at the second.
* Keyboard: a modifier that latches and is counted (Shift), one that is counted by
  mouse keys (Option), the one that changes what keys mean (Fn), the one with a delay
  and a state (caps lock) and a letter are one key of every kind the stages tell
  apart but eject and lock, whose stage is that of caps lock.  Three held at a time
  are two modifiers and a letter.  TLC goes no further once `stale` is true, nor when
  both mappings of a client are set, which map the letter as one does (`Claimed`).
* IOHIDSystem: three servers are an owner and two that wait and are woken together;
  two keyboards raise two interrupts around one drain; the clock orders an event
  before, with and after each key.
* Parameters: with three threads two sleep for the flag while one is at the devices.
* Event service: with two threads one may hold a dictionary that the other no longer
  sees; a client that opens twice is in one thread's copy and not in the next.

`CHECK_DEADLOCK FALSE` is in every configuration as each system may really stop:
the calls of an instance are used up, its clock has reached the bound, and
everything has been delivered or closed.  What must not stop is stated by the
liveness properties.

### 4.2 Fairness

* Gates and locks are given to threads that wait for them: weak fairness for
  steps that stay enabled, strong fairness for the timer's and the termination's
  steps, which need the gate and may find it taken again and again.
* Time passes up to its bound; a sleep with a deadline ends at it.
* Stores become visible (no processor delays one for ever), and an enqueuer that
  has begun goes on.
* Nothing is assumed of the process behind a user device or of the device behind
  `IOHIDDevice`: they may never answer.  `TerminationEnds` alone supposes that the
  device does not keep the thread for good, since the code waits for it.
* `HIDSystemParams`: a thread that is not asleep goes on; who is woken looks again.
  Nothing is assumed of which sleeper gets the gate first.
* `HIDEventService`: a thread that dispatches goes on, methods return, and a client
  that has begun to terminate is taken down by the kernel.
* `HIDSystem` and `HIDKeyboardFilter` state no fairness: their properties are of
  safety, and nothing makes a user let go of a key.
* `data_queue` assumes that the client reads after it was told, and
  `device_clients` that a process reads its queue: blocking until it does is what
  the option NoDroppedReports asks for.

## 5. What is proved

TLAPS checks the following for all values of the constants.  Proofs are in the
modules named `..._proofs`; each follows from an inductive invariant whose
conjuncts are named there.

| theorem | says | invariant |
|---|---|---|
| `HIDUserDeviceReports_proofs!TypeCorrect` | `TypeOK` | itself, with one lemma for what calling completion actions and arming the timer do |
| `...!SuccessEarned` | `SuccessIsEarned` | `TokenInv`: the tokens of accepted requests are below the counter and different, what is in `_pending`, in the queue or with the process was accepted, and a record's `ret` says success only after an answer.  The property alone is not inductive: an answer under a shared token could reach another request |
| `...!CompletedOnce` | no completion action is called twice, if they make no requests | `OnceInv`: a pending request whose action was called is the one being called now, by the frame on top of the gate, which takes it out when the action returns; those that a frame has still to call were not called before |
| `...!AllAccounted`, `MemoryHolds` | `RequestsAccounted`, `MemoryKept` | `AccountInv`.  Both properties speak of the free gate, and are broken while a function that holds it waits for a completion action; the invariant says, for each request they are broken for, which frame of the stack has still to deal with it (`NoneLost`, `AllTimed`, `BuffersKept`), wherever in the stack that frame is.  A header is read once (`HeadersKept`), or the mapping could be released between two readings |
| `...!QuietHolds` | the action property `QuietAfterStop` | `StopInv`: a thread that sleeps has its request in `_pending`, and the frame of a cleanup is the lowest of the stack, so that nothing is left on the gate when it returns |
| `...!Refines` | the refinement of `ReportTransactions`, if completions make no requests | `ToldInv`: a request that waits has not been told anything |
| `SharedDataQueue_proofs!TypeCorrect`, `Bounds` (`Contained` and `HalfFits`) | `TypeOK`, `RingBounds` | `TypeOK`, with the arithmetic of offsets in `Numbers` and `FitsEnds` |
| `...!ReadInOrder` | `InOrder` | `RingInv`: there are places `pos` at which the tail stood after each entry, such that they ascend and wrap once at most (`Ascends`) between where the enqueuer last saw the head and the tail, each entry not yet released lies whole between two of them, and where one wrapped the client can tell (`Whole`); head and tail, as either side sees them, are among those places |
| `HIDActionQueue_proofs!TypeCorrect`; `RunsSerially`, of `Alone`, `WakeUps` | `TypeOK`; `SerialRun`, of `OneAtATime`, `NoneStranded` | `GateInv`: who is inside a synchronous block holds the gate, a block of the array runs only in a drain, and the loop's own thread calls only from inside one |
| `...!CancelLast` | and of `HandlerIsLast` | `QueueInv` = `GateInv`, `FifoInv` (the blocks in the array are each thread's next ones, in order) and `CancelInv` (the cancel block is in one place at most, and last) |
| `...!Implements` | the queue implements `SerialQueue`'s initial state and steps | `QueueInv` |
| `HIDDeviceAsyncReports_proofs!TypeCorrect`, `EachCompletedOnce` | `TypeOK`, `EachEndsOnce` | `CallsInv`: typing, together with what `EachEndsOnce` says of the outcome and the list |
| `...!TerminationSafe` | `TerminationWaits` | `TermInv`: once aborted the list stays empty, and a termination is complete only when the thread is neither entered nor active |
| `...!TimerCovers`, `Accounted` | `TimerCoversDeadlines`, and so `CallsAccounted`, whatever completions do | `Covered`: the same at every step, not only when the gate is free; a sweep visits every call that stays in the list, but those that completions make |
| `...!SuccessOwn`, `...!Refines` | `SuccessIsOwn` and the refinement of `ReportTransactions`, whatever memory calls get; both name the calls (`reused`) that get the address of the one at the device | `OwnInv`: no two calls of the list have one address (`Apart`), and one at the address that the thread has is the call it executes or is in `reused`; `Begun`: what it executes was accepted |
| `HIDDeviceCommits_proofs!TypeCorrect`, `ToldOnceAtTheEnd`, `SuccessEarned` | `TypeOK`, `Completions`, `SuccessMeansAll`; for any requests of any numbers of reports, with the timer and the termination at any moment | `CommitInv`: the calls made are those completed, those in the list and the extra one, unless the call last listed is not counted yet (`CountsAgree`); how far the thread is says which calls these are (`ThreadAt`), and that the call it is at is in the list, unless the request was overtaken, which its status then shows; the status is success only while every call made so far is in the list or was answered with success (`ClientTold`).  How long the context lives (`ContextKept`) is said of requests that were not overtaken, and `touched` that the others harm only themselves.  The lemmas count the calls of each request in the list, and say what `CommitComplete` does to the count |
| `HIDSystem_proofs!TypeCorrect`, `OneOwner` | `TypeOK`, `SingleOwner` | `OwnerInv`: with the types of the session's variables it is inductive, as every action that lets the session go wakes all who sleep for it |
| `...!NothingStranded` | `NoneStranded` | `QueueInv`: with the types of the queue's variables, in which no element is later than the clock, so that a pass without a deadline leaves none |
| `...!KeysKeptInOrder` | `KeysInOrder` | `OrderInv`: the queue is in order, and each element in it comes after all that was posted from the keyboards, and after an event of a process only for a reason that the property names: it was queued later, or behind an element that is later than the event |
| `...!Typing`, `SetsKeptApart`, of `HIDSystemParams` | `ParamsTypeOK`, `OneSetAtATime` | each with `ParamsTypeOK` is inductive: a set that comes from its sleep looks at the flag again, and `Post` wakes all |
| `...!LastSetHolds` | `LastSetInForce` | `ForceInv`: the set between its two visits to the gate is the last one, and each device it found is still to be told, or in hand with the set's values, or has them, but for what it has of its own |
| `HIDDeviceClients_proofs!TypeCorrect` | `TypeOK` | `TypeInv`, with `GateInv`: the thread that runs has the gate, and the element of a thread that has begun holds a report |
| `...!NoWakeUpLost` | `WaitersAreWoken`, the safety half of `NobodyStranded` | `BaseInv` adds `ListInv`: a blocked report is in one list, once, and of each list only the first can be awake, so that a wake-up always meets the one it is for; `CloserInv`: a list that has somebody belongs to a client that is open, or whose `close()` sleeps on it |
| `...!SeizingShuts` | `SeizeAgrees`, for any clients that may seize, and open again with other options | `EnabledInv`: the queue of a client is enabled exactly while it is open and not seized; `SeizeInv`: who has seized the device is open and not among the misled; the rest is the property itself, which with these two is inductive |
| `...!DeliveredUndisturbed` | `DeliveredInOrder`, while nothing is disturbed | `DeliverInv`.  `PlaceInv` says at which queue each sleeper is; `OrderInv` says that a report that is not late is never behind a later one, whichever of the two waits, runs or is done (`NotBehind`); `GotInv`, that who has got a report has its thread behind itself, so that it comes but once; `OwedInv`, that a report which is owed has been got or is still to come.  The property alone says nothing of reports on their way |
| `HIDEventService_proofs!Typing`, `EveryOpenClientIsServed`, `NothingOutlived` | `TypeOK`, `NoneMissed`, `NoneOutlived` | `IInv`: `DictInv` relates a client's listing, its state, the method that is under way and its termination (the property alone lets an open() end after stop() looked); `ThreadInv` says that what a thread has still to call is in the copy it retained, and that this keeps its clients from being freed |

Conditions.  Three of these properties name, in a history variable, whom a fault of the
code has reached, and claim the rest for everybody else and for every behaviour:
`reused` in `SuccessIsOwn` and the refinement beside it, `overtaken` in `Completions`
and `EveryRequestEnds`, `misled` in `SeizeAgrees`.  No step is excluded and no constant
restricted, so that the theorems bound the harm that the fault can do: a call at the
address of the one at the device, and no other, can be told that one's success, and even
that one ends once; an overtaken request takes no other with it; who is not misled is
right about the device.  What the strict properties would say is refuted (section 6).

Two theorems have a hypothesis.  `Reissuers = {}` in `CompletedOnce` and the `Refines`
beside it is needed because a request made by a completion action can bring about the
second completion of the finding `user_device_reissue`; `AllAccounted`, `MemoryHolds` and
`QuietHolds` do without it.  `Undisturbed` in `DeliveredUndisturbed` is a
condition on steps, and excludes two kinds only, one for each fault of delivery in
section 6: a report that is read into the element of one that sleeps (`ElementsKept`), and
the disposal of a queue that is before a queue with sleepers which is not the last
(`NoneSkipped`; at the last one the thread has no queue left to skip).  Clients may open,
close, seize and dispose of queues in any other way.  TLC confirmed the inductive
invariant, under `Init` and steps that disturb nothing, with two clients and four reports
that share elements, with three clients and two reports, and in part with three clients
and three reports.

`HIDSystem_proofs` extends `HIDSystem` and `HIDSystemParams`, which model one class and
share no variable.

What `TimerCoversDeadlines` excepts are the calls that completions make: these can miss
the timer (`setNextAsyncTimeout` is not reentrant, lines 2113 to 2127 of
`IOHIDDevice.cpp`).
The assumptions on constants say no more than which sets are disjoint, which numbers
are positive, and that a queue is in the array once.

Only model-checked: all liveness, which under fairness is out of the proof system's
reach (and with it the two properties of delivery of the ring, and the fair half of
the refinement of `SerialQueue`, and the half `ThreadsReturn` of `NobodyStranded`); and
`HIDKeyboardFilter`, whose `Send` is recursive: an event that a stage sends goes through
all the stages again.

## 6. Where the code departs from its documentation

The run `user_device_reissue` ends with a counterexample: `postReportResult` calls
the completion action before it takes the request out of `_pending`.  If the action
makes another asynchronous request and the first one's deadline has passed, the
first action is called a second time, with a timeout.  The test driver checks that
it is called once (`IOHIDAsyncReportTestDriver.cpp:140`).

TLC refutes each of the following as well, with the property or the change to a
configuration that is named; what the runs check excepts them.

* `HIDDeviceAsyncReports`, `SuccessIsOwn` without `reused` (eight states): the pointer to
  the call under way is compared after the gate was given up.  If the call timed out and
  its memory went to a new call, that one is completed with the first one's success
  (`IOHIDDevice.cpp:2182`; line 2162 says "Assume everything will be freed during the
  call").
* `HIDDeviceCommits`, `OnceAtTheEnd` and `ToldWhenDone` of all requests, and `touched = {}`:
  a call is in the list before it is counted, so that the timer or `willTerminate` can
  complete it while the thread is still at its calls.  The client's completion is then
  called too early (four states; `IOHIDDevice.cpp:2599`, "One extra, so CommitComplete
  knows when origCompletion can be triggered") or twice (seven), a context is used that
  has been freed (five), or the completion is never called (eight; `IOHIDDevice.h:813`
  promises it "when the asynchronous call has finished running").
* `HIDDeviceClients`, `Cookie <- MCOneCookie`, `DeliveredInOrder`: two reports of one
  ID wait for room in the queue of a client that asked for NoDroppedReports.  What
  waits is a pointer to the element's value, which the second report overwrites
  (`IOHIDElementPrivate.cpp:1175`): the client gets the second report twice and the
  first never.
* `HIDDeviceClients`, three clients with NoDroppedReports, one of which (`Leavers`)
  closes, queues of one entry, `DeliveredInOrder`: while a thread sleeps at the queue of
  one client, the queue before it in the array is disposed of; the thread goes on from
  the index it had (`IOHIDElementPrivate.cpp:1209`), and the third client loses the
  report.
* `HIDDeviceClients`, `SeizeAgrees` without `misled` (four states): `messageGated` takes
  no notice of a message whose options equal those its own client has open
  (`IOHIDLibUserClient.cpp:870` and 878).  Who was open with the same options stays
  enabled while another seizes the device; a client that was refused stays seized after
  the one that has the device has closed; and the close of a refused client is taken
  for the end of the seizure, although another still has the device.
* `HIDSystem`, `NoKeyLost`: `processKeyboardEQ` dequeues an element and only then
  compares its time with the deadline; one that is too late ends the loop, and is
  neither run nor put back (`IOHIDSystem.cpp:2181`).  A process reads the clock for
  its event, a key is pressed and queued, the event is then posted in the gate: the
  key is gone.  The comment on the caller (line 1628) says of the clearing of the
  queue that it "should keep the events in order".
* `HIDKeyboardFilter`, the keys {lshift, eject} with the option "eject" and
  `AbortedByRelease`: `filter()` calls the stages that delay eject and lock only while
  no modifier is down (lines 1223, 1227), so that with a modifier pressed in between
  the release passes and the delayed press comes after it; the comment at line 2438
  says of the key up "abort ejectKey timer, kill the up event".

More of the keyboard filter that its model shows, which no comment speaks of, and
which the run's options exclude or `stale` marks:

* what slow keys hold back is a copy without its attachments: a mapping, by Fn or by a
  client, that changes while it waits leaves the key down;
* with key repeat off, or with two letters held, a letter that went down plain and
  goes up while Fn is held goes up under its other name and stays down;
* turning slow keys on keeps the delay of lock; turning key repeat off while a key
  repeats leaves its timer armed; turning sticky keys off leaves `Down_Unlocked`
  behind, and the next press of that modifier is dropped; the block that starts sticky
  keys may come late; a restored caps lock is a press without a release.

## 7. What is not modelled

The components marked `not_modelled` in `PROJECT.json`, each with its reason, and in
the modelled ones: parameter checks of the external methods and entitlements; the
user client's `asyncSupport` switch (treated as on); completion actions that make
synchronous requests (the code would sleep in the gate it holds); the synchronous
path of `runElementValues`; `cancel()` raising the interrupt of an action queue that
is already detached, or not attached yet; reuse of memory in `HIDDeviceCommits`; in
`HIDDeviceClients` suspension of the process, oversized reports, termination, opening
while closing and sleeps that are interrupted (a third client, for whom the disposal of
a queue before the one at which a thread sleeps would matter, is in the model and not in
the run); in `HIDSystem` the cursor and the screens (whose count `unregisterScreenGated` lowers
although `registerScreenGated` sets it to the highest index plus one), pointing
events, the registration of event queues, the state of activity and the loss of a
"flags" element's modifiers; in `HIDSystemParams` a device that registers while a set
is under way, which keeps the older settings, and a `setProperties` between the
filtering and the push, which is overwritten (the code does both, and
`LastSetInForce` excepts them); in `HIDEventService` the nubs of single-user mode,
whose shim `dispatchKeyboardEvent` looks at outside the lock (line 2648), and an event
of an earlier session that lands in the queue of a client that has opened again.
