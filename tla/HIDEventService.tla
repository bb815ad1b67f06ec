---------------------------- MODULE HIDEventService ----------------------------
(***************************************************************************)
(* IOHIDEventService and the connections that listen to it.                 *)
(*                                                                          *)
(* The clients of a service are kept in a dictionary that is copied before  *)
(* every change, under _clientDictLock, and never changed in place.         *)
(* dispatchEvent retains the dictionary it finds and calls the clients in   *)
(* it with no lock held: while it does, clients open, close, terminate and  *)
(* are freed, and other threads dispatch events of their own.               *)
(*                                                                          *)
(* A connection, IOHIDEventServiceUserClient, has a queue (start() makes    *)
(* it, unless its size is set to zero) and opens and closes the service in  *)
(* its command gate, but it also closes it as it terminates, with the gate  *)
(* free or not.                                                             *)
(***************************************************************************)
EXTENDS Naturals, FiniteSets

CONSTANTS
    Clients,
    Threads,     \* the threads that dispatch events
    MaxEvents,   \* how many events each thread dispatches
    MaxOpens     \* how often each client opens the service

ASSUME EventServiceAssumption ==
    /\ MaxEvents \in Nat
    /\ MaxOpens \in [Clients -> Nat]
    /\ Clients \cap {"idle", "calling"} = {}

VARIABLES
    clientDict,  \* the clients in _clientDict
    state,       \* _state of each client
    method,      \* the step its open() or close() has come to, in its gate
    opens,
    life,        \* how far its termination has come
    thread,      \* the step of each dispatching thread
    events,      \* how many events each thread has dispatched
    snapshot,    \* the clients in the dictionary it has retained
    todo,        \* the clients it has still to call
    counted,     \* the clients that have counted its event (_eventCount)
    steady       \* the clients that are open since it retained the dictionary

client   == <<clientDict, state, method, opens, life>>
dispatch == <<thread, events, snapshot, todo, counted>>
vars     == <<client, dispatch, steady>>

Init ==
    /\ clientDict = {}
    /\ state = [c \in Clients |-> "none"]
    /\ method = [c \in Clients |-> "none"]
    /\ opens = [c \in Clients |-> 0]
    /\ life = [c \in Clients |-> "active"]
    /\ thread = [t \in Threads |-> "idle"]
    /\ events = [t \in Threads |-> 0]
    /\ snapshot = [t \in Threads |-> {}]
    /\ todo = [t \in Threads |-> {}]
    /\ counted = [t \in Threads |-> {}]
    /\ steady = [t \in Threads |-> {}]

\* A client that begins to close is not one that stays open.
NotSteady(c) == steady' = [t \in Threads |-> steady[t] \ {c}]

(***************************************************************************)
(* Opening and closing.                                                    *)
(***************************************************************************)

\* MUTANT: the dictionary is changed in place, and the iterators over it end.
BugInPlace == [t \in Threads |-> IF thread[t] = "calling" THEN {} ELSE todo[t]]

\* What is left to the iterators when the dictionary has been copied first.
Iterators == todo

HandleOpen(c) ==
    /\ clientDict' = clientDict \cup {c}
    /\ todo' = Iterators

HandleClose(c) ==
    /\ clientDict' = clientDict \ {c}
    /\ todo' = Iterators

\* open(): an external method, which finds the client active and not open, ...
Open(c) ==
    /\ method[c] = "none"
    /\ life[c] = "active"
    /\ state[c] # "open"
    /\ opens[c] < MaxOpens[c]
    /\ opens' = [opens EXCEPT ![c] = @ + 1]
    /\ method' = [method EXCEPT ![c] = "opening"]
    /\ HandleOpen(c)
    /\ UNCHANGED <<state, life, thread, events, snapshot, counted, steady>>

\* ... and says so once the service has been opened.
Opened(c) ==
    /\ method[c] = "opening"
    /\ state' = [state EXCEPT ![c] = "open"]
    /\ method' = [method EXCEPT ![c] = "none"]
    /\ UNCHANGED <<clientDict, opens, life, dispatch, steady>>

\* close(), as an external method: the service is closed, ...
Close(c) ==
    /\ method[c] = "none"
    /\ life[c] = "active"
    /\ state[c] = "open"
    /\ method' = [method EXCEPT ![c] = "closing"]
    /\ HandleClose(c)
    /\ NotSteady(c)
    /\ UNCHANGED <<state, opens, life, thread, events, snapshot, counted>>

\* ... and then the client is.
Closed(c) ==
    /\ method[c] = "closing"
    /\ state' = [state EXCEPT ![c] = "close"]
    /\ method' = [method EXCEPT ![c] = "none"]
    /\ UNCHANGED <<clientDict, opens, life, dispatch, steady>>

(***************************************************************************)
(* The end of a client.                                                    *)
(***************************************************************************)

\* clientClose, or the service terminates: no external method begins now.
Terminate(c) ==
    /\ life[c] = "active"
    /\ life' = [life EXCEPT ![c] = "inactive"]
    /\ UNCHANGED <<clientDict, state, method, opens, dispatch, steady>>

\* close() outside the gate: a client that it finds open is taken out of the
\* dictionary, and has its _state set after that.
CloseAt(c, from, during, to) ==
    /\ life[c] = from
    /\ IF state[c] = "open"
       THEN HandleClose(c) /\ NotSteady(c) /\ life' = [life EXCEPT ![c] = during]
       ELSE life' = [life EXCEPT ![c] = to] /\ UNCHANGED <<clientDict, todo, steady>>
    /\ UNCHANGED <<state, method, opens, thread, events, snapshot, counted>>

ClosedAt(c, during, to) ==
    /\ life[c] = during
    /\ life' = [life EXCEPT ![c] = to]
    /\ state' = [state EXCEPT ![c] = "close"]
    /\ UNCHANGED <<clientDict, method, opens, dispatch, steady>>

DidTerminate(c) == CloseAt(c, "inactive", "closing", "terminated")
DidClose(c)     == ClosedAt(c, "closing", "terminated")

\* MUTANT: didTerminate has closed it, so stop only takes the gate away.
BugStop(c) ==
    /\ method[c] = "none"
    /\ life[c] = "terminated"
    /\ life' = [life EXCEPT ![c] = "stopped"]
    /\ UNCHANGED <<clientDict, state, method, opens, dispatch, steady>>

\* stop(), when the last external method has returned; the gate goes with it.
Stop(c) == method[c] = "none" /\ CloseAt(c, "terminated", "stopping", "stopped")
Stopped(c) == ClosedAt(c, "stopping", "stopped")

\* MUTANT: the dictionary is used by dispatchEvent and not retained.
BugHeld(c) == c \in clientDict

\* A dictionary retains its keys, and a thread its dictionary.
Held(c) == c \in clientDict \/ \E t \in Threads : c \in snapshot[t]

Free(c) ==
    /\ life[c] = "stopped"
    /\ ~Held(c)
    /\ life' = [life EXCEPT ![c] = "freed"]
    /\ UNCHANGED <<clientDict, state, method, opens, dispatch, steady>>

(***************************************************************************)
(* dispatchEvent.                                                          *)
(***************************************************************************)

DispatchEvent(t) ==
    /\ thread[t] = "idle"
    /\ events[t] < MaxEvents
    /\ events' = [events EXCEPT ![t] = @ + 1]
    /\ thread' = [thread EXCEPT ![t] = "calling"]
    /\ snapshot' = [snapshot EXCEPT ![t] = clientDict]
    /\ todo' = [todo EXCEPT ![t] = clientDict]
    /\ steady' = [steady EXCEPT ![t] = {c \in clientDict : state[c] = "open"}]
    /\ UNCHANGED <<client, counted>>

\* eventServiceCallback looks at _state outside the gate ...
EventServiceCallback(t, c) ==
    /\ thread[t] = "calling"
    /\ c \in todo[t]
    /\ IF state[c] = "open"
       THEN thread' = [thread EXCEPT ![t] = c] /\ UNCHANGED todo
       ELSE todo' = [todo EXCEPT ![t] = @ \ {c}] /\ UNCHANGED thread
    /\ UNCHANGED <<client, events, snapshot, counted, steady>>

\* ... and enters it, to count the event and put it in the queue; if that is
\* full, the event is counted as dropped as well.  There is no gate to enter
\* once stop() took it away.
EnqueueEventGated(t, c) ==
    /\ thread[t] = c
    /\ method[c] = "none"
    /\ thread' = [thread EXCEPT ![t] = "calling"]
    /\ todo' = [todo EXCEPT ![t] = @ \ {c}]
    /\ counted' = [counted EXCEPT ![t] = IF life[c] = "stopped" THEN @ ELSE @ \cup {c}]
    /\ UNCHANGED <<client, events, snapshot, steady>>

\* MUTANT: the dictionary is not released.
BugKept(t) == snapshot

Released(t) == [snapshot EXCEPT ![t] = {}]

\* Everybody has been called: iterator and dictionary are released.
Return(t) ==
    /\ thread[t] = "calling"
    /\ todo[t] = {}
    /\ thread' = [thread EXCEPT ![t] = "idle"]
    /\ snapshot' = Released(t)
    /\ counted' = [counted EXCEPT ![t] = {}]
    /\ steady' = [steady EXCEPT ![t] = {}]
    /\ UNCHANGED <<client, events, todo>>

Callbacks(t) ==
    \/ \E c \in Clients : EventServiceCallback(t, c) \/ EnqueueEventGated(t, c)
    \/ Return(t)

Ending(c) == DidTerminate(c) \/ DidClose(c) \/ Stop(c) \/ Stopped(c) \/ Free(c)

Next ==
    \/ \E c \in Clients :
          Open(c) \/ Opened(c) \/ Close(c) \/ Closed(c) \/ Terminate(c) \/ Ending(c)
    \/ \E t \in Threads : DispatchEvent(t) \/ Callbacks(t)

\* A thread that dispatches goes on, an external method returns, and a client
\* that has begun to terminate is taken down.
Fairness ==
    /\ \A t \in Threads : WF_vars(Callbacks(t))
    /\ \A c \in Clients : WF_vars(Opened(c) \/ Closed(c)) /\ WF_vars(Ending(c))

Spec == Init /\ [][Next]_vars /\ Fairness

(***************************************************************************)
(* Properties.                                                             *)
(***************************************************************************)

TypeOK ==
    /\ clientDict \subseteq Clients
    /\ state \in [Clients -> {"none", "open", "close"}]
    /\ method \in [Clients -> {"none", "opening", "closing"}]
    /\ opens \in [Clients -> Nat]
    /\ life \in [Clients -> {"active", "inactive", "closing", "terminated", "stopping", "stopped", "freed"}]
    /\ thread \in [Threads -> {"idle", "calling"} \cup Clients]
    /\ events \in [Threads -> 0..MaxEvents]
    /\ snapshot \in [Threads -> SUBSET Clients]
    /\ todo \in [Threads -> SUBSET Clients]
    /\ counted \in [Threads -> SUBSET Clients]
    /\ steady \in [Threads -> SUBSET Clients]

\* Whoever is open from before an event is dispatched counts it, and has it put
\* in its queue or counts it as dropped, however many others open and close
\* while the clients are being called.
NoneMissed == \A t \in Threads : steady[t] \subseteq counted[t] \cup todo[t]

\* A client that has stopped is not in the dictionary, even if its open() was
\* under way, and not yet noticed, when didTerminate closed it.
StoppedIsClosed == \A c \in clientDict : life[c] \notin {"stopped", "freed"}

\* Nobody calls a client that has been freed.
CalledAlive ==
    \A t \in Threads : thread[t] # "idle" => \A c \in todo[t] : life[c] # "freed"

\* No call and no listing outlives the client (the dictionary and each copy of
\* it hold their clients, and stop() makes up for what didTerminate missed).
NoneOutlived == StoppedIsClosed /\ CalledAlive

\* Every client that terminates is freed in the end: its methods return and
\* every thread that has it in its dictionary lets go of it.
EveryClientGoes == \A c \in Clients : life[c] = "inactive" ~> life[c] = "freed"
================================================================================
