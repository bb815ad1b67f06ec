------------------------- MODULE HIDEventService_proofs -------------------------
(***************************************************************************)
(* For any clients and dispatching threads: no client that stays open       *)
(* misses an event, none is left in the dictionary when it has stopped, and *)
(* none is called when it has been freed.                                   *)
(***************************************************************************)
EXTENDS HIDEventService, TLAPS

Gone == {"stopped", "freed"}

\* A client is in the dictionary while it is open or about to be, and is not
\* in it any more when its close() has yet to set _state.
DictInv(c) ==
    /\ c \in clientDict => state[c] = "open" \/ method[c] = "opening"
    /\ method[c] = "opening" => state[c] # "open"
    /\ method[c] = "closing" => c \notin clientDict
    /\ life[c] \in {"closing", "stopping"} => c \notin clientDict /\ method[c] # "opening"
    /\ life[c] \in Gone \cup {"stopping"} => method[c] = "none"
    /\ life[c] \in Gone => state[c] # "open"

\* What a thread knows of a client: it is called only if it is retained, and
\* if it is steady it is open and nothing is closing it.
ThreadInv(t, c) ==
    /\ c \in todo[t] => c \in snapshot[t]
    /\ c \in snapshot[t] => life[c] # "freed"
    /\ c \in steady[t] =>
          /\ state[c] = "open"
          /\ method[c] # "closing"
          /\ life[c] \notin {"closing", "stopping"}
          /\ c \in counted[t] \cup todo[t]

IInv ==
    /\ TypeOK
    /\ \A c \in Clients : DictInv(c)
    /\ \A t \in Threads, c \in Clients : ThreadInv(t, c)

\* What follows from the invariant: the properties of the model.
LEMMA IInvMeans ==
    ASSUME IInv
    PROVE  NoneMissed /\ StoppedIsClosed /\ CalledAlive
  <1>1. NoneMissed
    BY DEF IInv, TypeOK, ThreadInv, NoneMissed
  <1>2. StoppedIsClosed
    BY DEF IInv, TypeOK, DictInv, Gone, StoppedIsClosed
  <1>3. CalledAlive
    BY DEF IInv, TypeOK, ThreadInv, CalledAlive
  <1>4. QED
    BY <1>1, <1>2, <1>3

LEMMA Initially == Init => IInv
  <1> SUFFICES ASSUME Init PROVE IInv
    OBVIOUS
  <1>1. TypeOK
    BY EventServiceAssumption DEF Init, TypeOK, EventServiceAssumption
  <1>2. \A c \in Clients : DictInv(c)
    BY DEF Init, DictInv, Gone
  <1>3. \A t \in Threads, c \in Clients : ThreadInv(t, c)
    BY DEF Init, ThreadInv
  <1>4. QED
    BY <1>1, <1>2, <1>3 DEF IInv

\* The steps of a client.
LEMMA ClientStep ==
    ASSUME IInv, NEW d \in Clients,
           Open(d) \/ Opened(d) \/ Close(d) \/ Closed(d) \/ Terminate(d) \/ Ending(d)
    PROVE  IInv'
  <1> USE EventServiceAssumption DEF EventServiceAssumption
  <1>1. CASE Open(d)
    <2>1. TypeOK'
      BY <1>1 DEF IInv, TypeOK, Open, HandleOpen, Iterators
    <2>2. \A c \in Clients : DictInv(c)'
      BY <1>1 DEF IInv, TypeOK, DictInv, Gone, Open, HandleOpen
    <2>3. \A t \in Threads, c \in Clients : ThreadInv(t, c)'
      BY <1>1 DEF IInv, TypeOK, ThreadInv, DictInv, Gone, Open, HandleOpen, Iterators
    <2>4. QED
      BY <2>1, <2>2, <2>3 DEF IInv
  <1>2. CASE Opened(d)
    <2>1. TypeOK'
      BY <1>2 DEF IInv, TypeOK, Opened, dispatch
    <2>2. \A c \in Clients : DictInv(c)'
      BY <1>2 DEF IInv, TypeOK, DictInv, Gone, Opened, dispatch
    <2>3. \A t \in Threads, c \in Clients : ThreadInv(t, c)'
      BY <1>2 DEF IInv, TypeOK, ThreadInv, DictInv, Gone, Opened, dispatch
    <2>4. QED
      BY <2>1, <2>2, <2>3 DEF IInv
  <1>3. CASE Close(d)
    <2>1. TypeOK'
      BY <1>3 DEF IInv, TypeOK, Close, HandleClose, Iterators, NotSteady
    <2>2. \A c \in Clients : DictInv(c)'
      BY <1>3 DEF IInv, TypeOK, DictInv, Gone, Close, HandleClose
    <2>3. \A t \in Threads, c \in Clients : ThreadInv(t, c)'
      BY <1>3 DEF IInv, TypeOK, ThreadInv, Close, HandleClose, Iterators, NotSteady
    <2>4. QED
      BY <2>1, <2>2, <2>3 DEF IInv
  <1>4. CASE Closed(d)
    <2>1. TypeOK'
      BY <1>4 DEF IInv, TypeOK, Closed, dispatch
    <2>2. \A c \in Clients : DictInv(c)'
      BY <1>4 DEF IInv, TypeOK, DictInv, Gone, Closed, dispatch
    <2>3. \A t \in Threads, c \in Clients : ThreadInv(t, c)'
      BY <1>4 DEF IInv, TypeOK, ThreadInv, Closed, dispatch
    <2>4. QED
      BY <2>1, <2>2, <2>3 DEF IInv
  <1>5. CASE Terminate(d)
    <2>1. TypeOK'
      BY <1>5 DEF IInv, TypeOK, Terminate, dispatch
    <2>2. \A c \in Clients : DictInv(c)'
      BY <1>5 DEF IInv, TypeOK, DictInv, Gone, Terminate, dispatch
    <2>3. \A t \in Threads, c \in Clients : ThreadInv(t, c)'
      BY <1>5 DEF IInv, TypeOK, ThreadInv, Terminate, dispatch
    <2>4. QED
      BY <2>1, <2>2, <2>3 DEF IInv
  <1>6. CASE DidTerminate(d) \/ Stop(d)
    <2>1. TypeOK'
      BY <1>6 DEF IInv, TypeOK, DidTerminate, Stop, CloseAt, HandleClose, Iterators, NotSteady
    <2>2. \A c \in Clients : DictInv(c)'
      BY <1>6 DEF IInv, TypeOK, DictInv, Gone, DidTerminate, Stop, CloseAt, HandleClose
    <2>3. \A t \in Threads, c \in Clients : ThreadInv(t, c)'
      BY <1>6 DEF IInv, TypeOK, ThreadInv, DidTerminate, Stop, CloseAt, HandleClose, Iterators, NotSteady
    <2>4. QED
      BY <2>1, <2>2, <2>3 DEF IInv
  <1>7. CASE DidClose(d) \/ Stopped(d)
    <2>1. TypeOK'
      BY <1>7 DEF IInv, TypeOK, DidClose, Stopped, ClosedAt, dispatch
    <2>2. \A c \in Clients : DictInv(c)'
      BY <1>7 DEF IInv, TypeOK, DictInv, Gone, DidClose, Stopped, ClosedAt, dispatch
    <2>3. \A t \in Threads, c \in Clients : ThreadInv(t, c)'
      BY <1>7 DEF IInv, TypeOK, ThreadInv, DidClose, Stopped, ClosedAt, dispatch
    <2>4. QED
      BY <2>1, <2>2, <2>3 DEF IInv
  <1>8. CASE Free(d)
    <2>1. TypeOK'
      BY <1>8 DEF IInv, TypeOK, Free, dispatch
    <2>2. \A c \in Clients : DictInv(c)'
      BY <1>8 DEF IInv, TypeOK, DictInv, Gone, Free, dispatch
    <2>3. \A t \in Threads, c \in Clients : ThreadInv(t, c)'
      BY <1>8 DEF IInv, TypeOK, ThreadInv, Free, Held, dispatch
    <2>4. QED
      BY <2>1, <2>2, <2>3 DEF IInv
  <1>9. QED
    BY <1>1, <1>2, <1>3, <1>4, <1>5, <1>6, <1>7, <1>8 DEF Ending

\* The steps of a thread, which leave the clients as they are.
LEMMA ThreadStep ==
    ASSUME IInv, NEW u \in Threads, DispatchEvent(u) \/ Callbacks(u)
    PROVE  IInv'
  <1> USE EventServiceAssumption DEF EventServiceAssumption
  <1>1. UNCHANGED client
    BY DEF Callbacks, DispatchEvent, EventServiceCallback, EnqueueEventGated, Return
  <1>2. \A c \in Clients : DictInv(c)'
    BY <1>1 DEF IInv, DictInv, client
  <1>3. CASE DispatchEvent(u)
    <2>1. TypeOK'
      BY <1>3 DEF IInv, TypeOK, DispatchEvent, client
    <2>2. \A t \in Threads, c \in Clients : ThreadInv(t, c)'
      BY <1>3 DEF IInv, TypeOK, ThreadInv, DictInv, Gone, DispatchEvent, client
    <2>3. QED
      BY <1>2, <2>1, <2>2 DEF IInv
  <1>4. ASSUME NEW d \in Clients, EventServiceCallback(u, d)
        PROVE  IInv'
    <2>1. TypeOK'
      BY <1>4 DEF IInv, TypeOK, EventServiceCallback, client
    <2>2. \A t \in Threads, c \in Clients : ThreadInv(t, c)'
      BY <1>4 DEF IInv, TypeOK, ThreadInv, EventServiceCallback, client
    <2>3. QED
      BY <1>2, <2>1, <2>2 DEF IInv
  <1>5. ASSUME NEW d \in Clients, EnqueueEventGated(u, d)
        PROVE  IInv'
    <2>1. TypeOK'
      BY <1>5 DEF IInv, TypeOK, EnqueueEventGated, client
    <2>2. \A t \in Threads, c \in Clients : ThreadInv(t, c)'
      BY <1>5 DEF IInv, TypeOK, ThreadInv, DictInv, Gone, EnqueueEventGated, client
    <2>3. QED
      BY <1>2, <2>1, <2>2 DEF IInv
  <1>6. CASE Return(u)
    <2>1. TypeOK'
      BY <1>6 DEF IInv, TypeOK, Return, Released, client
    <2>2. \A t \in Threads, c \in Clients : ThreadInv(t, c)'
      BY <1>6 DEF IInv, TypeOK, ThreadInv, Return, Released, client
    <2>3. QED
      BY <1>2, <2>1, <2>2 DEF IInv
  <1>7. QED
    BY <1>3, <1>4, <1>5, <1>6 DEF Callbacks

LEMMA Inductive == IInv /\ [Next]_vars => IInv'
  <1> SUFFICES ASSUME IInv, [Next]_vars
               PROVE  IInv'
    OBVIOUS
  <1>1. CASE UNCHANGED vars
    <2>1. TypeOK'
      BY <1>1 DEF IInv, TypeOK, vars, client, dispatch
    <2>2. \A c \in Clients : DictInv(c)'
      BY <1>1 DEF IInv, DictInv, vars, client, dispatch
    <2>3. \A t \in Threads, c \in Clients : ThreadInv(t, c)'
      BY <1>1 DEF IInv, ThreadInv, vars, client, dispatch
    <2>4. QED
      BY <2>1, <2>2, <2>3 DEF IInv
  <1>2. QED
    BY <1>1, ClientStep, ThreadStep DEF Next

\* Every variable keeps its type.
THEOREM Typing == Spec => []TypeOK
  <1>1. IInv => TypeOK
    BY DEF IInv
  <1>2. QED
    BY <1>1, Initially, Inductive, PTL DEF Spec

\* Whoever stays open gets every event: handleOpen and handleClose copy the
\* dictionary that dispatchEvent walks.
THEOREM EveryOpenClientIsServed == Spec => []NoneMissed
  BY IInvMeans, Initially, Inductive, PTL DEF Spec

\* stop() closes what an open() that was under way in didTerminate left open,
\* and the dictionary that dispatchEvent retains keeps its clients.
THEOREM NothingOutlived == Spec => []NoneOutlived
  <1>1. IInv => NoneOutlived
    BY IInvMeans DEF NoneOutlived
  <1>2. QED
    BY <1>1, Initially, Inductive, PTL DEF Spec
================================================================================
