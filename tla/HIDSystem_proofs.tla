-------------------------- MODULE HIDSystem_proofs ----------------------------
(***************************************************************************)
(* The session has one owner and nobody sleeps while it is free, no        *)
(* element of the keyboard queue is left with nobody to handle it, and     *)
(* what is posted keeps the order of the keys, for any number of servers,  *)
(* keyboards and processes.  The parameters have their part at the end:    *)
(* HIDSystemParams shares no variable with the rest.                       *)
(***************************************************************************)
EXTENDS HIDSystem, HIDSystemParams, SequenceTheorems, TLAPS

\* The states of a connection are all the proof needs of its type.
ServerType ==
    /\ evOpenCalled \in BOOLEAN
    /\ server \in [Servers -> {"none", "asleep", "awake", "open", "gone"}]

OwnerInv == ServerType /\ SingleOwner

\* What leaves the session alone keeps its invariant.
LEMMA SessionUntouched ==
    ASSUME OwnerInv, UNCHANGED session
    PROVE  OwnerInv'
  BY DEF OwnerInv, ServerType, SingleOwner, session

\* A server that goes on in the gate takes a free session or is refused; it
\* sleeps no longer, and every other server is as it was.
LEMMA TryOpenKeepsOwner ==
    ASSUME OwnerInv, NEW s \in Servers, server[s] \in {"none", "awake"},
           TryOpen(s), UNCHANGED eventsOpen
    PROVE  OwnerInv'
  <1>1. CASE evOpenCalled
    BY <1>1 DEF OwnerInv, ServerType, SingleOwner, TryOpen
  <1>2. CASE ~evOpenCalled
    BY <1>2 DEF OwnerInv, ServerType, SingleOwner, TryOpen
  <1>3. QED
    BY <1>1, <1>2

LEMMA OwnerInvStep ==
    ASSUME OwnerInv, [Next]_vars
    PROVE  OwnerInv'
  <1>1. ASSUME NEW s \in Servers, Connect(s)
        PROVE  OwnerInv'
    <2>1. CASE evOpenCalled
      BY <1>1, <2>1 DEF OwnerInv, ServerType, SingleOwner, Connect
    <2>2. CASE ~evOpenCalled
      BY <1>1, <2>2, TryOpenKeepsOwner DEF Connect
    <2>3. QED
      BY <2>1, <2>2
  <1>2. ASSUME NEW s \in Servers, Abort(s)
        PROVE  OwnerInv'
    BY <1>2 DEF OwnerInv, ServerType, SingleOwner, Abort
  <1>3. ASSUME NEW s \in Servers, Retry(s)
        PROVE  OwnerInv'
    BY <1>3, TryOpenKeepsOwner DEF Retry
  <1>4. ASSUME NEW s \in Servers, CreateShmem(s)
        PROVE  OwnerInv'
    BY <1>4 DEF OwnerInv, ServerType, SingleOwner, CreateShmem
  <1>5. ASSUME NEW s \in Servers, Disconnect(s)
        PROVE  OwnerInv'
    <2>1. \A t \in Servers : server'[t] \notin {"open", "asleep"}
      BY <1>5 DEF OwnerInv, ServerType, SingleOwner, Disconnect
    <2>2. ServerType'
      BY <1>5 DEF OwnerInv, ServerType, Disconnect
    <2>3. QED
      BY <1>5, <2>1, <2>2 DEF OwnerInv, SingleOwner, Disconnect
  <1>6. ASSUME UNCHANGED session
        PROVE  OwnerInv'
    BY <1>6, SessionUntouched
  <1>7. QED
    BY <1>1, <1>2, <1>3, <1>4, <1>5, <1>6
       DEF Next, Stamp, Enqueue, InterruptOccurred, DoProcessKeyboardEQ, NewPoster,
           ExtPostEvent,
           ExtPostEventGated, ParametersModified, Tick, vars

\* One owner, for any set of servers: evOpenGated looks again after it slept.
THEOREM OneOwner == Spec => []SingleOwner
  <1>1. Init => OwnerInv
    BY DEF Init, OwnerInv, ServerType, SingleOwner
  <1>2. OwnerInv /\ [Next]_vars => OwnerInv'
    BY OwnerInvStep
  <1>3. OwnerInv => SingleOwner
    BY DEF OwnerInv
  <1>4. QED
    BY <1>1, <1>2, <1>3, PTL DEF Spec

\* What is queued, and when, is known to be what a keyboard made.
KeysType ==
    /\ now \in 0..MaxTime
    /\ keyboard \in [Keyboards -> [state : {"idle", "made", "queued"}, element : Elements]]
    /\ enqueued \in Seq(Elements)
    /\ gKeyboardEQ \in Seq(DOMAIN enqueued)

QueueInv == KeysType /\ NoneStranded

\* A pass up to any deadline leaves a tail of the queue, and a pass without
\* a deadline leaves nothing: no element is later than the clock.
LEMMA ProcessingLeavesATail ==
    ASSUME NEW deadline, NEW events, KeysType, ProcessThenPost(deadline, events)
    PROVE  /\ gKeyboardEQ' \in Seq(DOMAIN enqueued)
           /\ gKeyboardEQ = << >> => gKeyboardEQ' = << >>
           /\ deadline = NoTime => gKeyboardEQ' = << >>
  <1>1. PICK run \in 0..Len(gKeyboardEQ) :
           /\ run < Len(gKeyboardEQ) => enqueued[gKeyboardEQ[run + 1]].ts > deadline
           /\ gKeyboardEQ' = SubSeq(gKeyboardEQ, run + 2, Len(gKeyboardEQ))
    BY DEF ProcessThenPost
  <1>2. /\ gKeyboardEQ \in Seq(DOMAIN enqueued)
        /\ Len(gKeyboardEQ) \in Nat
    BY DEF KeysType
  <1>3. gKeyboardEQ' \in Seq(DOMAIN enqueued)
    BY <1>1, <1>2
  <1>4. ASSUME gKeyboardEQ = << >>
        PROVE  gKeyboardEQ' = << >>
    BY <1>1, <1>4
  <1>5. ASSUME deadline = NoTime
        PROVE  gKeyboardEQ' = << >>
    <2>1. run = Len(gKeyboardEQ)
      <3>1. SUFFICES ASSUME run < Len(gKeyboardEQ)
                     PROVE  FALSE
        BY <1>2
      <3>2. gKeyboardEQ[run + 1] \in DOMAIN enqueued
        BY <1>2, <3>1
      <3>3. \A n \in DOMAIN enqueued : enqueued[n] \in Elements
        BY DEF KeysType
      <3>4. \A e \in Elements : e.ts \in 0..MaxTime
        BY DEF Elements
      <3>5. enqueued[gKeyboardEQ[run + 1]].ts \in 0..MaxTime
        BY <3>2, <3>3, <3>4
      <3>6. QED
        BY <1>1, <1>5, <3>1, <3>5, HIDSystemAssumption DEF NoTime
    <2>2. QED
      BY <1>1, <1>2, <2>1
  <1>6. QED
    BY <1>3, <1>4, <1>5

\* What leaves the queue alone, and takes no waiting interrupt away, keeps
\* the invariant.
LEMMA QueueUntouched ==
    ASSUME QueueInv, UNCHANGED keys, now' \in 0..MaxTime
    PROVE  QueueInv'
  BY DEF QueueInv, KeysType, NoneStranded, keys

\* So does a pass on behalf of somebody who posts an event.
LEMMA PostingKeepsQueue ==
    ASSUME NEW deadline, NEW events, QueueInv, ProcessThenPost(deadline, events),
           UNCHANGED <<keyboard, enqueued, interrupt, now>>
    PROVE  QueueInv'
  <1>1. KeysType'
    BY ProcessingLeavesATail DEF QueueInv, KeysType
  <1>2. NoneStranded'
    BY ProcessingLeavesATail DEF QueueInv, NoneStranded
  <1>3. QED
    BY <1>1, <1>2 DEF QueueInv

LEMMA QueueInvStep ==
    ASSUME QueueInv, [Next]_vars
    PROVE  QueueInv'
  <1> USE HIDSystemAssumption
  <1>1. ASSUME NEW k \in Keyboards, NEW a \in Pressed, Stamp(k, a)
        PROVE  QueueInv'
    <2>1. [action |-> a, ts |-> IF a = "flags" THEN 0 ELSE now] \in Elements
      BY DEF QueueInv, KeysType, Elements, Actions
    <2>2. KeysType'
      BY <1>1, <2>1 DEF QueueInv, KeysType, Stamp
    <2>3. \A j \in Keyboards : keyboard[j].state = "queued" => keyboard'[j].state = "queued"
      BY <1>1 DEF QueueInv, KeysType, Stamp, Idle
    <2>4. QED
      BY <1>1, <2>2, <2>3 DEF QueueInv, NoneStranded, Stamp
  <1>2. ASSUME NEW k \in Keyboards, Enqueue(k)
        PROVE  QueueInv'
    <2>1. keyboard[k].element \in Elements
      BY DEF QueueInv, KeysType
    <2>2. enqueued' \in Seq(Elements) /\ DOMAIN enqueued' = 1..(Len(enqueued) + 1)
      BY <1>2, <2>1 DEF QueueInv, KeysType, Enqueue
    <2>3. gKeyboardEQ' \in Seq(DOMAIN enqueued')
      <3>1. gKeyboardEQ \in Seq(1..(Len(enqueued) + 1))
        BY DEF QueueInv, KeysType
      <3>2. QED
        BY <1>2, <2>2, <3>1 DEF Enqueue, QueueInv, KeysType
    <2>4. NoElement \in Elements
      BY DEF NoElement, Elements, Actions
    <2>5. KeysType'
      BY <1>2, <2>2, <2>3, <2>4 DEF QueueInv, KeysType, Enqueue
    <2>6. keyboard'[k].state = "queued"
      BY <1>2 DEF QueueInv, KeysType, Enqueue
    <2>7. QED
      BY <2>5, <2>6 DEF QueueInv, NoneStranded
  <1>3. ASSUME NEW k \in Keyboards, InterruptOccurred(k)
        PROVE  QueueInv'
    <2>1. Idle \in [state : {"idle", "made", "queued"}, element : Elements]
      BY DEF Idle, NoElement, Elements, Actions
    <2>2. QED
      BY <1>3, <2>1 DEF QueueInv, KeysType, NoneStranded, InterruptOccurred
  <1>4. CASE DoProcessKeyboardEQ
    <2>1. gKeyboardEQ' = << >>
      BY <1>4, ProcessingLeavesATail DEF DoProcessKeyboardEQ, QueueInv
    <2>2. QED
      BY <1>4, <2>1 DEF DoProcessKeyboardEQ, QueueInv, KeysType, NoneStranded
  <1>5. ASSUME NEW p \in Posters, ExtPostEventGated(p)
        PROVE  QueueInv'
    <2>1. CASE UNCHANGED gKeyboardEQ
      BY <1>5, <2>1, QueueUntouched DEF ExtPostEventGated, QueueInv, KeysType, keys
    <2>2. CASE ProcessThenPost(poster[p].ts, << Event(<< "ext" >>, 0, poster[p].ts) >>)
      BY <1>5, <2>2, PostingKeepsQueue DEF ExtPostEventGated
    <2>3. QED
      BY <1>5, <2>1, <2>2 DEF ExtPostEventGated
  <1>6. ASSUME NEW p \in Posters, ParametersModified(p)
        PROVE  QueueInv'
    BY <1>6, PostingKeepsQueue DEF ParametersModified
  <1>7. CASE Tick
    BY <1>7, QueueUntouched DEF Tick, QueueInv, KeysType
  <1>8. ASSUME UNCHANGED <<keys, now>>
        PROVE  QueueInv'
    BY <1>8, QueueUntouched DEF QueueInv, KeysType
  <1>9. QED
    BY <1>1, <1>2, <1>3, <1>4, <1>5, <1>6, <1>7, <1>8
       DEF Next, Connect, Abort, Retry, CreateShmem, Disconnect, NewPoster, ExtPostEvent, vars

\* No key waits for ever because the work loop was told too early: the
\* interrupt follows the element, and only a drain takes it back.
THEOREM NothingStranded == Spec => []NoneStranded
  <1>1. Init => QueueInv
    BY HIDSystemAssumption
       DEF Init, QueueInv, KeysType, NoneStranded, Idle, NoElement, Elements, Actions
  <1>2. QueueInv /\ [Next]_vars => QueueInv'
    BY QueueInvStep
  <1>3. QueueInv => NoneStranded
    BY DEF QueueInv
  <1>4. QED
    BY <1>1, <1>2, <1>3, PTL DEF Spec

(***************************************************************************)
(* What is posted.                                                         *)
(***************************************************************************)

Batch == [what : Batches, n : 0..Len(enqueued), ts : 0..MaxTime, after : 0..Len(enqueued)]

\* What an element posts is its own, and none of it comes from a process.
LEMMA PostsType ==
    ASSUME KeysType, NEW n \in DOMAIN enqueued
    PROVE  /\ Posts(n) \in Batch
           /\ Posts(n).n = n /\ Posts(n).what # << "ext" >>
  <1>1. /\ n \in 1..Len(enqueued) /\ Len(enqueued) \in Nat
        /\ enqueued[n].action \in Actions
        /\ enqueued[n].ts \in 0..MaxTime
    <2>1. enqueued[n] \in Elements /\ DOMAIN enqueued = 1..Len(enqueued)
      BY DEF KeysType
    <2>2. QED
      BY <2>1 DEF Elements, KeysType
  <1>2. PICK what \in {<< >>, << "key" >>, << "key", "power" >>, << "console" >>} :
            Posts(n) = Event(what, n, enqueued[n].ts)
    BY <1>1 DEF Posts
  <1>3. what # << "ext" >>
    BY <1>2
  <1>4. what \in Batches
    BY <1>2 DEF Batches
  <1>5. QED
    BY <1>1, <1>2, <1>3, <1>4 DEF Event, Batch

\* A pass up to the deadline, entry by entry: the elements that were run
\* post in their order, then the caller, and the queue keeps what follows
\* the element that was late.
PassTo(deadline, events, run) ==
    /\ run \in 0..Len(gKeyboardEQ)
    /\ DOMAIN posted' = 1..(Len(posted) + run + Len(events))
    /\ \A i \in 1..Len(posted) : posted'[i] = posted[i]
    /\ \A i \in 1..run : posted'[Len(posted) + i] = Posts(gKeyboardEQ[i])
    /\ \A i \in 1..Len(events) : posted'[Len(posted) + run + i] = events[i]
    /\ run < Len(gKeyboardEQ) => enqueued[gKeyboardEQ[run + 1]].ts > deadline
    /\ \A i \in DOMAIN gKeyboardEQ' :
          /\ run + 1 + i \in DOMAIN gKeyboardEQ
          /\ gKeyboardEQ'[i] = gKeyboardEQ[run + 1 + i]

LEMMA ProcessingPasses ==
    ASSUME TypeOK, KeysType, NEW deadline, NEW events \in Seq(Batch),
           ProcessThenPost(deadline, events)
    PROVE  /\ posted' \in Seq(Batch)
           /\ \E run \in 0..Len(gKeyboardEQ) : PassTo(deadline, events, run)
  <1>1. PICK run \in 0..Len(gKeyboardEQ) :
           /\ run < Len(gKeyboardEQ) => enqueued[gKeyboardEQ[run + 1]].ts > deadline
           /\ posted' = posted \o [i \in 1..run |-> Posts(gKeyboardEQ[i])] \o events
           /\ gKeyboardEQ' = SubSeq(gKeyboardEQ, run + 2, Len(gKeyboardEQ))
    BY DEF ProcessThenPost
  <1> DEFINE batch == [i \in 1..run |-> Posts(gKeyboardEQ[i])]
  <1>2. /\ gKeyboardEQ \in Seq(DOMAIN enqueued) /\ Len(gKeyboardEQ) \in Nat
        /\ posted \in Seq(Batch) /\ Len(posted) \in Nat /\ Len(events) \in Nat
    BY DEF KeysType, TypeOK, Batch
  <1>3. batch \in Seq(Batch) /\ Len(batch) = run
    <2>1. \A i \in 1..run : Posts(gKeyboardEQ[i]) \in Batch
      BY <1>2, PostsType
    <2>2. QED
      BY <2>1
  <1>4. batch \in Seq(Batch) /\ Len(batch) = run /\ \A i \in 1..run : batch[i] = Posts(gKeyboardEQ[i])
    BY <1>3
  <1>5. posted' = posted \o batch \o events
    BY <1>1
  <1> HIDE DEF batch
  <1>6. posted' \in Seq(Batch)
    BY <1>2, <1>4, <1>5
  <1>7. /\ DOMAIN posted' = 1..(Len(posted) + run + Len(events))
        /\ \A i \in 1..Len(posted) : posted'[i] = posted[i]
        /\ \A i \in 1..run : posted'[Len(posted) + i] = batch[i]
        /\ \A i \in 1..Len(events) : posted'[Len(posted) + run + i] = events[i]
    <2> DEFINE first == posted \o batch
    <2>1. /\ first \in Seq(Batch) /\ Len(first) = Len(posted) + run
          /\ \A i \in 1..(Len(posted) + run) :
                first[i] = IF i <= Len(posted) THEN posted[i] ELSE batch[i - Len(posted)]
      BY <1>2, <1>4, ConcatProperties
    <2>2. posted' = first \o events
      BY <1>5
    <2> HIDE DEF first
    <2>3. /\ DOMAIN posted' = 1..(Len(first) + Len(events))
          /\ \A i \in 1..(Len(first) + Len(events)) :
                posted'[i] = IF i <= Len(first) THEN first[i] ELSE events[i - Len(first)]
      <3>1. /\ Len(posted') = Len(first) + Len(events) /\ posted' \in Seq(Batch)
            /\ \A i \in 1..(Len(first) + Len(events)) :
                  posted'[i] = IF i <= Len(first) THEN first[i] ELSE events[i - Len(first)]
        BY <2>1, <2>2, ConcatProperties
      <3>2. DOMAIN posted' = 1..Len(posted')
        BY <3>1, LenProperties
      <3>3. QED
        BY <3>1, <3>2
    <2>4. ASSUME NEW i \in 1..run
          PROVE  posted'[Len(posted) + i] = batch[i]
      <3>1. /\ Len(posted) + i \in 1..(Len(posted) + run) /\ Len(posted) + i <= Len(first)
            /\ ~(Len(posted) + i <= Len(posted)) /\ Len(posted) + i - Len(posted) = i
            /\ Len(posted) + i \in 1..(Len(first) + Len(events))
        BY <1>2, <2>1
      <3>2. first[Len(posted) + i] = batch[i]
        BY <2>1, <3>1
      <3>3. QED
        BY <2>3, <3>1, <3>2
    <2>5. ASSUME NEW i \in 1..Len(events)
          PROVE  posted'[Len(posted) + run + i] = events[i]
      <3>1. /\ Len(first) + i \in 1..(Len(first) + Len(events))
            /\ ~(Len(first) + i <= Len(first)) /\ Len(first) + i - Len(first) = i
        BY <1>2, <2>1
      <3>2. QED
        BY <2>1, <2>3, <3>1
    <2>6. ASSUME NEW i \in 1..Len(posted)
          PROVE  posted'[i] = posted[i]
      <3>1. /\ i \in 1..(Len(posted) + run) /\ i <= Len(first) /\ i <= Len(posted)
            /\ i \in 1..(Len(first) + Len(events))
        BY <1>2, <2>1
      <3>2. QED
        BY <2>1, <2>3, <3>1
    <2>7. QED
      BY <2>1, <2>3, <2>4, <2>5, <2>6
  <1>8. \A i \in DOMAIN gKeyboardEQ' :
          /\ run + 1 + i \in DOMAIN gKeyboardEQ
          /\ gKeyboardEQ'[i] = gKeyboardEQ[run + 1 + i]
    <2>1. CASE run + 2 <= Len(gKeyboardEQ)
      <3>1. \A i \in (run + 2)..Len(gKeyboardEQ) : gKeyboardEQ[i] \in DOMAIN enqueued
        BY <1>2, ElementOfSeq
      <3>2. /\ Len(gKeyboardEQ') = Len(gKeyboardEQ) - (run + 2) + 1
            /\ gKeyboardEQ' \in Seq(DOMAIN enqueued)
            /\ \A i \in 1..(Len(gKeyboardEQ) - (run + 2) + 1) :
                  gKeyboardEQ'[i] = gKeyboardEQ[(run + 2) + i - 1]
        BY <1>1, <1>2, <2>1, <3>1, SubSeqProperties
      <3>3. DOMAIN gKeyboardEQ' = 1..(Len(gKeyboardEQ) - (run + 2) + 1)
        BY <3>2, LenProperties
      <3>4. DOMAIN gKeyboardEQ = 1..Len(gKeyboardEQ)
        BY <1>2, LenProperties
      <3>5. ASSUME NEW i \in 1..(Len(gKeyboardEQ) - (run + 2) + 1)
            PROVE  /\ run + 1 + i \in 1..Len(gKeyboardEQ)
                   /\ (run + 2) + i - 1 = run + 1 + i
        <4>1. Len(gKeyboardEQ) \in Nat /\ run \in Nat
          BY <1>2
        <4>2. QED
          BY <2>1, <4>1
      <3>6. QED
        BY <3>2, <3>3, <3>4, <3>5
    <2>2. CASE run + 2 > Len(gKeyboardEQ)
      <3>1. gKeyboardEQ' = << >>
        BY <1>1, <1>2, <2>2, SubSeqEmpty
      <3>2. QED
        BY <3>1
    <2>3. QED
      BY <1>2, <2>1, <2>2
  <1>9. PassTo(deadline, events, run)
    BY <1>1, <1>4, <1>7, <1>8 DEF PassTo
  <1>10. QED
    BY <1>6, <1>9

LEMMA TypeImpliesKeys ==
    ASSUME TypeOK
    PROVE  KeysType
  <1>1. DOMAIN enqueued = 1..Len(enqueued)
    BY DEF TypeOK
  <1>2. 1..MaxTime \subseteq 0..MaxTime
    BY HIDSystemAssumption
  <1>3. QED
    BY <1>1, <1>2 DEF TypeOK, KeysType

\* What a process posts is a batch of its own.
LEMMA OwnEventType ==
    ASSUME TypeOK, NEW ts \in 0..MaxTime
    PROVE  << Event(<< "ext" >>, 0, ts) >> \in Seq(Batch)
  <1>1. Len(enqueued) \in Nat
    BY DEF TypeOK
  <1>2. << "ext" >> \in Batches
    BY DEF Batches
  <1>3. Event(<< "ext" >>, 0, ts) \in Batch
    BY <1>1, <1>2 DEF Event, Batch
  <1>4. QED
    BY <1>3

\* A pass touches nothing of a type's but the queue and what is posted.
LEMMA PostingKeepsType ==
    ASSUME TypeOK, NEW deadline, NEW events \in Seq(Batch), ProcessThenPost(deadline, events),
           UNCHANGED enqueued
    PROVE  /\ gKeyboardEQ' \in Seq(1..Len(enqueued'))
           /\ posted' \in Seq([what : Batches, n : 0..Len(enqueued'), ts : 0..MaxTime,
                               after : 0..Len(enqueued')])
  <1>1. KeysType /\ DOMAIN enqueued = 1..Len(enqueued)
    BY TypeImpliesKeys DEF TypeOK
  <1>2. posted' \in Seq(Batch)
    BY <1>1, ProcessingPasses
  <1>3. gKeyboardEQ' \in Seq(1..Len(enqueued))
    BY <1>1, ProcessingLeavesATail
  <1>4. QED
    BY <1>2, <1>3 DEF Batch

LEMMA TypeStep ==
    ASSUME TypeOK, [Next]_vars
    PROVE  TypeOK'
  <1> USE HIDSystemAssumption
  <1>1. ASSUME NEW s \in Servers, Connect(s) \/ Abort(s) \/ Retry(s) \/ CreateShmem(s) \/ Disconnect(s)
        PROVE  TypeOK'
    <2>1. /\ evOpenCalled' \in BOOLEAN /\ eventsOpen' \in BOOLEAN
          /\ server' \in [Servers -> {"none", "asleep", "awake", "open", "gone"}]
      <3>1. CASE Connect(s)
        BY <3>1 DEF TypeOK, Connect, TryOpen
      <3>2. CASE Abort(s)
        BY <3>2 DEF TypeOK, Abort
      <3>3. CASE Retry(s)
        BY <3>3 DEF TypeOK, Retry, TryOpen
      <3>4. CASE CreateShmem(s)
        BY <3>4 DEF TypeOK, CreateShmem
      <3>5. CASE Disconnect(s)
        BY <3>5 DEF TypeOK, Disconnect
      <3>6. QED
        BY <1>1, <3>1, <3>2, <3>3, <3>4, <3>5
    <2>2. UNCHANGED <<keys, poster, now, posted>>
      BY <1>1 DEF Connect, Abort, Retry, CreateShmem, Disconnect
    <2>3. QED
      BY <2>1, <2>2 DEF TypeOK, keys
  <1>2. ASSUME NEW k \in Keyboards, NEW a \in Pressed, Stamp(k, a)
        PROVE  TypeOK'
    <2>1. [action |-> a, ts |-> IF a = "flags" THEN 0 ELSE now] \in Elements
      BY DEF TypeOK, Elements, Actions
    <2>2. QED
      BY <1>2, <2>1 DEF TypeOK, Stamp, session
  <1>3. ASSUME NEW k \in Keyboards, Enqueue(k)
        PROVE  TypeOK'
    <2>1. keyboard[k].element \in Elements /\ NoElement \in Elements /\ Len(enqueued) \in Nat
      BY DEF TypeOK, NoElement, Elements, Actions
    <2>2. enqueued' \in Seq(Elements) /\ Len(enqueued') = Len(enqueued) + 1
      BY <1>3, <2>1 DEF TypeOK, Enqueue
    <2>3. gKeyboardEQ' \in Seq(1..Len(enqueued'))
      <3>1. 1..Len(enqueued) \subseteq 1..Len(enqueued')
        BY <2>1, <2>2
      <3>2. gKeyboardEQ \in Seq(1..Len(enqueued'))
        BY <3>1, SeqMonotonic DEF TypeOK
      <3>3. Len(enqueued) + 1 \in 1..Len(enqueued')
        BY <2>1, <2>2
      <3>4. QED
        BY <1>3, <3>2, <3>3, AppendProperties DEF Enqueue
    <2>4. posted' \in Seq([what : Batches, n : 0..Len(enqueued'), ts : 0..MaxTime,
                           after : 0..Len(enqueued')])
      <3>1. Batch \subseteq [what : Batches, n : 0..Len(enqueued'), ts : 0..MaxTime,
                             after : 0..Len(enqueued')]
        BY <2>1, <2>2 DEF Batch
      <3>2. posted \in Seq(Batch) /\ posted' = posted
        BY <1>3 DEF TypeOK, Batch, Enqueue
      <3>3. QED
        BY <3>1, <3>2, SeqMonotonic
    <2>5. keyboard' \in [Keyboards -> [state : {"idle", "made", "queued"}, element : Elements]]
      BY <1>3, <2>1 DEF TypeOK, Enqueue
    <2>6. QED
      BY <1>3, <2>2, <2>3, <2>4, <2>5 DEF TypeOK, Enqueue, session
  <1>4. ASSUME NEW k \in Keyboards, InterruptOccurred(k)
        PROVE  TypeOK'
    <2>1. Idle \in [state : {"idle", "made", "queued"}, element : Elements]
      BY DEF Idle, NoElement, Elements, Actions
    <2>2. QED
      BY <1>4, <2>1 DEF TypeOK, InterruptOccurred, session
  <1>5. CASE DoProcessKeyboardEQ
    <2>1. << >> \in Seq(Batch)
      OBVIOUS
    <2>2. QED
      BY <1>5, <2>1, PostingKeepsType DEF TypeOK, DoProcessKeyboardEQ, session
  <1>6. ASSUME NEW p \in Posters, NewPoster(p) \/ ExtPostEvent(p)
        PROVE  TypeOK'
    <2>1. CASE NewPoster(p)
      <3>1. poster' \in [Posters -> [state : {"none", "ready", "posting"}, ts : 0..MaxTime,
                                     posts : 0..MaxPosts]]
        <4>1. poster' = [poster EXCEPT ![p].state = "ready"]
          BY <2>1 DEF NewPoster
        <4>2. poster \in [Posters -> [state : {"none", "ready", "posting"}, ts : 0..MaxTime,
                                      posts : 0..MaxPosts]]
          BY DEF TypeOK
        <4>3. QED
          BY <4>1, <4>2
      <3>2. QED
        BY <2>1, <3>1 DEF TypeOK, NewPoster, session, keys
    <2>2. CASE ExtPostEvent(p)
      <3>1. poster[p].posts + 1 \in 0..MaxPosts /\ now \in 0..MaxTime
        BY <2>2 DEF TypeOK, ExtPostEvent
      <3>2. poster' \in [Posters -> [state : {"none", "ready", "posting"}, ts : 0..MaxTime,
                                     posts : 0..MaxPosts]]
        BY <2>2, <3>1 DEF TypeOK, ExtPostEvent
      <3>3. QED
        BY <2>2, <3>2 DEF TypeOK, ExtPostEvent, session, keys
    <2>3. QED
      BY <1>6, <2>1, <2>2
  <1>7. ASSUME NEW p \in Posters, ExtPostEventGated(p)
        PROVE  TypeOK'
    <2>1. poster[p].ts \in 0..MaxTime
      BY DEF TypeOK
    <2>2. /\ gKeyboardEQ' \in Seq(1..Len(enqueued'))
          /\ posted' \in Seq([what : Batches, n : 0..Len(enqueued'), ts : 0..MaxTime,
                              after : 0..Len(enqueued')])
      BY <1>7, <2>1, OwnEventType, PostingKeepsType DEF TypeOK, ExtPostEventGated
    <2>3. poster' \in [Posters -> [state : {"none", "ready", "posting"}, ts : 0..MaxTime,
                                   posts : 0..MaxPosts]]
      <3>1. poster' = [poster EXCEPT ![p].state = "ready"]
        BY <1>7 DEF ExtPostEventGated
      <3>2. QED
        BY <3>1 DEF TypeOK
    <2>4. QED
      BY <1>7, <2>2, <2>3 DEF TypeOK, ExtPostEventGated, session
  <1>8. ASSUME NEW p \in Posters, ParametersModified(p)
        PROVE  TypeOK'
    <2>1. now \in 0..MaxTime
      BY DEF TypeOK
    <2>2. /\ gKeyboardEQ' \in Seq(1..Len(enqueued'))
          /\ posted' \in Seq([what : Batches, n : 0..Len(enqueued'), ts : 0..MaxTime,
                              after : 0..Len(enqueued')])
      BY <1>8, <2>1, OwnEventType, PostingKeepsType DEF TypeOK, ParametersModified
    <2>3. poster' \in [Posters -> [state : {"none", "ready", "posting"}, ts : 0..MaxTime,
                                   posts : 0..MaxPosts]]
      <3>1. poster[p].posts + 1 \in 0..MaxPosts
        BY <1>8 DEF TypeOK, ParametersModified
      <3>2. poster' = [poster EXCEPT ![p].posts = @ + 1]
        BY <1>8 DEF ParametersModified
      <3>3. poster \in [Posters -> [state : {"none", "ready", "posting"}, ts : 0..MaxTime,
                                    posts : 0..MaxPosts]]
        BY DEF TypeOK
      <3>4. QED
        BY <3>1, <3>2, <3>3
    <2>4. QED
      BY <1>8, <2>2, <2>3 DEF TypeOK, ParametersModified, session
  <1>9. CASE Tick
    BY <1>9 DEF TypeOK, Tick, session, keys
  <1>10. CASE UNCHANGED vars
    BY <1>10 DEF TypeOK, vars, session, keys
  <1>11. QED
    BY <1>1, <1>2, <1>3, <1>4, <1>5, <1>6, <1>7, <1>8, <1>9, <1>10 DEF Next

\* Every variable keeps its type; that modifier flags are never announced is
\* part of it, as what they post is one of the Batches.
THEOREM TypeCorrect == Spec => []TypeOK
  <1>1. Init => TypeOK
    <2>1. Idle \in [state : {"idle", "made", "queued"}, element : Elements]
      BY HIDSystemAssumption DEF Idle, NoElement, Elements, Actions
    <2>2. SUFFICES ASSUME Init
                   PROVE  TypeOK
      OBVIOUS
    <2>3. /\ evOpenCalled \in BOOLEAN /\ eventsOpen \in BOOLEAN /\ interrupt \in BOOLEAN
          /\ server \in [Servers -> {"none", "asleep", "awake", "open", "gone"}]
      BY <2>2 DEF Init
    <2>4. now \in 1..MaxTime
      BY <2>2, HIDSystemAssumption DEF Init
    <2>5. poster \in [Posters -> [state : {"none", "ready", "posting"}, ts : 0..MaxTime,
                                  posts : 0..MaxPosts]]
      BY <2>2, HIDSystemAssumption DEF Init
    <2>6. keyboard \in [Keyboards -> [state : {"idle", "made", "queued"}, element : Elements]]
      BY <2>1, <2>2 DEF Init
    <2>7. /\ enqueued \in Seq(Elements) /\ gKeyboardEQ \in Seq(1..Len(enqueued))
          /\ posted \in Seq([what : Batches, n : 0..Len(enqueued), ts : 0..MaxTime,
                              after : 0..Len(enqueued)])
      BY <2>2 DEF Init
    <2>8. QED
      BY <2>3, <2>4, <2>5, <2>6, <2>7 DEF TypeOK
  <1>2. TypeOK /\ [Next]_vars => TypeOK'
    BY TypeStep
  <1>3. QED
    BY <1>1, <1>2, PTL DEF Spec

\* What is still to be posted is later in the queue than all that was, and
\* comes after a process's event only for one of the reasons that KeysInOrder
\* names: it was queued later, or behind an element that the event met.
OrderInv ==
    /\ \A a, b \in DOMAIN gKeyboardEQ : a < b => gKeyboardEQ[a] < gKeyboardEQ[b]
    /\ \A i \in DOMAIN posted : \A a \in DOMAIN gKeyboardEQ :
          IF FromKeyboard(i) THEN posted[i].n < gKeyboardEQ[a]
          ELSE \/ gKeyboardEQ[a] > posted[i].after
               \/ \E m \in 1..(gKeyboardEQ[a] - 1) : enqueued[m].ts > posted[i].ts
    /\ KeysInOrder

\* A pass keeps the order, if the process that asks for it posts at most an
\* event of its own, with the time it gave as the deadline.
LEMMA PostingKeepsOrder ==
    ASSUME TypeOK, OrderInv, NEW deadline \in 0..NoTime, NEW events \in Seq(Batch),
           ProcessThenPost(deadline, events), UNCHANGED enqueued,
           \A i \in DOMAIN events : events[i].what = << "ext" >> /\ events[i].ts = deadline
    PROVE  OrderInv'
  <1>1. KeysType
    BY TypeImpliesKeys
  <1>2. PICK run \in 0..Len(gKeyboardEQ) : PassTo(deadline, events, run)
    BY <1>1, ProcessingPasses
  <1>3. /\ Len(posted) \in Nat /\ DOMAIN posted = 1..Len(posted)
        /\ Len(events) \in Nat /\ DOMAIN events = 1..Len(events)
        /\ Len(gKeyboardEQ) \in Nat /\ DOMAIN gKeyboardEQ = 1..Len(gKeyboardEQ)
        /\ \A a \in DOMAIN gKeyboardEQ : gKeyboardEQ[a] \in DOMAIN enqueued /\ gKeyboardEQ[a] \in Nat \ {0}
    BY <1>1 DEF TypeOK, KeysType
  <1>4. \A a \in 1..run : /\ posted'[Len(posted) + a].n = gKeyboardEQ[a]
                          /\ posted'[Len(posted) + a].what # << "ext" >>
    <2>1. SUFFICES ASSUME NEW a \in 1..run
                   PROVE  /\ posted'[Len(posted) + a].n = gKeyboardEQ[a]
                          /\ posted'[Len(posted) + a].what # << "ext" >>
      OBVIOUS
    <2>2. posted'[Len(posted) + a] = Posts(gKeyboardEQ[a])
      BY <1>2 DEF PassTo
    <2>3. gKeyboardEQ[a] \in DOMAIN enqueued
      BY <1>3
    <2>4. QED
      BY <1>1, <2>2, <2>3, PostsType
  <1>5. \A a \in DOMAIN gKeyboardEQ' : /\ run + 1 + a \in DOMAIN gKeyboardEQ
                                      /\ gKeyboardEQ'[a] = gKeyboardEQ[run + 1 + a]
                                      /\ run < Len(gKeyboardEQ) /\ a \in Nat \ {0}
    <2>1. \A a \in DOMAIN gKeyboardEQ' : a \in Nat \ {0}
      BY <1>1, ProcessingLeavesATail
    <2>2. QED
      BY <1>2, <1>3, <2>1 DEF PassTo
  <1>6. ASSUME NEW i \in DOMAIN posted'
        PROVE  \/ i \in 1..Len(posted)
               \/ \E a \in 1..run : i = Len(posted) + a
               \/ \E e \in 1..Len(events) : i = Len(posted) + run + e
    <2>1. i \in 1..(Len(posted) + run + Len(events))
      BY <1>2 DEF PassTo
    <2>2. CASE i <= Len(posted)
      BY <1>3, <2>1, <2>2
    <2>3. CASE i > Len(posted) /\ i <= Len(posted) + run
      <3>1. i - Len(posted) \in 1..run /\ i = Len(posted) + (i - Len(posted))
        BY <1>3, <2>1, <2>3
      <3>2. QED
        BY <3>1
    <2>4. CASE i > Len(posted) + run
      <3>1. /\ i - Len(posted) - run \in 1..Len(events)
            /\ i = Len(posted) + run + (i - Len(posted) - run)
        BY <1>3, <2>1, <2>4
      <3>2. QED
        BY <3>1
    <2>5. QED
      BY <1>3, <2>1, <2>2, <2>3, <2>4
  <1>7. \A a, b \in DOMAIN gKeyboardEQ' : a < b => gKeyboardEQ'[a] < gKeyboardEQ'[b]
    BY <1>5 DEF OrderInv
  <1>8. ASSUME NEW i \in DOMAIN posted', NEW a \in DOMAIN gKeyboardEQ'
        PROVE  IF FromKeyboard(i)' THEN posted'[i].n < gKeyboardEQ'[a]
               ELSE \/ gKeyboardEQ'[a] > posted'[i].after
                    \/ \E m \in 1..(gKeyboardEQ'[a] - 1) : enqueued'[m].ts > posted'[i].ts
    <2>1. CASE i \in 1..Len(posted)
      <3>1. posted'[i] = posted[i]
        BY <1>2, <2>1 DEF PassTo
      <3>2. run + 1 + a \in DOMAIN gKeyboardEQ /\ gKeyboardEQ'[a] = gKeyboardEQ[run + 1 + a]
        BY <1>5
      <3>3. IF FromKeyboard(i) THEN posted[i].n < gKeyboardEQ[run + 1 + a]
            ELSE \/ gKeyboardEQ[run + 1 + a] > posted[i].after
                 \/ \E m \in 1..(gKeyboardEQ[run + 1 + a] - 1) : enqueued[m].ts > posted[i].ts
        BY <1>3, <2>1, <3>2 DEF OrderInv
      <3>4. QED
        BY <3>1, <3>2, <3>3 DEF FromKeyboard
    <2>2. ASSUME NEW b \in 1..run, i = Len(posted) + b
          PROVE  FromKeyboard(i)' /\ posted'[i].n < gKeyboardEQ'[a]
      <3>1. b \in DOMAIN gKeyboardEQ /\ b < run + 1 + a
        BY <1>2, <1>3, <1>5 DEF PassTo
      <3>2. QED
        BY <1>4, <1>5, <2>2, <3>1 DEF OrderInv, FromKeyboard
    <2>3. ASSUME NEW e \in 1..Len(events), i = Len(posted) + run + e
          PROVE  ~FromKeyboard(i)' /\ \E m \in 1..(gKeyboardEQ'[a] - 1) : enqueued'[m].ts > posted'[i].ts
      <3> DEFINE late == gKeyboardEQ[run + 1]
      <3>1. posted'[i] = events[e] /\ enqueued[late].ts > deadline
        BY <1>2, <1>5, <2>3 DEF PassTo
      <3>2. run + 1 \in DOMAIN gKeyboardEQ /\ run + 1 < run + 1 + a
        BY <1>3, <1>5
      <3>3. late < gKeyboardEQ'[a] /\ late \in Nat \ {0}
        BY <1>3, <1>5, <3>2 DEF OrderInv
      <3>4. gKeyboardEQ'[a] \in Nat
        BY <1>3, <1>5
      <3>5. late \in 1..(gKeyboardEQ'[a] - 1)
        BY <3>3, <3>4
      <3>6. QED
        BY <1>3, <3>1, <3>5, SMTT(20) DEF FromKeyboard
    <2>4. QED
      BY <1>6, <2>1, <2>2, <2>3
  <1>9. ASSUME NEW j \in DOMAIN posted', FromKeyboard(j)', ~Silent(j)', NEW i \in 1..(j - 1)
        PROVE  IF FromKeyboard(i)' THEN posted'[i].n < posted'[j].n
               ELSE \/ posted'[j].n > posted'[i].after
                    \/ posted'[j].ts > posted'[i].ts
                    \/ \E m \in 1..(posted'[j].n - 1) : enqueued'[m].ts > posted'[i].ts
    <2>1. CASE j \in 1..Len(posted)
      <3>1. i \in 1..Len(posted)
        BY <1>3, <2>1
      <3>2. posted'[i] = posted[i] /\ posted'[j] = posted[j]
        BY <1>2, <2>1, <3>1 DEF PassTo
      <3>3. FromKeyboard(j) /\ ~Silent(j) /\ j \in DOMAIN posted
        BY <1>3, <1>9, <2>1, <3>2 DEF FromKeyboard, Silent
      <3>4. IF FromKeyboard(i) THEN posted[i].n < posted[j].n
            ELSE \/ posted[j].n > posted[i].after
                 \/ posted[j].ts > posted[i].ts
                 \/ \E m \in 1..(posted[j].n - 1) : enqueued[m].ts > posted[i].ts
        BY <1>9, <3>3 DEF OrderInv, KeysInOrder
      <3>5. QED
        BY <3>2, <3>4 DEF FromKeyboard
    <2>2. ASSUME NEW b \in 1..run, j = Len(posted) + b
          PROVE  IF FromKeyboard(i)' THEN posted'[i].n < posted'[j].n
                 ELSE \/ posted'[j].n > posted'[i].after
                      \/ posted'[j].ts > posted'[i].ts
                      \/ \E m \in 1..(posted'[j].n - 1) : enqueued'[m].ts > posted'[i].ts
      <3>1. posted'[j].n = gKeyboardEQ[b] /\ b \in DOMAIN gKeyboardEQ
        BY <1>3, <1>4, <2>2
      <3>2. CASE i \in 1..Len(posted)
        <4>1. posted'[i] = posted[i] /\ i \in DOMAIN posted
          BY <1>2, <1>3, <3>2 DEF PassTo
        <4>2. IF FromKeyboard(i) THEN posted[i].n < gKeyboardEQ[b]
              ELSE \/ gKeyboardEQ[b] > posted[i].after
                   \/ \E m \in 1..(gKeyboardEQ[b] - 1) : enqueued[m].ts > posted[i].ts
          BY <3>1, <4>1 DEF OrderInv
        <4>3. QED
          BY <3>1, <4>1, <4>2 DEF FromKeyboard
      <3>3. CASE i > Len(posted)
        <4>1. i - Len(posted) \in 1..run /\ i - Len(posted) < b /\ i = Len(posted) + (i - Len(posted))
          BY <1>3, <2>2, <3>3
        <4>2. PICK c \in 1..run : c < b /\ i = Len(posted) + c
          BY <4>1
        <4>3. c \in DOMAIN gKeyboardEQ
          BY <1>3
        <4>4. QED
          BY <1>4, <3>1, <4>2, <4>3 DEF OrderInv, FromKeyboard
      <3>4. QED
        BY <1>3, <3>2, <3>3
    <2>3. ASSUME NEW e \in 1..Len(events), j = Len(posted) + run + e
          PROVE  FALSE
      <3>1. posted'[j] = events[e]
        BY <1>2, <2>3 DEF PassTo
      <3>2. events[e].what = << "ext" >>
        BY <1>3
      <3>3. QED
        BY <1>9, <3>1, <3>2 DEF FromKeyboard
    <2>4. QED
      BY <1>6, <2>1, <2>2, <2>3
  <1>10. KeysInOrder'
    BY <1>9 DEF KeysInOrder
  <1>11. QED
    BY <1>7, <1>8, <1>10 DEF OrderInv

\* A new element comes behind all that is queued, and behind all that was
\* posted: nothing names an element that is not queued yet.
LEMMA EnqueueKeepsOrder ==
    ASSUME TypeOK, OrderInv, NEW k \in Keyboards, Enqueue(k)
    PROVE  OrderInv'
  <1> DEFINE new == Len(enqueued) + 1
  <1>1. /\ enqueued \in Seq(Elements) /\ Len(enqueued) \in Nat /\ keyboard[k].element \in Elements
        /\ gKeyboardEQ \in Seq(1..Len(enqueued)) /\ Len(gKeyboardEQ) \in Nat
        /\ DOMAIN gKeyboardEQ = 1..Len(gKeyboardEQ)
        /\ \A a \in DOMAIN gKeyboardEQ : gKeyboardEQ[a] \in 1..Len(enqueued)
        /\ \A i \in DOMAIN posted : posted[i].n \in 0..Len(enqueued) /\ posted[i].after \in 0..Len(enqueued)
    <2>1. posted \in Seq(Batch) /\ enqueued \in Seq(Elements) /\ gKeyboardEQ \in Seq(1..Len(enqueued))
      BY DEF TypeOK, Batch
    <2>2. \A i \in DOMAIN posted : posted[i] \in Batch
      BY <2>1
    <2>3. keyboard[k].element \in Elements
      BY DEF TypeOK
    <2>4. QED
      BY <2>1, <2>2, <2>3 DEF Batch
  <1>2. \A m \in 1..Len(enqueued) : enqueued'[m] = enqueued[m]
    BY <1>1, AppendProperties DEF Enqueue
  <1>3. /\ DOMAIN gKeyboardEQ' = 1..(Len(gKeyboardEQ) + 1)
        /\ \A a \in DOMAIN gKeyboardEQ : gKeyboardEQ'[a] = gKeyboardEQ[a]
        /\ gKeyboardEQ'[Len(gKeyboardEQ) + 1] = new
    BY <1>1 DEF Enqueue
  <1>4. posted' = posted
    BY DEF Enqueue
  <1>5. \A a \in DOMAIN gKeyboardEQ' : a \in DOMAIN gKeyboardEQ \/ a = Len(gKeyboardEQ) + 1
    BY <1>1, <1>3
  <1>6. ASSUME NEW a \in DOMAIN gKeyboardEQ', NEW b \in DOMAIN gKeyboardEQ', a < b
        PROVE  gKeyboardEQ'[a] < gKeyboardEQ'[b]
    <2>1. a \in DOMAIN gKeyboardEQ
      BY <1>1, <1>3, <1>6
    <2>2. CASE b \in DOMAIN gKeyboardEQ
      BY <1>3, <1>6, <2>1, <2>2 DEF OrderInv
    <2>3. CASE b = Len(gKeyboardEQ) + 1
      BY <1>1, <1>3, <2>1, <2>3
    <2>4. QED
      BY <1>5, <2>2, <2>3
  <1>7. ASSUME NEW i \in DOMAIN posted', NEW a \in DOMAIN gKeyboardEQ'
        PROVE  IF FromKeyboard(i)' THEN posted'[i].n < gKeyboardEQ'[a]
               ELSE \/ gKeyboardEQ'[a] > posted'[i].after
                    \/ \E m \in 1..(gKeyboardEQ'[a] - 1) : enqueued'[m].ts > posted'[i].ts
    <2>1. CASE a \in DOMAIN gKeyboardEQ
      <3>1. IF FromKeyboard(i) THEN posted[i].n < gKeyboardEQ[a]
            ELSE \/ gKeyboardEQ[a] > posted[i].after
                 \/ \E m \in 1..(gKeyboardEQ[a] - 1) : enqueued[m].ts > posted[i].ts
        BY <1>4, <2>1 DEF OrderInv
      <3>2. \A m \in 1..(gKeyboardEQ[a] - 1) : enqueued'[m] = enqueued[m]
        BY <1>1, <1>2, <2>1
      <3>3. QED
        BY <1>3, <1>4, <2>1, <3>1, <3>2 DEF FromKeyboard
    <2>2. CASE a = Len(gKeyboardEQ) + 1
      BY <1>1, <1>3, <1>4, <2>2
    <2>3. QED
      BY <1>5, <2>1, <2>2
  <1>8. ASSUME NEW j \in DOMAIN posted', FromKeyboard(j)', ~Silent(j)', NEW i \in 1..(j - 1)
        PROVE  IF FromKeyboard(i)' THEN posted'[i].n < posted'[j].n
               ELSE \/ posted'[j].n > posted'[i].after
                    \/ posted'[j].ts > posted'[i].ts
                    \/ \E m \in 1..(posted'[j].n - 1) : enqueued'[m].ts > posted'[i].ts
    <2>1. FromKeyboard(j) /\ ~Silent(j) /\ j \in DOMAIN posted
      BY <1>4, <1>8 DEF FromKeyboard, Silent
    <2>2. IF FromKeyboard(i) THEN posted[i].n < posted[j].n
          ELSE \/ posted[j].n > posted[i].after
               \/ posted[j].ts > posted[i].ts
               \/ \E m \in 1..(posted[j].n - 1) : enqueued[m].ts > posted[i].ts
      BY <1>8, <2>1 DEF OrderInv, KeysInOrder
    <2>3. \A m \in 1..(posted[j].n - 1) : enqueued'[m] = enqueued[m]
      <3>1. posted[j].n \in 0..Len(enqueued)
        BY <1>1, <2>1
      <3>2. \A m \in 1..(posted[j].n - 1) : m \in 1..Len(enqueued)
        BY <1>1, <3>1
      <3>3. QED
        BY <1>2, <3>2
    <2>4. QED
      BY <1>4, <2>2, <2>3 DEF FromKeyboard
  <1>9. KeysInOrder'
    BY <1>8 DEF KeysInOrder
  <1>10. QED
    BY <1>6, <1>7, <1>9 DEF OrderInv

LEMMA OrderStep ==
    ASSUME TypeOK, OrderInv, [Next]_vars
    PROVE  OrderInv'
  <1>1. ASSUME UNCHANGED <<gKeyboardEQ, enqueued, posted>>
        PROVE  OrderInv'
    BY <1>1 DEF OrderInv, KeysInOrder, FromKeyboard, Silent
  <1>2. ASSUME NEW ts \in 0..MaxTime, ProcessThenPost(ts, << Event(<< "ext" >>, 0, ts) >>), UNCHANGED enqueued
        PROVE  OrderInv'
    <2> DEFINE mine == << Event(<< "ext" >>, 0, ts) >>
    <2>1. ts \in 0..NoTime
      BY HIDSystemAssumption DEF NoTime
    <2>2. mine \in Seq(Batch)
      BY OwnEventType
    <2>3. \A i \in DOMAIN mine : mine[i].what = << "ext" >> /\ mine[i].ts = ts
      BY DEF Event
    <2>4. ProcessThenPost(ts, mine)
      BY <1>2
    <2> HIDE DEF mine
    <2>5. QED
      BY <1>2, <2>1, <2>2, <2>3, <2>4, PostingKeepsOrder
  <1>3. CASE DoProcessKeyboardEQ
    <2>1. << >> \in Seq(Batch) /\ DOMAIN << >> = {} /\ NoTime \in 0..NoTime
      BY HIDSystemAssumption DEF NoTime
    <2>2. \A i \in DOMAIN << >> : << >>[i].what = << "ext" >> /\ << >>[i].ts = NoTime
      BY <2>1
    <2>3. QED
      BY <1>3, <2>1, <2>2, PostingKeepsOrder DEF DoProcessKeyboardEQ
  <1>4. ASSUME NEW p \in Posters, ExtPostEventGated(p)
        PROVE  OrderInv'
    <2>1. poster[p].ts \in 0..MaxTime
      BY DEF TypeOK
    <2>2. CASE UNCHANGED <<gKeyboardEQ, posted>>
      BY <1>1, <1>4, <2>2 DEF ExtPostEventGated
    <2>3. CASE ProcessThenPost(poster[p].ts, << Event(<< "ext" >>, 0, poster[p].ts) >>)
      BY <1>2, <1>4, <2>1, <2>3 DEF ExtPostEventGated
    <2>4. QED
      BY <1>4, <2>2, <2>3 DEF ExtPostEventGated
  <1>5. ASSUME NEW p \in Posters, ParametersModified(p)
        PROVE  OrderInv'
    <2>1. now \in 0..MaxTime
      BY DEF TypeOK
    <2>2. QED
      BY <1>2, <1>5, <2>1 DEF ParametersModified
  <1>6. QED
    BY <1>1, <1>3, <1>4, <1>5, EnqueueKeepsOrder
       DEF Next, Connect, Abort, Retry, CreateShmem, Disconnect, Stamp, InterruptOccurred,
           NewPoster, ExtPostEvent, Tick, keys, vars

\* Keys reach the event queues in the order they were queued, and what a
\* process posts overtakes none that is no later than it, but for the one
\* reason that KeysInOrder allows, with any number of keyboards and processes.
THEOREM KeysKeptInOrder == Spec => []KeysInOrder
  <1>1. Init => OrderInv
    BY DEF Init, OrderInv, KeysInOrder
  <1>2. TypeOK /\ OrderInv /\ [Next]_vars => OrderInv'
    BY OrderStep
  <1>3. OrderInv => KeysInOrder
    BY DEF OrderInv
  <1>4. QED
    BY <1>1, <1>2, <1>3, TypeCorrect, PTL DEF Spec

(***************************************************************************)
(* The parameters.  The flag setParamPropertiesInProgress keeps the sets   *)
(* of parameters apart and leaves nobody asleep, and the last set is in    *)
(* force once none is in progress, for any threads, devices and settings.  *)
(***************************************************************************)

\* One dictionary over another holds the keys of both, and only their values.
LEMMA MergeType ==
    ASSUME NEW f \in Settings, NEW g \in Settings
    PROVE  Merge(f, g) \in Settings
  <1>1. PICK ks \in SUBSET Keys : f \in [ks -> Values]
    BY DEF Settings
  <1>2. PICK ls \in SUBSET Keys : g \in [ls -> Values]
    BY DEF Settings
  <1>3. Merge(f, g) = [k \in ks \cup ls |-> IF k \in ks THEN f[k] ELSE g[k]]
    BY <1>1, <1>2 DEF Merge
  <1>4. Merge(f, g) \in [ks \cup ls -> Values]
    BY <1>1, <1>2, <1>3
  <1>5. QED
    BY <1>4 DEF Settings

\* What a device has of its own may leave nothing of a dictionary.
LEMMA ValidType ==
    ASSUME NEW c \in Setters, NEW d \in Devices, ParamsTypeOK
    PROVE  Valid(c, d) \in Settings
  <1>1. set[c].dict \in Settings
    BY DEF ParamsTypeOK, Sets
  <1>2. PICK ks \in SUBSET Keys : set[c].dict \in [ks -> Values]
    BY <1>1 DEF Settings
  <1>3. Valid(c, d) \in [ks \ DOMAIN own[d] -> Values]
    BY <1>2 DEF Valid
  <1>4. QED
    BY <1>3 DEF Settings

LEMMA NoSetType == Empty \in Settings /\ NoSet \in Sets
  <1>1. Empty \in [{} -> Values]
    BY DEF Empty
  <1>2. Empty \in Settings
    BY <1>1 DEF Settings
  <1>3. QED
    BY <1>2 DEF NoSet, Sets

\* A thread in the gate sleeps or begins, with what it was asked to set.
LEMMA PreType ==
    ASSUME ParamsTypeOK, NEW c \in Setters, NEW r, Pre(c, r),
           r.dict \in Settings, r.temporary \in BOOLEAN
    PROVE  /\ inProgress' \in BOOLEAN
           /\ setter' \in [Setters -> {"idle", "asleep", "awake", "telling"}]
           /\ set' \in [Setters -> Sets]
           /\ last' \in [dict : Settings, temporary : BOOLEAN, told : SUBSET Devices]
  <1>1. CASE inProgress
    <2>1. [NoSet EXCEPT !.dict = r.dict, !.temporary = r.temporary] \in Sets
      BY NoSetType DEF Sets
    <2>2. QED
      BY <1>1, <2>1 DEF ParamsTypeOK, Pre
  <1>2. CASE ~inProgress
    <2>1. [NoSet EXCEPT !.dict = r.dict, !.temporary = r.temporary, !.tell = Attached] \in Sets
      BY NoSetType DEF Sets, Attached
    <2>2. QED
      BY <1>2, <2>1 DEF ParamsTypeOK, Pre, Begin
  <1>3. QED
    BY <1>1, <1>2

LEMMA ParamsTypeStep ==
    ASSUME ParamsTypeOK, [ParamsNext]_paramsVars
    PROVE  ParamsTypeOK'
  <1>1. ASSUME NEW c \in Setters, SetParamProperties(c)
        PROVE  ParamsTypeOK'
    <2>1. PICK r \in Requests[c] : Pre(c, r)
      BY <1>1 DEF SetParamProperties
    <2>2. r \in [dict : Settings, temporary : BOOLEAN]
      BY ParamsAssumption DEF ParamsAssumption
    <2>3. sets' \in [Setters -> 0..MaxSets]
      BY <1>1, ParamsAssumption
         DEF SetParamProperties, ParamsTypeOK, ParamsAssumption
    <2>4. QED
      BY <1>1, <2>1, <2>2, <2>3, PreType
         DEF SetParamProperties, ParamsTypeOK, device
  <1>2. ASSUME NEW c \in Setters, AbortSet(c)
        PROVE  ParamsTypeOK'
    BY <1>2 DEF ParamsTypeOK, AbortSet, device
  <1>3. ASSUME NEW c \in Setters, Resume(c)
        PROVE  ParamsTypeOK'
    <2>1. set[c].dict \in Settings /\ set[c].temporary \in BOOLEAN
      BY DEF ParamsTypeOK, Sets
    <2>2. QED
      BY <1>3, <2>1, PreType DEF Resume, ParamsTypeOK, device
  <1>4. ASSUME NEW c \in Setters, NEW d \in Devices, NextDevice(c, d)
        PROVE  ParamsTypeOK'
    <2>1. /\ set[c].dict \in Settings
          /\ Valid(c, d) \in Settings
          /\ set[c] \in Sets
      BY ValidType DEF ParamsTypeOK, Sets
    <2>2. [set[c] EXCEPT !.tell = @ \ {d}, !.hand = {d},
                         !.valid = IF d \in Filtered THEN Valid(c, d) ELSE set[c].dict] \in Sets
      BY <2>1 DEF Sets
    <2>3. set' \in [Setters -> Sets]
      <3> DEFINE next == [set[c] EXCEPT !.tell = set[c].tell \ {d}, !.hand = {d},
                             !.valid = IF d \in Filtered THEN Valid(c, d) ELSE set[c].dict]
      <3>1. set' = [set EXCEPT ![c] = next] /\ set \in [Setters -> Sets]
        BY <1>4 DEF NextDevice, ParamsTypeOK
      <3>2. next \in Sets
        BY <2>2
      <3> HIDE DEF next
      <3>3. QED
        BY <3>1, <3>2
    <2>4. QED
      BY <1>4, <2>3 DEF ParamsTypeOK, NextDevice, device
  <1>5. ASSUME NEW c \in Setters, Tell(c)
        PROVE  ParamsTypeOK'
    <2>1. ASSUME NEW d \in Devices
          PROVE  Merge(set[c].valid, effective[d]) \in Settings
      BY <2>1, MergeType DEF ParamsTypeOK, Sets
    <2>2. effective' \in [Devices -> Settings]
      <3>1. PICK d \in set[c].hand :
                effective' = IF state[d] = "gone" THEN effective
                             ELSE [effective EXCEPT ![d] = Merge(set[c].valid, @)]
        BY <1>5 DEF Tell
      <3>2. d \in Devices /\ effective \in [Devices -> Settings]
        BY DEF ParamsTypeOK, Sets
      <3>3. QED
        BY <2>1, <3>1, <3>2
    <2>3. [set[c] EXCEPT !.hand = {}, !.valid = Empty] \in Sets
      BY NoSetType DEF ParamsTypeOK, Sets
    <2>4. QED
      BY <1>5, <2>2, <2>3 DEF Tell, ParamsTypeOK
  <1>6. ASSUME NEW c \in Setters, Post(c)
        PROVE  ParamsTypeOK'
    <2>1. savedParameters' \in Settings
      BY <1>6, MergeType DEF Post, ParamsTypeOK, Sets
    <2>2. QED
      BY <1>6, <2>1, NoSetType DEF Post, Woken, ParamsTypeOK, device
  <1>7. ASSUME NEW d \in Devices, Attach(d)
        PROVE  ParamsTypeOK'
    BY <1>7 DEF ParamsTypeOK, Attach, threads
  <1>8. ASSUME NEW d \in Devices, RegisterEventSource(d)
        PROVE  ParamsTypeOK'
    <2>1. Merge(savedParameters, effective[d]) \in Settings
      BY MergeType DEF ParamsTypeOK
    <2>2. QED
      BY <1>8, <2>1 DEF ParamsTypeOK, RegisterEventSource, threads
  <1>9. ASSUME NEW d \in Devices, Terminate(d)
        PROVE  ParamsTypeOK'
    BY <1>9, NoSetType DEF ParamsTypeOK, Terminate, threads
  <1>10. ASSUME NEW d \in Devices, SetProperties(d)
         PROVE  ParamsTypeOK'
    <2>1. PICK dict \in OwnSettings :
              /\ own' = [own EXCEPT ![d] = Merge(dict, @)]
              /\ effective' = [effective EXCEPT ![d] = Merge(dict, @)]
      BY <1>10 DEF SetProperties
    <2>2. /\ Merge(dict, own[d]) \in Settings
          /\ Merge(dict, effective[d]) \in Settings
      BY ParamsAssumption, MergeType DEF ParamsTypeOK, ParamsAssumption
    <2>3. QED
      BY <1>10, <2>1, <2>2 DEF ParamsTypeOK, SetProperties, threads
  <1>11. CASE UNCHANGED paramsVars
    BY <1>11 DEF ParamsTypeOK, paramsVars, threads, device
  <1>12. QED
    BY <1>1, <1>2, <1>3, <1>4, <1>5, <1>6, <1>7, <1>8, <1>9, <1>10, <1>11
       DEF ParamsNext, Step

\* Every variable keeps its type: what is told to a device and what is saved
\* are settings, however the dictionaries overlap.
THEOREM Typing == ParamsSpec => []ParamsTypeOK
  <1>1. ParamsInit => ParamsTypeOK
    <2>1. Empty \in Settings /\ NoSet \in Sets /\ MaxSets \in Nat
      BY NoSetType, ParamsAssumption DEF ParamsAssumption
    <2>2. 0 \in 0..MaxSets
      BY <2>1
    <2>3. ParamsInit => /\ setter \in [Setters -> {"idle", "asleep", "awake", "telling"}]
                  /\ set \in [Setters -> Sets] /\ sets \in [Setters -> 0..MaxSets]
      BY <2>1, <2>2 DEF ParamsInit
    <2>4. ParamsInit => /\ state \in [Devices -> {"absent", "attached", "registered", "gone"}]
                  /\ own \in [Devices -> Settings] /\ effective \in [Devices -> Settings]
      BY <2>1 DEF ParamsInit
    <2>5. ParamsInit => last \in [dict : Settings, temporary : BOOLEAN, told : SUBSET Devices]
      BY <2>1 DEF ParamsInit
    <2>6. QED
      BY <2>1, <2>3, <2>4, <2>5 DEF ParamsInit, ParamsTypeOK
  <1>2. ParamsTypeOK /\ [ParamsNext]_paramsVars => ParamsTypeOK'
    BY ParamsTypeStep
  <1>3. QED
    BY <1>1, <1>2, PTL DEF ParamsSpec

\* A thread that goes on in the gate begins if nobody else is in progress.
LEMMA PreKeepsFlag ==
    ASSUME ParamsTypeOK, OneSetAtATime, NEW c \in Setters, NEW r, Pre(c, r),
           setter[c] \in {"idle", "awake"}
    PROVE  OneSetAtATime'
  <1>1. CASE inProgress
    <2>1. \A e \in Setters : setter'[e] = IF e = c THEN "asleep" ELSE setter[e]
      BY <1>1 DEF ParamsTypeOK, Pre
    <2>2. QED
      BY <1>1, <2>1 DEF OneSetAtATime, Pre
  <1>2. CASE ~inProgress
    <2>1. \A e \in Setters : setter'[e] = IF e = c THEN "telling" ELSE setter[e]
      BY <1>2 DEF ParamsTypeOK, Pre, Begin
    <2>2. QED
      BY <1>2, <2>1 DEF OneSetAtATime, Pre, Begin
  <1>3. QED
    BY <1>1, <1>2

LEMMA FlagStep ==
    ASSUME ParamsTypeOK, OneSetAtATime, [ParamsNext]_paramsVars
    PROVE  OneSetAtATime'
  <1>1. ASSUME NEW c \in Setters, SetParamProperties(c)
        PROVE  OneSetAtATime'
    BY <1>1, PreKeepsFlag DEF SetParamProperties
  <1>2. ASSUME NEW c \in Setters, AbortSet(c)
        PROVE  OneSetAtATime'
    BY <1>2 DEF ParamsTypeOK, OneSetAtATime, AbortSet
  <1>3. ASSUME NEW c \in Setters, Resume(c)
        PROVE  OneSetAtATime'
    BY <1>3, PreKeepsFlag DEF Resume
  <1>4. ASSUME NEW c \in Setters, Tell(c) \/ \E d \in Devices : NextDevice(c, d)
        PROVE  OneSetAtATime'
    <2>1. \A e \in Setters : setter'[e] = setter[e]
      BY <1>4 DEF ParamsTypeOK, Tell, NextDevice
    <2>2. inProgress' = inProgress
      BY <1>4 DEF Tell, NextDevice
    <2>3. QED
      BY <2>1, <2>2 DEF OneSetAtATime
  <1>5. ASSUME NEW c \in Setters, Post(c)
        PROVE  OneSetAtATime'
    <2>1. \A e \in Setters : setter'[e] \notin {"asleep", "telling"}
      BY <1>5 DEF ParamsTypeOK, OneSetAtATime, Post, Woken
    <2>2. QED
      BY <1>5, <2>1 DEF OneSetAtATime, Post
  <1>6. ASSUME UNCHANGED <<inProgress, setter>>
        PROVE  OneSetAtATime'
    BY <1>6 DEF OneSetAtATime
  <1>7. QED
    BY <1>1, <1>2, <1>3, <1>4, <1>5, <1>6
       DEF ParamsNext, Step, Attach, RegisterEventSource,
           Terminate, SetProperties, paramsVars, threads

\* The sets are kept apart and nobody sleeps while none is in progress, for
\* any number of threads: setParamPropertiesPreGated looks at the flag again
\* after it slept, and setParamPropertiesPostGated wakes everybody.
THEOREM SetsKeptApart == ParamsSpec => []OneSetAtATime
  <1>1. ParamsInit => OneSetAtATime
    BY DEF ParamsInit, OneSetAtATime
  <1>2. ParamsTypeOK /\ OneSetAtATime /\ [ParamsNext]_paramsVars => OneSetAtATime'
    BY FlagStep
  <1>3. QED
    BY <1>1, <1>2, Typing, PTL DEF ParamsSpec

(***************************************************************************)
(* What the last set has come to.                                          *)
(***************************************************************************)

\* The last set's value of k, in a dictionary.
InForce(k, f) == k \in DOMAIN f /\ f[k] = last.dict[k]

\* A device that the last set found has its values, or is in hand and about
\* to be given them, or is still to be told; but for what it has of its own.
Reached(c, d) ==
    \/ d \in set[c].tell
    \/ \A k \in DOMAIN last.dict :
          \/ k \in DOMAIN own[d]
          \/ InForce(k, IF d \in set[c].hand THEN set[c].valid ELSE effective[d])

\* The set between its two visits to the gate is the last one.
IsLast(c) == set[c].dict = last.dict /\ set[c].temporary = last.temporary

ForceInv ==
    /\ \A d \in last.told : state[d] = "registered"
    /\ \A c \in Setters : \A d, e \in set[c].hand : d = e
    /\ \A c \in Setters : setter[c] = "telling" =>
          IsLast(c) /\ \A d \in last.told : Reached(c, d)
    /\ LastSetInForce

LEMMA MergeKey ==
    ASSUME NEW f, NEW g, NEW k \in DOMAIN f \cup DOMAIN g
    PROVE  /\ k \in DOMAIN Merge(f, g)
           /\ Merge(f, g)[k] = IF k \in DOMAIN f THEN f[k] ELSE g[k]
  BY DEF Merge

\* A set that begins has all the devices it found still to be told.
LEMMA BeginForce ==
    ASSUME ParamsTypeOK, OneSetAtATime, ForceInv, NEW c \in Setters, NEW r, Pre(c, r),
           setter[c] \in {"idle", "awake"}, UNCHANGED <<savedParameters, device>>
    PROVE  ForceInv'
  <1>1. CASE inProgress
    <2>1. \A e \in Setters : setter'[e] = "telling" =>
              e # c /\ setter[e] = "telling" /\ set'[e] = set[e]
      BY <1>1 DEF ParamsTypeOK, Pre
    <2>2. \A e \in Setters : set'[e].hand = {} \/ set'[e].hand = set[e].hand
      <3> DEFINE next == [NoSet EXCEPT !.dict = r.dict, !.temporary = r.temporary]
      <3>1. next.hand = {}
        BY DEF NoSet
      <3>2. set' = [set EXCEPT ![c] = next] /\ set \in [Setters -> Sets]
        BY <1>1 DEF ParamsTypeOK, Pre
      <3> HIDE DEF next
      <3>3. QED
        BY <3>1, <3>2
    <2>3. last' = last /\ inProgress'
      BY <1>1 DEF Pre
    <2>4. QED
      BY <2>1, <2>2, <2>3
         DEF ForceInv, IsLast, Reached, InForce, LastSetInForce, device
  <1>2. CASE ~inProgress
    <2>1. \A e \in Setters : setter'[e] = "telling" => e = c
      BY <1>2 DEF ParamsTypeOK, OneSetAtATime, Pre, Begin
    <2>2. /\ set'[c].dict = last'.dict /\ set'[c].temporary = last'.temporary
          /\ set'[c].tell = Attached /\ set'[c].hand = {}
      <3> DEFINE next == [NoSet EXCEPT !.dict = r.dict, !.temporary = r.temporary,
                                       !.tell = Attached]
      <3>1. /\ next.dict = r.dict /\ next.temporary = r.temporary
            /\ next.tell = Attached /\ next.hand = {}
        BY DEF NoSet
      <3>2. set' = [set EXCEPT ![c] = next] /\ set \in [Setters -> Sets]
        BY <1>2 DEF ParamsTypeOK, Pre, Begin
      <3>3. last'.dict = r.dict /\ last'.temporary = r.temporary
        BY <1>2 DEF Pre, Begin
      <3> HIDE DEF next
      <3>4. QED
        BY <3>1, <3>2, <3>3
    <2>3. \A e \in Setters \ {c} : set'[e] = set[e]
      BY <1>2 DEF ParamsTypeOK, Pre, Begin
    <2>4. last'.told = {d \in Devices : state[d] = "registered"} /\ inProgress'
      BY <1>2 DEF Pre, Begin
    <2>5. \A d \in last'.told : d \in Attached
      BY <2>4 DEF Attached
    <2>6. \A e \in Setters : \A d, f \in set'[e].hand : d = f
      BY <2>2, <2>3 DEF ForceInv
    <2>7. QED
      BY <2>1, <2>2, <2>4, <2>5, <2>6
         DEF ForceInv, IsLast, Reached, LastSetInForce, device
  <1>3. QED
    BY <1>1, <1>2

\* The device in hand is given what it was to be given; every other device
\* of the last set is as it was.
LEMMA TellForce ==
    ASSUME ParamsTypeOK, OneSetAtATime, ForceInv, NEW c \in Setters, Tell(c)
    PROVE  ForceInv'
  <1>1. PICK d \in set[c].hand :
            effective' = IF state[d] = "gone" THEN effective
                         ELSE [effective EXCEPT ![d] = Merge(set[c].valid, @)]
    BY DEF Tell
  <1>2. /\ d \in Devices /\ \A e \in set[c].hand : e = d
        /\ inProgress /\ \A e \in Setters : setter[e] = "telling" => e = c
    BY <1>1 DEF Tell, ParamsTypeOK, Sets, ForceInv, OneSetAtATime
  <1>3. /\ set'[c].hand = {} /\ set'[c].tell = set[c].tell
        /\ set'[c].dict = set[c].dict /\ set'[c].temporary = set[c].temporary
        /\ \A e \in Setters \ {c} : set'[e] = set[e]
    BY DEF Tell, ParamsTypeOK, Sets
  <1>4. ASSUME NEW e \in last.told
        PROVE  Reached(c, e)'
    <2>1. e \in Devices /\ Reached(c, e) /\ state[e] = "registered"
      BY DEF ForceInv, ParamsTypeOK, Tell
    <2>2. CASE e = d
      <3>1. ASSUME NEW k \in DOMAIN set[c].valid
            PROVE  k \in DOMAIN effective'[d] /\ effective'[d][k] = set[c].valid[k]
        <4>1. effective'[d] = Merge(set[c].valid, effective[d])
          BY <1>1, <1>2, <2>1, <2>2 DEF ParamsTypeOK
        <4>2. QED
          BY <4>1, MergeKey
      <3>2. QED
        BY <1>1, <1>3, <2>1, <2>2, <3>1 DEF Reached, InForce, Tell
    <2>3. CASE e # d
      <3>1. effective'[e] = effective[e] /\ e \notin set[c].hand
        BY <1>1, <1>2, <2>1, <2>3 DEF ParamsTypeOK
      <3>2. QED
        BY <1>3, <2>1, <3>1 DEF Reached, InForce, Tell
    <2>4. QED
      BY <2>2, <2>3
  <1>5. UNCHANGED <<last, state, setter, inProgress>>
    BY DEF Tell
  <1>6. QED
    BY <1>2, <1>3, <1>4, <1>5 DEF ForceInv, IsLast, LastSetInForce

\* What a filtered device is spared, it has of its own.
LEMMA NextDeviceForce ==
    ASSUME ParamsTypeOK, OneSetAtATime, ForceInv, NEW c \in Setters, NEW d \in Devices,
           NextDevice(c, d)
    PROVE  ForceInv'
  <1> DEFINE valid == IF d \in Filtered THEN Valid(c, d) ELSE set[c].dict
  <1>1. /\ inProgress /\ \A e \in Setters : setter[e] = "telling" => e = c
        /\ set[c].hand = {}
    BY DEF NextDevice, OneSetAtATime
  <1>2. /\ set'[c].hand = {d} /\ set'[c].tell = set[c].tell \ {d} /\ set'[c].valid = valid
        /\ set'[c].dict = set[c].dict /\ set'[c].temporary = set[c].temporary
        /\ \A e \in Setters \ {c} : set'[e] = set[e]
    BY DEF NextDevice, ParamsTypeOK, Sets
  <1>3. \A k \in DOMAIN set[c].dict :
            k \in DOMAIN own[d] \/ (k \in DOMAIN valid /\ valid[k] = set[c].dict[k])
    BY DEF Valid
  <1>4. IsLast(c)
    BY DEF NextDevice, ForceInv
  <1>5. UNCHANGED <<last, state, setter, inProgress, own, effective>>
    BY DEF NextDevice, device
  <1>6. ASSUME NEW e \in last.told
        PROVE  Reached(c, e)'
    <2>1. Reached(c, e)
      BY DEF ForceInv, NextDevice
    <2>2. CASE e = d
      BY <1>2, <1>3, <1>4, <1>5, <2>2 DEF Reached, InForce, IsLast
    <2>3. CASE e # d
      BY <1>1, <1>2, <1>5, <2>1, <2>3 DEF Reached, InForce
    <2>4. QED
      BY <2>2, <2>3
  <1>7. QED
    BY <1>1, <1>2, <1>4, <1>5, <1>6 DEF ForceInv, IsLast, LastSetInForce

\* The set is over when nobody is left to be told.
LEMMA PostForce ==
    ASSUME ParamsTypeOK, OneSetAtATime, ForceInv, NEW c \in Setters, Post(c)
    PROVE  ForceInv'
  <1>1. /\ IsLast(c) /\ set[c].tell = {} /\ set[c].hand = {}
        /\ \A d \in last.told : Reached(c, d)
    BY DEF Post, ForceInv
  <1>2. UNCHANGED <<last, state, own, effective>>
    BY DEF Post, device
  <1>3. \A d \in last.told : \A k \in DOMAIN last.dict :
            k \in DOMAIN own[d] \/ InForce(k, effective[d])
    BY <1>1 DEF Reached
  <1>4. ASSUME ~last.temporary, NEW k \in DOMAIN last.dict
        PROVE  InForce(k, savedParameters')
    <2>1. savedParameters' = Merge(last.dict, savedParameters)
      BY <1>1, <1>4 DEF Post, IsLast
    <2>2. QED
      BY <2>1, MergeKey DEF InForce
  <1>5. LastSetInForce'
    BY <1>2, <1>3, <1>4 DEF LastSetInForce, InForce
  <1>6. \A e \in Setters : setter'[e] # "telling"
    BY DEF ParamsTypeOK, OneSetAtATime, Post, Woken
  <1>7. \A e \in Setters : set'[e].hand = {} \/ set'[e] = set[e]
    BY DEF ParamsTypeOK, Post, NoSet
  <1>8. QED
    BY <1>2, <1>5, <1>6, <1>7 DEF ForceInv

\* No device that the last set found is touched but by a set, by its own
\* process, which gives it settings of its own, and by its end.
LEMMA DeviceForce ==
    ASSUME ParamsTypeOK, ForceInv, NEW d \in Devices,
           Attach(d) \/ RegisterEventSource(d) \/ Terminate(d) \/ SetProperties(d)
    PROVE  ForceInv'
  <1>1. UNCHANGED <<savedParameters, inProgress, setter, set>>
    BY DEF Attach, RegisterEventSource, Terminate, SetProperties,
       threads
  <1>2. /\ last'.dict = last.dict /\ last'.temporary = last.temporary
        /\ last'.told \subseteq last.told
    BY DEF Attach, RegisterEventSource, Terminate, SetProperties,
       ParamsTypeOK
  <1>3. ASSUME NEW e \in last'.told
        PROVE  /\ state'[e] = "registered"
               /\ DOMAIN own[e] \subseteq DOMAIN own'[e]
               /\ \A k : \/ k \in DOMAIN own'[e]
                       \/ /\ k \in DOMAIN effective[e] => k \in DOMAIN effective'[e]
                          /\ k \in DOMAIN effective[e] => effective'[e][k] = effective[e][k]
    <2>1. e \in last.told /\ e \in Devices /\ state[e] = "registered"
      BY <1>2 DEF ForceInv, ParamsTypeOK
    <2>2. CASE SetProperties(d)
      <3>1. PICK dict \in OwnSettings :
                /\ own' = [own EXCEPT ![d] = Merge(dict, @)]
                /\ effective' = [effective EXCEPT ![d] = Merge(dict, @)]
        BY <2>2 DEF SetProperties
      <3>2. CASE e = d
        <4>1. own'[e] = Merge(dict, own[e]) /\ effective'[e] = Merge(dict, effective[e])
          BY <2>1, <3>1, <3>2 DEF ParamsTypeOK
        <4>2. QED
          BY <2>1, <2>2, <4>1 DEF SetProperties, Merge
      <3>3. CASE e # d
        BY <2>1, <2>2, <3>1, <3>3 DEF SetProperties, ParamsTypeOK
      <3>4. QED
        BY <3>2, <3>3
    <2>3. CASE ~SetProperties(d)
      <3>1. e # d
        BY <2>1, <2>3, <1>3
           DEF Attach, RegisterEventSource, Terminate, ParamsTypeOK
      <3>2. QED
        BY <2>1, <2>3, <3>1
           DEF Attach, RegisterEventSource, Terminate, ParamsTypeOK
    <2>4. QED
      BY <2>2, <2>3
  <1>4. LastSetInForce'
    BY <1>1, <1>2, <1>3 DEF ForceInv, LastSetInForce
  <1>5. ASSUME NEW c \in Setters, NEW e \in last'.told, Reached(c, e)
        PROVE  Reached(c, e)'
    BY <1>1, <1>2, <1>3, <1>5 DEF Reached, InForce
  <1>6. QED
    BY <1>1, <1>2, <1>3, <1>4, <1>5 DEF ForceInv, IsLast

LEMMA ForceStep ==
    ASSUME ParamsTypeOK, OneSetAtATime, ForceInv, [ParamsNext]_paramsVars
    PROVE  ForceInv'
  <1>1. ASSUME NEW c \in Setters, SetParamProperties(c)
        PROVE  ForceInv'
    BY <1>1, BeginForce DEF SetParamProperties
  <1>2. ASSUME NEW c \in Setters, Resume(c)
        PROVE  ForceInv'
    BY <1>2, BeginForce DEF Resume
  <1>3. ASSUME NEW c \in Setters, AbortSet(c)
        PROVE  ForceInv'
    <2>1. \A e \in Setters : setter'[e] = "telling" => setter[e] = "telling"
      BY <1>3 DEF AbortSet, ParamsTypeOK
    <2>2. UNCHANGED <<savedParameters, inProgress, set, last, state, own, effective>>
      BY <1>3 DEF AbortSet, device
    <2>3. QED
      BY <2>1, <2>2 DEF ForceInv, IsLast, Reached, InForce, LastSetInForce
  <1>4. CASE UNCHANGED paramsVars
    BY <1>4
       DEF paramsVars, threads, device, ForceInv, IsLast, Reached, InForce,
           LastSetInForce
  <1>5. QED
    BY <1>1, <1>2, <1>3, <1>4, TellForce, NextDeviceForce, PostForce, DeviceForce
       DEF ParamsNext, Step

\* When no set is in progress the last one is in force, whatever came between
\* its two visits to the gate: devices that came and went, processes that set
\* one device, and sets that wait, for any dictionaries.
THEOREM LastSetHolds == ParamsSpec => []LastSetInForce
  <1>1. ParamsInit => ForceInv
    BY DEF ParamsInit, ForceInv, LastSetInForce, Empty, NoSet
  <1>2. ParamsTypeOK /\ OneSetAtATime /\ ForceInv /\ [ParamsNext]_paramsVars => ForceInv'
    BY ForceStep
  <1>3. ForceInv => LastSetInForce
    BY DEF ForceInv
  <1>4. QED
    BY <1>1, <1>2, <1>3, Typing, SetsKeptApart, PTL DEF ParamsSpec
================================================================================
