------------------------- MODULE HIDActionQueue_proofs -------------------------
(***************************************************************************)
(* What holds of HIDActionQueue for every set of threads and every number  *)
(* of blocks.  The gate is the key to one block at a time (GateInv), the   *)
(* numbering of blocks to their order (FifoInv), and the one cancel block  *)
(* passes through four places, one after the other (CancelInv).            *)
(***************************************************************************)
EXTENDS HIDActionQueue, TLAPS

USE ActionQueueAssumption, BlockAssumption

------------------------------------------------------------------------------
(* Lemmas about _actionArray.                                              *)

LEMMA AppendFacts ==
  ASSUME NEW S, NEW s \in Seq(S), NEW e \in S
  PROVE  /\ Append(s, e) \in Seq(S)
         /\ Len(Append(s, e)) = Len(s) + 1
         /\ Append(s, e) # <<>>
         /\ \A i \in 1..Len(s) : Append(s, e)[i] = s[i]
         /\ Append(s, e)[Len(s) + 1] = e
  OBVIOUS

LEMMA TailFacts ==
  ASSUME NEW S, NEW s \in Seq(S), s # <<>>
  PROVE  /\ Tail(s) \in Seq(S) /\ Head(s) \in S
         /\ Len(s) \in Nat /\ Len(s) > 0
         /\ Len(Tail(s)) = Len(s) - 1
         /\ Head(s) = s[1]
         /\ \A i \in 1..Len(Tail(s)) : Tail(s)[i] = s[i + 1]
  OBVIOUS

LEMMA EmptyFacts ==
  ASSUME NEW S, NEW s \in Seq(S)
  PROVE  /\ Len(s) \in Nat
         /\ s = <<>> <=> Len(s) = 0
  OBVIOUS

------------------------------------------------------------------------------
(* Types, and the gate: a thread inside dispatchSync holds it, and so does *)
(* the work loop's while it drains; the work loop calls only from a block. *)
GateInv ==
  /\ TypeOK
  /\ current # Free => draining
  /\ pc[Loop] # "idle" => current \in Blocks
  /\ \A t \in Callers : pc[t] = "sync" => gate = t
  /\ gate \in Threads => pc[gate] = "sync"
  /\ \A t \in Callers : pc[t] = "attach" => t # Loop

LEMMA GateInit == Init => GateInv
<1> SUFFICES ASSUME Init PROVE GateInv
  OBVIOUS
<1>1. TypeOK
  <2>1. /\ pending \in BOOLEAN /\ attached \in BOOLEAN /\ draining \in BOOLEAN
        /\ draining <=> gate = Loop
    BY Zenon DEF Init, Callers
  <2>2. /\ state \in {"Inactive", "Activated", "Cancelled"}
        /\ gate \in Callers \cup {Free}
        /\ current \in Blocks \cup {CancelBlock, Free}
    BY DEF Init
  <2>3. actionArray \in Seq(Blocks \cup {CancelBlock})
    BY DEF Init
  <2>4. /\ pc \in [Callers -> {"idle", "signal", "sync", "attach", "cancel"}]
        /\ async \in [Callers -> 0..MaxAsync] /\ ran \in [Callers -> Nat]
        /\ syncs \in [Callers -> Nat] /\ handled \in Nat
    BY DEF Init
  <2> QED BY <2>1, <2>2, <2>3, <2>4, Zenon DEF TypeOK
<1> QED BY <1>1 DEF Init, GateInv, Callers

LEMMA GateStep == GateInv /\ [Next]_vars => GateInv'
<1> SUFFICES ASSUME GateInv, [Next]_vars PROVE GateInv'
  OBVIOUS
<1> USE DEF GateInv, TypeOK, Callers, CanCall
<1>1. ASSUME NEW t \in Callers, Activate(t) PROVE GateInv'
  BY <1>1 DEF Activate, queue, loopVars, counts
<1>2. ASSUME NEW t \in Callers, Cancel(t) PROVE GateInv'
  BY <1>2 DEF Cancel, queue, loopVars, counts
<1>3. ASSUME NEW t \in Callers, DispatchAsync(t) PROVE GateInv'
  <2>1. [by |-> t, n |-> async[t] + 1] \in Blocks
    BY <1>3 DEF DispatchAsync, Blocks
  <2>2. actionArray' \in Seq(Blocks \cup {CancelBlock})
    BY <1>3, <2>1, AppendFacts DEF DispatchAsync, Enqueue, Added
  <2> QED BY <1>3, <2>2 DEF DispatchAsync, Enqueue, loopVars
<1>4. ASSUME NEW t \in Callers, DispatchSync(t) PROVE GateInv'
  BY <1>4 DEF DispatchSync, GateOpen, queue
<1>5. ASSUME NEW t \in Callers, AddEventSources(t) PROVE GateInv'
  BY <1>5 DEF AddEventSources, queue, loopVars, counts
<1>6. ASSUME NEW t \in Callers, EnqueueCancel(t) PROVE GateInv'
  <2>1. actionArray' \in Seq(Blocks \cup {CancelBlock})
    BY <1>6, AppendFacts DEF EnqueueCancel, Enqueue, Added
  <2> QED BY <1>6, <2>1 DEF EnqueueCancel, Enqueue, loopVars
<1>7. ASSUME NEW t \in Callers, InterruptOccurred(t) PROVE GateInv'
  BY <1>7 DEF InterruptOccurred, loopVars, counts
<1>8. ASSUME NEW t \in Callers, SyncReturns(t) PROVE GateInv'
  BY <1>8 DEF SyncReturns, queue, counts
<1>9. CASE HandleIOHIDAction
  BY <1>9 DEF HandleIOHIDAction, counts
<1>10. CASE Dequeue
  <2>1. /\ actionArray' \in Seq(Blocks \cup {CancelBlock})
        /\ current' \in Blocks \cup {CancelBlock}
    BY <1>10, TailFacts DEF Dequeue
  <2>2. ran' \in [Callers -> Nat]
    BY <1>10, <2>1, SMTT(20) DEF Dequeue, Blocks
  <2> QED BY <1>10, <2>1, <2>2 DEF Dequeue
<1>11. CASE BlockReturns
  <2>1. attached' \in BOOLEAN /\ handled' \in Nat
    <3>1. attached' \in BOOLEAN
      BY <1>11, Zenon DEF BlockReturns
    <3>2. handled' \in Nat
      BY <1>11 DEF BlockReturns
    <3> QED BY <3>1, <3>2
  <2> QED BY <1>11, <2>1 DEF BlockReturns, queue, counts
<1>12. CASE HandlerReturns
  BY <1>12 DEF HandlerReturns, Drained, queue, counts
<1>13. CASE UNCHANGED vars
  BY <1>13 DEF vars, queue, loopVars, counts
<1> QED BY <1>1, <1>2, <1>3, <1>4, <1>5, <1>6, <1>7, <1>8, <1>9, <1>10, <1>11,
           <1>12, <1>13 DEF Next, Call, Step, WorkLoop

LEMMA AlwaysGate == Spec => []GateInv
<1> QED BY GateInit, GateStep, PTL DEF Spec

(* The variables keep their types, and the work loop drains if and only if *)
(* its thread holds the gate.                                              *)
THEOREM TypeCorrect == Spec => []TypeOK
<1>1. GateInv => TypeOK
  BY DEF GateInv
<1> QED BY <1>1, AlwaysGate, PTL

(* A block that is dispatched synchronously runs beside no other.          *)
THEOREM Alone == Spec => []OneAtATime
<1>1. GateInv => OneAtATime
  BY DEF GateInv, TypeOK, OneAtATime, Callers
<1> QED BY <1>1, AlwaysGate, PTL

------------------------------------------------------------------------------
(* Wake-ups.                                                               *)
LEMMA StrandedStep == GateInv /\ NoneStranded /\ [Next]_vars => NoneStranded'
<1> SUFFICES ASSUME GateInv, NoneStranded, [Next]_vars PROVE NoneStranded'
  OBVIOUS
<1> USE DEF NoneStranded, CanCall
<1>0. pc \in [Callers -> {"idle", "signal", "sync", "attach", "cancel"}]
  BY DEF GateInv, TypeOK
<1>b. ASSUME NEW t \in Callers, NEW a, Enqueue(t, a), pc[t] # "signal"
      PROVE  NoneStranded'
  <2>1. CASE WasEmpty
    BY <1>0, <1>b, <2>1 DEF Enqueue
  <2>2. CASE ~WasEmpty
    BY <1>0, <1>b, <2>2 DEF Enqueue, WasEmpty, loopVars
  <2> QED BY <2>1, <2>2
<1>1. ASSUME NEW t \in Callers, Activate(t) PROVE NoneStranded'
  BY <1>0, <1>1 DEF Activate, queue, loopVars
<1>2. ASSUME NEW t \in Callers, Cancel(t) PROVE NoneStranded'
  BY <1>0, <1>2 DEF Cancel, queue, loopVars
<1>3. ASSUME NEW t \in Callers, DispatchAsync(t) PROVE NoneStranded'
  BY <1>b, <1>3 DEF DispatchAsync
<1>4. ASSUME NEW t \in Callers, DispatchSync(t) PROVE NoneStranded'
  BY <1>0, <1>4 DEF DispatchSync, queue
<1>5. ASSUME NEW t \in Callers, AddEventSources(t) PROVE NoneStranded'
  BY <1>0, <1>5 DEF AddEventSources, queue, loopVars
<1>6. ASSUME NEW t \in Callers, EnqueueCancel(t) PROVE NoneStranded'
  BY <1>b, <1>6 DEF EnqueueCancel
<1>7. ASSUME NEW t \in Callers, InterruptOccurred(t) PROVE NoneStranded'
  BY <1>7 DEF InterruptOccurred
<1>8. ASSUME NEW t \in Callers, SyncReturns(t) PROVE NoneStranded'
  BY <1>0, <1>8 DEF SyncReturns, queue
<1>9. CASE HandleIOHIDAction
  BY <1>9 DEF HandleIOHIDAction
<1>10. CASE Dequeue
  BY <1>10 DEF Dequeue
<1>11. CASE BlockReturns
  BY <1>11 DEF BlockReturns, queue
<1>12. CASE HandlerReturns
  BY <1>12 DEF HandlerReturns, Drained, queue
<1>13. CASE UNCHANGED vars
  BY <1>13 DEF vars, queue, loopVars
<1> QED BY <1>1, <1>2, <1>3, <1>4, <1>5, <1>6, <1>7, <1>8, <1>9, <1>10, <1>11,
           <1>12, <1>13 DEF Next, Call, Step, WorkLoop

(* The rule that only the first block raises the interrupt strands none.   *)
THEOREM WakeUps == Spec => []NoneStranded
<1>1. Init => NoneStranded
  BY DEF Init, NoneStranded
<1> QED BY <1>1, StrandedStep, AlwaysGate, PTL DEF Spec

------------------------------------------------------------------------------
(* Order: the blocks of t in the array are ran[t] + 1 .. async[t], in this *)
(* order.                                                                  *)
FifoInv ==
  /\ \A t \in Callers : ran[t] <= async[t]
  /\ \A i \in 1..Len(actionArray) : actionArray[i] \in Blocks =>
       /\ ran[actionArray[i].by] < actionArray[i].n
       /\ actionArray[i].n <= async[actionArray[i].by]
  /\ \A t \in Callers, n \in 1..MaxAsync : ran[t] < n /\ n <= async[t] =>
       \E i \in 1..Len(actionArray) : actionArray[i] = [by |-> t, n |-> n]
  /\ \A i, j \in 1..Len(actionArray) :
       /\ actionArray[i] \in Blocks /\ actionArray[j] \in Blocks
       /\ actionArray[i].by = actionArray[j].by /\ i < j
       => actionArray[i].n < actionArray[j].n

LEMMA BlockFacts ==
  /\ \A b \in Blocks : /\ b.by \in Callers /\ b.n \in 1..MaxAsync
                       /\ b = [by |-> b.by, n |-> b.n]
  /\ \A t \in Callers, n \in 1..MaxAsync :
       /\ [by |-> t, n |-> n] \in Blocks
       /\ [by |-> t, n |-> n].by = t /\ [by |-> t, n |-> n].n = n
  BY DEF Blocks

(* The first block of the array is its caller's next.                      *)
LEMMA HeadIsNext ==
  ASSUME TypeOK, FifoInv, actionArray # <<>>, Head(actionArray) \in Blocks
  PROVE  Head(actionArray).n = ran[Head(actionArray).by] + 1
<1> DEFINE b == Head(actionArray)
           t == b.by
<1>1. /\ actionArray \in Seq(Blocks \cup {CancelBlock})
      /\ ran \in [Callers -> Nat] /\ async \in [Callers -> 0..MaxAsync]
  BY DEF TypeOK
<1>2. /\ b = actionArray[1] /\ 1 \in 1..Len(actionArray) /\ Len(actionArray) \in Nat
      /\ t \in Callers /\ b.n \in 1..MaxAsync
  BY <1>1, TailFacts, BlockFacts
<1>3. ran[t] < b.n /\ b.n <= async[t] /\ ran[t] \in Nat
  BY <1>1, <1>2 DEF FifoInv
<1>4. SUFFICES ASSUME ran[t] + 1 < b.n PROVE FALSE
  BY <1>2, <1>3
<1>5. ran[t] + 1 \in 1..MaxAsync /\ ran[t] + 1 <= async[t]
  BY <1>1, <1>2, <1>3, <1>4 DEF ActionQueueAssumption
<1>6. PICK i \in 1..Len(actionArray) :
        actionArray[i] = [by |-> t, n |-> ran[t] + 1]
  BY <1>2, <1>3, <1>5 DEF FifoInv
<1>7. actionArray[i] \in Blocks /\ actionArray[i].by = t
      /\ actionArray[i].n = ran[t] + 1
  BY <1>2, <1>5, <1>6, BlockFacts
<1>8. 1 < i
  BY <1>2, <1>4, <1>7
<1>9. b.n < ran[t] + 1
  BY <1>2, <1>7, <1>8 DEF FifoInv
<1> QED BY <1>2, <1>3, <1>4, <1>9

(* A step that leaves the blocks and their counts alone.                   *)
LEMMA FifoKept ==
  ASSUME FifoInv, actionArray' = actionArray, ran' = ran, async' = async
  PROVE  FifoInv'
  BY DEF FifoInv

LEMMA FifoDispatch ==
  ASSUME GateInv, FifoInv, NEW t \in Callers, DispatchAsync(t)
  PROVE  FifoInv'
<1> DEFINE b == [by |-> t, n |-> async[t] + 1]
<1>1. /\ actionArray \in Seq(Blocks \cup {CancelBlock})
      /\ ran \in [Callers -> Nat] /\ async \in [Callers -> 0..MaxAsync]
  BY DEF GateInv, TypeOK
<1>2. async[t] + 1 \in 1..MaxAsync /\ b \in Blocks /\ b.by = t /\ b.n = async[t] + 1
  BY <1>1, BlockFacts DEF DispatchAsync
<1>3. /\ actionArray' = Append(actionArray, b) /\ ran' = ran
      /\ async' = [async EXCEPT ![t] = @ + 1]
  BY DEF DispatchAsync, Enqueue, Added
<1>4. /\ Len(actionArray) \in Nat /\ Len(actionArray') = Len(actionArray) + 1
      /\ \A i \in 1..Len(actionArray) : actionArray'[i] = actionArray[i]
      /\ actionArray'[Len(actionArray) + 1] = b
  BY <1>1, <1>2, <1>3, AppendFacts, EmptyFacts
<1>5. \A u \in Callers : /\ async[u] \in Nat /\ async'[u] \in Nat /\ ran[u] \in Nat
                         /\ async'[u] = IF u = t THEN async[u] + 1 ELSE async[u]
  BY <1>1, <1>3
<1>6. \A u \in Callers : ran'[u] <= async'[u]
  BY <1>3, <1>5 DEF FifoInv
<1>7. ASSUME NEW i \in 1..Len(actionArray'), actionArray'[i] \in Blocks
      PROVE  /\ ran'[actionArray'[i].by] < actionArray'[i].n
             /\ actionArray'[i].n <= async'[actionArray'[i].by]
  <2>1. CASE i \in 1..Len(actionArray)
    <3>1. actionArray'[i].by \in Callers /\ actionArray'[i].n \in Nat
      BY <1>7, BlockFacts
    <3> QED BY <1>3, <1>4, <1>5, <1>7, <2>1, <3>1 DEF FifoInv
  <2>2. CASE i = Len(actionArray) + 1
    BY <1>2, <1>3, <1>4, <1>5, <2>2 DEF FifoInv
  <2> QED BY <1>4, <2>1, <2>2
<1>8. ASSUME NEW u \in Callers, NEW n \in 1..MaxAsync, ran'[u] < n, n <= async'[u]
      PROVE  \E i \in 1..Len(actionArray') : actionArray'[i] = [by |-> u, n |-> n]
  <2>1. CASE n <= async[u]
    <3>1. PICK i \in 1..Len(actionArray) : actionArray[i] = [by |-> u, n |-> n]
      BY <1>3, <1>8, <2>1 DEF FifoInv
    <3> QED BY <1>4, <3>1
  <2>2. CASE u = t /\ n = async[t] + 1
    BY <1>4, <2>2
  <2> QED BY <1>5, <1>8, <2>1, <2>2
<1>9. ASSUME NEW i \in 1..Len(actionArray'), NEW j \in 1..Len(actionArray'),
             actionArray'[i] \in Blocks, actionArray'[j] \in Blocks,
             actionArray'[i].by = actionArray'[j].by, i < j
      PROVE  actionArray'[i].n < actionArray'[j].n
  <2>1. i \in 1..Len(actionArray)
    BY <1>4, <1>9
  <2>2. CASE j \in 1..Len(actionArray)
    BY <1>4, <1>9, <2>1, <2>2 DEF FifoInv
  <2>3. CASE j = Len(actionArray) + 1
    <3>1. actionArray[i] \in Blocks /\ actionArray[i].by = t /\ actionArray[i].n \in Nat
      BY <1>2, <1>4, <1>9, <2>1, <2>3, BlockFacts
    <3>2. actionArray[i].n <= async[t]
      BY <2>1, <3>1 DEF FifoInv
    <3> QED BY <1>2, <1>4, <1>5, <2>1, <2>3, <3>1, <3>2
  <2> QED BY <1>4, <2>2, <2>3
<1> QED BY <1>6, <1>7, <1>8, <1>9 DEF FifoInv

LEMMA FifoCancel ==
  ASSUME GateInv, FifoInv, NEW t \in Callers, EnqueueCancel(t)
  PROVE  FifoInv'
<1>1. /\ actionArray \in Seq(Blocks \cup {CancelBlock})
      /\ actionArray' = Append(actionArray, CancelBlock)
      /\ ran' = ran /\ async' = async
  BY DEF EnqueueCancel, Enqueue, Added, GateInv, TypeOK
<1>2. /\ Len(actionArray) \in Nat /\ Len(actionArray') = Len(actionArray) + 1
      /\ \A i \in 1..Len(actionArray) : actionArray'[i] = actionArray[i]
      /\ actionArray'[Len(actionArray) + 1] = CancelBlock
  BY <1>1, AppendFacts, EmptyFacts
<1>3. \A i \in 1..Len(actionArray') : actionArray'[i] \in Blocks =>
        i \in 1..Len(actionArray) /\ actionArray'[i] = actionArray[i]
  BY <1>2
<1>4. \A u \in Callers, n \in 1..MaxAsync : ran[u] < n /\ n <= async[u] =>
        \E i \in 1..Len(actionArray') : actionArray'[i] = [by |-> u, n |-> n]
  BY <1>2 DEF FifoInv
<1> QED BY <1>1, <1>3, <1>4 DEF FifoInv

LEMMA FifoDequeue ==
  ASSUME GateInv, FifoInv, Dequeue
  PROVE  FifoInv'
<1> DEFINE b == Head(actionArray)
<1>1. /\ actionArray \in Seq(Blocks \cup {CancelBlock}) /\ actionArray # <<>>
      /\ ran \in [Callers -> Nat] /\ async \in [Callers -> 0..MaxAsync]
      /\ actionArray' = Tail(actionArray) /\ async' = async
      /\ ran' = IF b = CancelBlock THEN ran ELSE [ran EXCEPT ![b.by] = @ + 1]
  BY DEF Dequeue, GateInv, TypeOK
<1>2. /\ Len(actionArray) \in Nat /\ Len(actionArray') = Len(actionArray) - 1
      /\ \A i \in 1..Len(actionArray') : actionArray'[i] = actionArray[i + 1]
      /\ b = actionArray[1] /\ 1 \in 1..Len(actionArray)
      /\ b \in Blocks \cup {CancelBlock}
  BY <1>1, TailFacts
<1>3. \A i \in 1..Len(actionArray') :
        i + 1 \in 1..Len(actionArray) /\ 1 < i + 1
  BY <1>2
<1>4. \A i, j \in 1..Len(actionArray') :
        /\ i < j
        /\ actionArray'[i] \in Blocks /\ actionArray'[j] \in Blocks
        /\ actionArray'[i].by = actionArray'[j].by
        => actionArray'[i].n < actionArray'[j].n
  <2> SUFFICES ASSUME NEW i \in 1..Len(actionArray'), NEW j \in 1..Len(actionArray'),
                      i < j, actionArray'[i] \in Blocks, actionArray'[j] \in Blocks,
                      actionArray'[i].by = actionArray'[j].by
               PROVE  actionArray'[i].n < actionArray'[j].n
    OBVIOUS
  <2>1. i + 1 < j + 1
    BY <1>2
  <2> QED BY <1>2, <1>3, <2>1 DEF FifoInv
<1>5. CASE b = CancelBlock
  <2>1. ran' = ran
    BY <1>1, <1>5
  <2>2. \A i \in 1..Len(actionArray') : actionArray'[i] \in Blocks =>
          /\ ran'[actionArray'[i].by] < actionArray'[i].n
          /\ actionArray'[i].n <= async'[actionArray'[i].by]
    BY <1>1, <1>2, <1>3, <2>1 DEF FifoInv
  <2>3. ASSUME NEW u \in Callers, NEW n \in 1..MaxAsync, ran'[u] < n, n <= async'[u]
        PROVE  \E i \in 1..Len(actionArray') : actionArray'[i] = [by |-> u, n |-> n]
    <3>1. PICK i \in 1..Len(actionArray) : actionArray[i] = [by |-> u, n |-> n]
      BY <1>1, <2>1, <2>3 DEF FifoInv
    <3>2. actionArray[i] # b
      BY <1>5, <3>1, BlockFacts
    <3>3. i - 1 \in 1..Len(actionArray') /\ (i - 1) + 1 = i
      BY <1>2, <3>2
    <3> QED BY <1>2, <3>1, <3>3
  <2> QED BY <1>1, <1>4, <2>1, <2>2, <2>3 DEF FifoInv
<1>6. CASE b # CancelBlock
  <2> DEFINE t == b.by
  <2>1. /\ b \in Blocks /\ t \in Callers /\ b.n \in 1..MaxAsync
        /\ b = [by |-> t, n |-> b.n]
    BY <1>2, <1>6, BlockFacts
  <2>2. b.n = ran[t] + 1
    BY <1>1, <2>1, HeadIsNext DEF GateInv
  <2>3. /\ \A u \in Callers : ran'[u] = IF u = t THEN b.n ELSE ran[u]
        /\ \A u \in Callers : ran[u] \in Nat /\ async[u] \in Nat
    BY <1>1, <1>6, <2>1, <2>2
  <2>4. \A u \in Callers : ran'[u] <= async'[u]
    BY <1>1, <1>2, <2>1, <2>3 DEF FifoInv
  <2>5. ASSUME NEW i \in 1..Len(actionArray'), actionArray'[i] \in Blocks
        PROVE  /\ ran'[actionArray'[i].by] < actionArray'[i].n
               /\ actionArray'[i].n <= async'[actionArray'[i].by]
    <3>1. /\ actionArray'[i] = actionArray[i + 1] /\ actionArray[i + 1] \in Blocks
          /\ i + 1 \in 1..Len(actionArray) /\ 1 < i + 1
          /\ actionArray[i + 1].by \in Callers
      BY <1>2, <1>3, <2>5, BlockFacts
    <3>2. /\ ran[actionArray[i + 1].by] < actionArray[i + 1].n
          /\ actionArray[i + 1].n <= async[actionArray[i + 1].by]
      BY <3>1 DEF FifoInv
    <3>3. actionArray[i + 1].by = t => b.n < actionArray[i + 1].n
      BY <1>2, <2>1, <3>1 DEF FifoInv
    <3> QED BY <1>1, <2>3, <3>1, <3>2, <3>3
  <2>6. ASSUME NEW u \in Callers, NEW n \in 1..MaxAsync, ran'[u] < n, n <= async'[u]
        PROVE  \E i \in 1..Len(actionArray') : actionArray'[i] = [by |-> u, n |-> n]
    <3>1. ran[u] < n
      BY <2>1, <2>2, <2>3, <2>6
    <3>2. PICK i \in 1..Len(actionArray) : actionArray[i] = [by |-> u, n |-> n]
      BY <1>1, <2>6, <3>1 DEF FifoInv
    <3>3. i # 1
      BY <1>2, <2>1, <2>3, <2>6, <3>2, BlockFacts
    <3>4. i - 1 \in 1..Len(actionArray') /\ (i - 1) + 1 = i
      BY <1>2, <3>3
    <3> QED BY <1>2, <3>2, <3>4
  <2> QED BY <1>4, <2>4, <2>5, <2>6 DEF FifoInv
<1> QED BY <1>5, <1>6

LEMMA FifoStep == GateInv /\ FifoInv /\ [Next]_vars => FifoInv'
<1> SUFFICES ASSUME GateInv, FifoInv, [Next]_vars PROVE FifoInv'
  OBVIOUS
<1>1. ASSUME NEW t \in Callers,
             Activate(t) \/ Cancel(t) \/ DispatchSync(t) \/ AddEventSources(t)
             \/ InterruptOccurred(t) \/ SyncReturns(t)
      PROVE  FifoInv'
  BY <1>1, FifoKept DEF Activate, Cancel, DispatchSync, AddEventSources,
     InterruptOccurred, SyncReturns, queue, counts
<1>2. CASE HandleIOHIDAction \/ BlockReturns \/ HandlerReturns \/ UNCHANGED vars
  BY <1>2, FifoKept DEF HandleIOHIDAction, BlockReturns, HandlerReturns, vars, queue,
     counts
<1> QED BY <1>1, <1>2, FifoDispatch, FifoCancel, FifoDequeue
        DEF Next, Call, Step, WorkLoop

------------------------------------------------------------------------------
(* Cancellation: the cancel block is first with the thread that cancels,   *)
(* then last in the array, then it runs, then it is handled.               *)
Waits == \E i \in 1..Len(actionArray) : actionArray[i] = CancelBlock
Cancelling == \E t \in Callers : pc[t] = "cancel"

CancelInv ==
  /\ state # "Cancelled" =>
       ~Cancelling /\ ~Waits /\ current # CancelBlock /\ handled = 0
  /\ \A t, u \in Callers : pc[t] = "cancel" /\ pc[u] = "cancel" => t = u
  /\ Cancelling => ~Waits
  /\ Cancelling \/ Waits => current # CancelBlock /\ handled = 0
  /\ \A i \in 1..Len(actionArray) :
       actionArray[i] = CancelBlock => i = Len(actionArray)
  /\ current = CancelBlock => actionArray = <<>> /\ handled = 0
  /\ handled > 0 => handled = 1 /\ actionArray = <<>> /\ current = Free

LEMMA CancelStep == GateInv /\ CancelInv /\ [Next]_vars => CancelInv'
<1> SUFFICES ASSUME GateInv, CancelInv, [Next]_vars PROVE CancelInv'
  OBVIOUS
<1> USE DEF CancelInv, CanCall, Waits, Cancelling
<1>0. /\ pc \in [Callers -> {"idle", "signal", "sync", "attach", "cancel"}]
      /\ actionArray \in Seq(Blocks \cup {CancelBlock}) /\ handled \in Nat
  BY DEF GateInv, TypeOK
<1>1. ASSUME NEW t \in Callers, Activate(t) PROVE CancelInv'
  BY <1>0, <1>1 DEF Activate, queue, loopVars
<1>2. ASSUME NEW t \in Callers, Cancel(t) PROVE CancelInv'
  BY <1>0, <1>2 DEF Cancel, MayCancel, NoDispatcher, queue, loopVars
<1>3. ASSUME NEW t \in Callers, DispatchAsync(t) PROVE CancelInv'
  <2> DEFINE b == [by |-> t, n |-> async[t] + 1]
  <2>1. b \in Blocks /\ b # CancelBlock
    <3>1. async[t] + 1 \in 1..MaxAsync
      BY <1>3 DEF DispatchAsync, GateInv, TypeOK
    <3> QED BY <3>1, BlockFacts
  <2>2. /\ Len(actionArray) \in Nat /\ Len(actionArray') = Len(actionArray) + 1
        /\ \A i \in 1..Len(actionArray) : actionArray'[i] = actionArray[i]
        /\ actionArray'[Len(actionArray) + 1] = b
    BY <1>0, <1>3, <2>1, AppendFacts, EmptyFacts DEF DispatchAsync, Enqueue, Added
  <2> QED BY <1>0, <1>3, <2>1, <2>2 DEF DispatchAsync, Enqueue, loopVars
<1>4. ASSUME NEW t \in Callers, DispatchSync(t) PROVE CancelInv'
  BY <1>0, <1>4 DEF DispatchSync, queue
<1>5. ASSUME NEW t \in Callers, AddEventSources(t) PROVE CancelInv'
  BY <1>0, <1>5 DEF AddEventSources, queue, loopVars
<1>6. ASSUME NEW t \in Callers, EnqueueCancel(t) PROVE CancelInv'
  <2>1. /\ Len(actionArray) \in Nat /\ Len(actionArray') = Len(actionArray) + 1
        /\ \A i \in 1..Len(actionArray) : actionArray'[i] = actionArray[i]
        /\ actionArray'[Len(actionArray) + 1] = CancelBlock
    BY <1>0, <1>6, AppendFacts, EmptyFacts DEF EnqueueCancel, Enqueue, Added
  <2>2. pc' = [pc EXCEPT ![t] = IF WasEmpty THEN "signal" ELSE "idle"]
    BY <1>6 DEF EnqueueCancel, Enqueue
  <2> QED BY <1>0, <1>6, <2>1, <2>2 DEF EnqueueCancel, Enqueue, loopVars
<1>7. ASSUME NEW t \in Callers, InterruptOccurred(t) PROVE CancelInv'
  BY <1>0, <1>7 DEF InterruptOccurred, loopVars, counts
<1>8. ASSUME NEW t \in Callers, SyncReturns(t) PROVE CancelInv'
  BY <1>0, <1>8 DEF SyncReturns, queue
<1>9. CASE HandleIOHIDAction
  BY <1>9 DEF HandleIOHIDAction
<1>10. CASE Dequeue
  <2>1. /\ Len(actionArray) \in Nat /\ Len(actionArray') = Len(actionArray) - 1
        /\ \A i \in 1..Len(actionArray') : actionArray'[i] = actionArray[i + 1]
        /\ current' = actionArray[1] /\ 1 \in 1..Len(actionArray)
        /\ actionArray' \in Seq(Blocks \cup {CancelBlock})
        /\ Len(actionArray') = 0 => actionArray' = <<>>
    BY <1>0, <1>10, TailFacts, EmptyFacts DEF Dequeue
  <2>2. \A i \in 1..Len(actionArray') :
          i + 1 \in 1..Len(actionArray) /\ i + 1 # 1
    BY <2>1
  <2>3. Waits' => Waits /\ Len(actionArray) # 1
    BY <2>1, <2>2
  <2>4. handled = 0
    BY <1>0, <1>10 DEF Dequeue
  <2>5. current' = CancelBlock => Waits /\ actionArray' = <<>>
    <3> SUFFICES ASSUME current' = CancelBlock PROVE Waits /\ actionArray' = <<>>
      OBVIOUS
    <3>0. actionArray[1] = CancelBlock /\ 1 \in 1..Len(actionArray)
      BY <2>1
    <3>1. actionArray[1] = CancelBlock /\ 1 = Len(actionArray)
      BY <3>0, CancelInv
    <3>2. Waits
      BY <3>0 DEF Waits
    <3>3. actionArray' = <<>>
      BY ONLY <2>1, <3>1
    <3> QED BY <3>2, <3>3
  <2>6. \A i \in 1..Len(actionArray') :
          actionArray'[i] = CancelBlock => i = Len(actionArray')
    BY <2>1, <2>2
  <2>7. state' = state /\ pc' = pc /\ handled' = 0
    BY <1>10, <2>4 DEF Dequeue
  <2>8. Waits' => current' # CancelBlock
    BY <2>1, <2>3
  <2> QED BY <2>3, <2>5, <2>6, <2>7, <2>8
<1>11. CASE BlockReturns
  <2>1. CASE current = CancelBlock
    BY <1>0, <1>11, <2>1 DEF BlockReturns, queue
  <2>2. CASE current # CancelBlock
    BY <1>0, <1>11, <2>2 DEF BlockReturns, queue
  <2> QED BY <2>1, <2>2
<1>12. CASE HandlerReturns
  BY <1>12 DEF HandlerReturns, queue
<1>13. CASE UNCHANGED vars
  BY <1>13 DEF vars, queue, loopVars
<1> QED BY <1>1, <1>2, <1>3, <1>4, <1>5, <1>6, <1>7, <1>8, <1>9, <1>10, <1>11,
           <1>12, <1>13 DEF Next, Call, Step, WorkLoop

------------------------------------------------------------------------------
(* All together.                                                           *)
QueueInv == GateInv /\ FifoInv /\ CancelInv

LEMMA InitQueue == Init => QueueInv
<1> SUFFICES ASSUME Init PROVE QueueInv
  OBVIOUS
<1>1. GateInv
  BY GateInit
<1>2. actionArray = <<>> /\ Len(actionArray) = 0
  BY DEF Init
<1>3. FifoInv
  BY <1>2 DEF Init, FifoInv
<1>4. CancelInv
  BY <1>2 DEF Init, CancelInv, Waits, Cancelling
<1> QED BY <1>1, <1>3, <1>4 DEF QueueInv

LEMMA AlwaysQueue == Spec => []QueueInv
<1>1. QueueInv /\ [Next]_vars => QueueInv'
  BY GateStep, FifoStep, CancelStep DEF QueueInv
<1> QED BY InitQueue, <1>1, PTL DEF Spec

(* The cancel handler is called once, and when it has been, every block    *)
(* has run.                                                                *)
THEOREM CancelLast == Spec => []HandlerIsLast
<1>1. QueueInv => HandlerIsLast
  <2> SUFFICES ASSUME QueueInv, handled > 0 PROVE ran = async
    BY DEF QueueInv, CancelInv, HandlerIsLast
  <2>1. actionArray = <<>> /\ Len(actionArray) = 0
    BY DEF QueueInv, CancelInv
  <2>2. ran \in [Callers -> Nat] /\ async \in [Callers -> 0..MaxAsync]
    BY DEF QueueInv, GateInv, TypeOK
  <2>3. ASSUME NEW t \in Callers PROVE ran[t] = async[t]
    <3>1. ran[t] \in Nat /\ async[t] \in 0..MaxAsync /\ ran[t] <= async[t]
      BY <2>2 DEF QueueInv, FifoInv
    <3>2. ~ (ran[t] < async[t])
      <4> SUFFICES ASSUME ran[t] < async[t] PROVE FALSE
        OBVIOUS
      <4>1. async[t] \in 1..MaxAsync /\ async[t] <= async[t]
        BY <3>1
      <4> QED BY <2>1, <4>1 DEF QueueInv, FifoInv
    <3> QED BY <3>1, <3>2
  <2> QED BY <2>2, <2>3
<1> QED BY <1>1, AlwaysQueue, PTL

(* Every step is a step of SerialQueue, or none: blocks are submitted, are *)
(* started in their order, one at a time, and none after the handler.      *)
THEOREM Implements == Spec => Serial!Init /\ [][Serial!Next]_(Serial!svars)
<1>1. Init => Serial!Init
  BY DEF Init, Serial!Init
<1>2. QueueInv /\ [Next]_vars => [Serial!Next]_(Serial!svars)
  <2> SUFFICES ASSUME QueueInv, [Next]_vars
               PROVE  Serial!Next \/ UNCHANGED Serial!svars
    OBVIOUS
  <2> USE DEF Serial!svars, QueueInv
  <2>0. /\ actionArray \in Seq(Blocks \cup {CancelBlock})
        /\ handled \in Nat /\ Len(actionArray) \in Nat
        /\ DOMAIN actionArray = 1..Len(actionArray)
    BY EmptyFacts DEF GateInv, TypeOK
  <2>1. ASSUME NEW t \in Callers,
               Activate(t) \/ Cancel(t) \/ DispatchSync(t) \/ AddEventSources(t)
               \/ InterruptOccurred(t) \/ SyncReturns(t)
        PROVE  UNCHANGED Serial!svars
    BY <2>1 DEF Activate, Cancel, DispatchSync, AddEventSources, InterruptOccurred,
       SyncReturns, queue, loopVars
  <2>2. ASSUME NEW t \in Callers, DispatchAsync(t) PROVE Serial!Next
    <3> DEFINE b == [by |-> t, n |-> async[t] + 1]
    <3>1. b \in Blocks
      <4>1. async[t] + 1 \in 1..MaxAsync
        BY <2>2 DEF DispatchAsync, GateInv, TypeOK
      <4> QED BY <4>1, BlockFacts
    <3>2. ~Waits /\ current # CancelBlock /\ handled = 0
      BY <2>2 DEF DispatchAsync, CancelInv
    <3>3. /\ actionArray' = Append(actionArray, b)
          /\ current' = current /\ handled' = handled
      BY <2>2 DEF DispatchAsync, Enqueue, Added, loopVars
    <3>4. Serial!Submit(b)
      BY <2>0, <3>2, <3>3 DEF Serial!Submit, Waits
    <3> QED BY <3>1, <3>4 DEF Serial!Next
  <2>3. ASSUME NEW t \in Callers, EnqueueCancel(t) PROVE Serial!Next
    <3>1. ~Waits /\ current # CancelBlock /\ handled = 0
      BY <2>3 DEF EnqueueCancel, CancelInv, Cancelling
    <3>2. /\ actionArray' = Append(actionArray, CancelBlock)
          /\ current' = current /\ handled' = handled
      BY <2>3 DEF EnqueueCancel, Enqueue, Added, loopVars
    <3>3. Serial!Submit(CancelBlock)
      BY <2>0, <3>1, <3>2 DEF Serial!Submit, Waits
    <3> QED BY <3>3 DEF Serial!Next
  <2>4. CASE Dequeue
    <3>1. handled = 0
      <4>1. ~(handled > 0)
        BY <2>4 DEF Dequeue, CancelInv
      <4> QED BY <2>0, <4>1
    <3> QED BY <2>4, <3>1 DEF Dequeue, Serial!Next, Serial!Start
  <2>5. CASE BlockReturns
    <3>1. handled = 0
      <4>1. ~(handled > 0)
        BY <2>5 DEF BlockReturns, CancelInv
      <4> QED BY <2>0, <4>1
    <3>2. (handled' > 0) = (current = CancelBlock)
      BY <2>5, <3>1 DEF BlockReturns
    <3> QED BY <2>5, <3>2 DEF BlockReturns, queue, Serial!Next, Serial!Finish
  <2>6. CASE HandleIOHIDAction \/ HandlerReturns \/ UNCHANGED vars
    BY <2>6 DEF HandleIOHIDAction, HandlerReturns, vars, queue, loopVars
  <2> QED BY <2>1, <2>2, <2>3, <2>4, <2>5, <2>6 DEF Next, Call, Step, WorkLoop
<1> QED BY <1>1, <1>2, AlwaysQueue, PTL DEF Spec

(* The queue runs what it was given, alone, and nothing after the handler. *)
THEOREM RunsSerially == Spec => []SerialRun
BY Alone, CancelLast, WakeUps, PTL DEF SerialRun
================================================================================
