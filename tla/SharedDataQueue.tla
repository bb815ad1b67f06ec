---------------------------- MODULE SharedDataQueue ----------------------------
(***************************************************************************)
(* The ring of variable-sized entries that the kernel shares with a client *)
(* process: IOHIDEventServiceQueue::enqueueEvent and, with the same code,  *)
(* IOHIDResourceQueue::enqueueReport.  The kernel enqueues under its gate, *)
(* the client dequeues without any lock, and a mach message tells a client *)
(* that sleeps on its port that there is something to read.                *)
(*                                                                         *)
(* Offsets and sizes count 32-bit words; the header of an entry, its size, *)
(* is one word.  A processor's stores become visible to the other some     *)
(* time later: tailStore and headStore hold the one store of each side     *)
(* that is still on its way.  A sequentially consistent fence waits for    *)
(* the processor's own store, and so does a message.                       *)
(***************************************************************************)
EXTENDS Integers

CONSTANTS
  QueueSize,   \* words in the ring
  Sizes,       \* sizes of the payloads, after alignment
  Kinds,       \* the kinds of queues, see KindsOfQueues
  MaxEntries   \* BOUND: entries that are enqueued

(* options: the delivery options an event may have, besides "none".        *)
(* forceAll: kIOHIDEventServiceQueueOptionNotificationForce.  onRefusal: an *)
(* entry that does not fit is "return"ed at once (a report queue), or the  *)
(* head is "check"ed as for any other (an event queue with                 *)
(* NoFullNotification), or the client is "notify"ed (an event queue).      *)
KindsOfQueues ==
  [options: SUBSET {"force", "suppress"}, forceAll: BOOLEAN,
   onRefusal: {"return", "check", "notify"}]

ASSUME QueueAssumption ==
  /\ QueueSize \in Nat \ {0} /\ Sizes \subseteq Nat \ {0}
  /\ Kinds \subseteq KindsOfQueues
  /\ MaxEntries \in Nat

None == -1
HeaderSize == 1
Offsets == 0..QueueSize
Word == [id: Nat, size: Nat]      \* a data word has size 0

VARIABLES
  kind,        \* what kind of queue this is
  mem,         \* dataQueue->queue
  tail, head,  \* dataQueue->tail and head, as the other side sees them
  tailStore, headStore,   \* a store still on its way, or None
  port,        \* the client has registered its port
  msg,         \* a notification is in the port (its queue limit is one)
  pc,          \* the enqueuer: "idle", "loaded", "stored", "notify"
  entry,       \* its arguments: payload size and option
  eTail, eHead, full,     \* its locals tail, head and queueFull
  cpc,         \* the client: "asleep", "dequeue", "loaded", "copied"
  cHead, cTail, newHead,  \* its locals
  read,        \* the ids in the entry it has copied
  sent, got    \* entries accepted, entries delivered

enqVars == <<pc, entry, eTail, eHead, full>>
clientVars == <<cpc, cHead, cTail, newHead, read>>
vars == <<kind, mem, tail, head, tailStore, headStore, port, msg, enqVars, clientVars,
          sent, got>>

TypeOK ==
  /\ kind \in Kinds
  /\ mem \in [0..(QueueSize - 1) -> Word]
  /\ tail \in Offsets /\ head \in Nat
  /\ tailStore \in Offsets \cup {None} /\ headStore \in Nat \cup {None}
  /\ port \in BOOLEAN /\ msg \in BOOLEAN
  /\ pc \in {"idle", "loaded", "stored", "notify"}
  /\ entry \in [size: Sizes \cup {0}, option: {"none", "force", "suppress"}]
  /\ eTail \in Offsets /\ eHead \in Nat /\ full \in BOOLEAN
  /\ cpc \in {"asleep", "dequeue", "loaded", "copied"}
  /\ cHead \in Nat /\ cTail \in Offsets /\ newHead \in Nat
  /\ read \subseteq Nat
  /\ sent \in Nat /\ got \in Nat

Init ==
  /\ kind \in Kinds
  /\ mem = [o \in 0..(QueueSize - 1) |-> [id |-> 0, size |-> 0]]
  /\ tail = 0 /\ head = 0 /\ tailStore = None /\ headStore = None
  /\ port = FALSE /\ msg = FALSE
  /\ pc = "idle" /\ entry = [size |-> 0, option |-> "none"]
  /\ eTail = 0 /\ eHead = 0 /\ full = FALSE
  /\ cpc = "asleep" /\ cHead = 0 /\ cTail = 0 /\ newHead = 0 /\ read = {}
  /\ sent = 0 /\ got = 0

(* What each side reads of its own variable.                               *)
OwnTail == IF tailStore = None THEN tail ELSE tailStore
OwnHead == IF headStore = None THEN head ELSE headStore

------------------------------------------------------------------------------
(* The enqueuer.                                                           *)

EntrySize == entry.size + HeaderSize

(* Where the entry goes: at the tail, or at the beginning of the ring, or  *)
(* nowhere.  The tail may be QueueSize but may not catch up with the head. *)
(* A head outside the ring is refused: the client wrote it.                *)
InRing == eTail <= QueueSize /\ eHead <= QueueSize

BugNoEntryHeader == \/ eTail >= eHead /\ QueueSize - eTail >= entry.size
                    \/ eTail < eHead /\ eHead - eTail > EntrySize

AtTail == \/ eTail >= eHead /\ QueueSize - eTail >= EntrySize
          \/ eTail < eHead /\ eHead - eTail > EntrySize

BugWrapAtEnd == eTail = QueueSize /\ eHead > EntrySize

AtStart == eTail >= eHead /\ ~AtTail /\ eHead > EntrySize
Fits == InRing /\ (AtTail \/ AtStart)
EntryAt == IF AtTail THEN eTail ELSE 0

(* Force a single read of tail and head.                                   *)
Load(size, option) ==
  /\ pc = "idle" /\ sent < MaxEntries
  /\ entry' = [size |-> size, option |-> option]
  /\ eTail' = OwnTail /\ eHead' = head
  /\ pc' = "loaded"
  /\ UNCHANGED <<kind, mem, tail, head, tailStore, headStore, port, msg, full,
                 clientVars, sent, got>>

Header == [id |-> sent + 1, size |-> entry.size]
Data == [id |-> sent + 1, size |-> 0]

(* The entry at offset o.  When it wraps, its size is also left at the     *)
(* tail, if there is room for it, to tell the client.                      *)
BugNoMarker(o) ==
  [w \in DOMAIN mem |-> IF w = o THEN Header
                        ELSE IF w \in (o + 1)..(o + entry.size) THEN Data
                        ELSE mem[w]]

Written(o) ==
  [w \in DOMAIN mem |-> IF w = o \/ w = eTail THEN Header
                        ELSE IF w \in (o + 1)..(o + entry.size) THEN Data
                        ELSE mem[w]]

(* Write the entry and publish it.                                         *)
Store ==
  /\ pc = "loaded"
  /\ IF Fits
     THEN /\ tailStore = None        \* one store on its way at a time
          /\ mem' = Written(EntryAt)
          /\ tailStore' = EntryAt + EntrySize
          /\ sent' = sent + 1
     ELSE UNCHANGED <<mem, tailStore, sent>>
  /\ full' = ~Fits
  /\ pc' = IF Fits \/ kind.onRefusal # "return" THEN "stored" ELSE "idle"
  /\ UNCHANGED <<kind, tail, head, headStore, port, msg, entry, eTail, eHead,
                 clientVars, got>>

(* If the queue was not empty before: fence, and look at the head again.   *)
BugNoFence == TRUE
Fenced == tailStore = None
Reload == IF eTail # eHead THEN head ELSE eHead

Check ==
  /\ pc = "stored"
  /\ eTail # eHead => Fenced
  /\ eHead' = Reload
  /\ pc' = "notify"
  /\ UNCHANGED <<kind, mem, tail, head, tailStore, headStore, port, msg, entry, eTail,
                 full, clientVars, sent, got>>

Emptied == eHead = eTail

BugNotForced == entry.option # "suppress" /\ Emptied

MustNotify ==
  /\ entry.option # "suppress"
  /\ \/ kind.forceAll \/ entry.option = "force" \/ Emptied
     \/ full /\ kind.onRefusal = "notify"

(* sendDataAvailableNotification: a message that carries the processor's   *)
(* stores with it; one that finds the port's queue full is dropped.        *)
Notify ==
  /\ pc = "notify"
  /\ IF MustNotify /\ port THEN tailStore = None /\ msg' = TRUE
                           ELSE UNCHANGED msg
  /\ pc' = "idle"
  /\ UNCHANGED <<kind, mem, tail, head, tailStore, headStore, port, entry, eTail, eHead,
                 full, clientVars, sent, got>>

Waiting == head # OwnTail

SetNotificationPort ==
  /\ pc = "idle" /\ ~port
  /\ port' = TRUE
  /\ IF Waiting THEN tailStore = None /\ msg' = TRUE ELSE UNCHANGED msg
  /\ UNCHANGED <<kind, mem, tail, head, tailStore, headStore, enqVars, clientVars,
                 sent, got>>

TailVisible ==
  /\ tailStore # None
  /\ tail' = tailStore /\ tailStore' = None
  /\ UNCHANGED <<kind, mem, head, headStore, port, msg, enqVars, clientVars, sent, got>>

------------------------------------------------------------------------------
(* The client: on a message it dequeues until nothing is left.             *)

Receive ==
  /\ cpc = "asleep" /\ msg
  /\ msg' = FALSE
  /\ cpc' = "dequeue"
  /\ UNCHANGED <<kind, mem, tail, head, tailStore, headStore, port, enqVars, cHead,
                 cTail, newHead, read, sent, got>>

(* IODataQueueDequeue reads both offsets; kIOReturnUnderrun if equal.      *)
Dequeue ==
  /\ cpc = "dequeue"
  /\ cHead' = OwnHead /\ cTail' = tail
  /\ cpc' = IF cHead' = cTail' THEN "asleep" ELSE "loaded"
  /\ UNCHANGED <<kind, mem, tail, head, tailStore, headStore, port, msg, enqVars,
                 newHead, read, sent, got>>

(* The entry is at the head, or at the beginning if there is no room for   *)
(* its header, or for its data, at the end.                                *)
EntryOffset ==
  IF \/ cHead > QueueSize - HeaderSize
     \/ cHead > QueueSize - (mem[cHead].size + HeaderSize)
  THEN 0 ELSE cHead

Copy ==
  /\ cpc = "loaded"
  /\ LET o == EntryOffset
         n == mem[o].size
     IN  /\ read' = {mem[w].id : w \in {x \in DOMAIN mem : o <= x /\ x <= o + n}}
         /\ newHead' = o + n + HeaderSize
  /\ cpc' = "copied"
  /\ UNCHANGED <<kind, mem, tail, head, tailStore, headStore, port, msg, enqVars, cHead,
                 cTail, sent, got>>

(* Give the room back.  If that empties the queue, a fence follows: the    *)
(* store is visible before the tail is read again.                         *)
StoreHead == IF newHead = cTail THEN headStore' = None /\ head' = newHead
                                ELSE headStore' = newHead /\ head' = head

Release ==
  /\ cpc = "copied" /\ headStore = None
  /\ StoreHead
  /\ got' = got + 1
  /\ cpc' = "dequeue"
  /\ UNCHANGED <<kind, mem, tail, tailStore, port, msg, enqVars, cHead, cTail, newHead,
                 read, sent>>

HeadVisible ==
  /\ headStore # None
  /\ head' = headStore /\ headStore' = None
  /\ UNCHANGED <<kind, mem, tail, tailStore, port, msg, enqVars, clientVars, sent, got>>

------------------------------------------------------------------------------
Enqueue == \/ \E size \in Sizes, option \in kind.options \cup {"none"} : Load(size, option)
           \/ Store \/ Check \/ Notify
Client == Receive \/ Dequeue \/ Copy \/ Release

Next == Enqueue \/ SetNotificationPort \/ TailVisible
        \/ Client \/ HeadVisible

Spec == Init /\ [][Next]_vars

(* An enqueuer that has begun goes on, stores become visible, a client     *)
(* with a message reads, and a client registers its port.                  *)
FairSpec == /\ Spec
            /\ WF_vars(Store) /\ WF_vars(Check) /\ WF_vars(Notify)
            /\ WF_vars(TailVisible) /\ WF_vars(HeadVisible)
            /\ WF_vars(Client)
            /\ SF_vars(SetNotificationPort)

------------------------------------------------------------------------------
(* Properties.                                                             *)

(* What the client copies is one whole entry, and the next one: nothing is *)
(* lost, repeated or overwritten while it is being read, over any number   *)
(* of wraps.                                                               *)
InOrder == cpc = "copied" => read = {got + 1} /\ got < sent

(* The enqueuer writes inside the ring, whatever the client left in head.  *)
WritesInRing == pc = "loaded" /\ Fits => EntryAt + EntrySize <= QueueSize

(* An empty queue takes any entry of at most half its size, wherever its   *)
(* offsets stand; a bigger one may be refused by an empty queue for good.  *)
EmptyTakesHalf ==
  pc = "loaded" /\ eTail = eHead /\ 2 * EntrySize <= QueueSize => Fits

(* The room in the ring is neither over- nor underestimated that much.     *)
RingBounds == WritesInRing /\ EmptyTakesHalf

(* "Either our store to the tail cannot be missed by the next dequeue      *)
(* attempt, or we will observe the dequeuer making the queue empty":       *)
(* every entry accepted is delivered in the end, if none is suppressed.    *)
Loud == "suppress" \notin kind.options
AllDelivered == \A k \in 1..MaxEntries : Loud /\ sent >= k ~> got >= k

(* Suppressed events may wait for good; an event with the force option     *)
(* delivers itself and all that were accepted before it.                   *)
ForceDelivers ==
  \A k \in 1..MaxEntries :
    pc = "stored" /\ entry.option = "force" /\ sent = k ~> got >= k

(* The notification that delivers them is never the one left out.          *)
Deliveries == AllDelivered /\ ForceDelivers
================================================================================
