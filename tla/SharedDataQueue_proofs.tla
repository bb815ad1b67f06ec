------------------------ MODULE SharedDataQueue_proofs ------------------------
(***************************************************************************)
(* What holds of SharedDataQueue for every size of the ring, every set of  *)
(* entry sizes and every number of entries.                                *)
(***************************************************************************)
EXTENDS SharedDataQueue, TLAPS

USE DEF None, HeaderSize, Offsets

------------------------------------------------------------------------------
(* Lemmas about the operators.                                             *)

(* The enqueuer's locals are numbers.                                      *)
LEMMA Numbers ==
  ASSUME TypeOK
  PROVE  /\ QueueSize \in Nat /\ QueueSize > 0
         /\ entry.size \in Nat /\ EntrySize \in Nat
         /\ eTail \in Nat /\ eTail <= QueueSize /\ eHead \in Nat
<1>1. QueueSize \in Nat /\ QueueSize > 0 /\ Sizes \subseteq Nat
  BY QueueAssumption
<1>2. entry.size \in Sizes \cup {0}
  <2>1. entry \in [size: Sizes \cup {0}, option: {"none", "force", "suppress"}]
    BY DEF TypeOK
  <2> QED BY ONLY <2>1
<1>3. entry.size \in Nat
  <2>1. \A x \in Sizes \cup {0} : x \in Nat
    BY <1>1
  <2> QED BY <1>2, <2>1, Zenon
<1>4. eTail \in 0..QueueSize /\ eHead \in Nat
  BY DEF TypeOK
<1> QED BY <1>1, <1>3, <1>4 DEF EntrySize

(* An entry that fits ends inside the ring, before the head if the head is *)
(* ahead of it.                                                            *)
LEMMA FitsEnds ==
  ASSUME TypeOK, Fits
  PROVE  /\ EntryAt \in 0..(QueueSize - 1)
         /\ EntryAt + EntrySize <= QueueSize
         /\ EntryAt < eHead => EntryAt + EntrySize < eHead
<1>1. EntrySize >= 1
  BY Numbers DEF EntrySize
<1>2. CASE AtTail
  BY <1>1, <1>2, Numbers DEF Fits, InRing, AtTail, EntryAt
<1>3. CASE ~AtTail
  BY <1>1, <1>3, Numbers DEF Fits, InRing, AtStart, EntryAt
<1> QED BY <1>2, <1>3

(* What the enqueuer writes keeps the ring an array of words.              *)
LEMMA WrittenType ==
  ASSUME TypeOK, NEW o \in 0..(QueueSize - 1)
  PROVE  Written(o) \in [0..(QueueSize - 1) -> Word]
<1>1. Header \in Word /\ Data \in Word
  <2>1. sent + 1 \in Nat /\ entry.size \in Nat
    BY Numbers DEF TypeOK
  <2> QED BY <2>1 DEF Header, Data, Word
<1>2. DOMAIN mem = 0..(QueueSize - 1) /\ \A w \in DOMAIN mem : mem[w] \in Word
  BY DEF TypeOK
<1> QED BY <1>1, <1>2 DEF Written

(* Wherever the head stands, the client finds its entry inside the ring.   *)
LEMMA OffsetInRing ==
  ASSUME TypeOK
  PROVE  EntryOffset \in 0..(QueueSize - 1) /\ mem[EntryOffset] \in Word
<1>1. QueueSize \in Nat \ {0} /\ cHead \in Nat
  BY QueueAssumption DEF TypeOK
<1>2. EntryOffset \in 0..(QueueSize - 1)
  BY <1>1 DEF EntryOffset
<1> QED BY <1>2 DEF TypeOK

------------------------------------------------------------------------------
LEMMA TypeInit == Init => TypeOK
<1> SUFFICES ASSUME Init PROVE TypeOK
  OBVIOUS
<1>1. QueueSize \in Nat \ {0}
  BY QueueAssumption
<1>2. mem \in [0..(QueueSize - 1) -> Word]
  BY DEF Init, Word
<1>3. entry \in [size: Sizes \cup {0}, option: {"none", "force", "suppress"}]
  BY DEF Init
<1>4. /\ kind \in Kinds
      /\ port \in BOOLEAN /\ msg \in BOOLEAN /\ full \in BOOLEAN
  BY Zenon DEF Init
<1>5. /\ tail \in 0..QueueSize /\ tailStore \in 0..QueueSize \cup {-1}
      /\ head \in Nat /\ headStore \in Nat \cup {-1}
      /\ eTail \in 0..QueueSize /\ eHead \in Nat
      /\ cHead \in Nat /\ cTail \in 0..QueueSize /\ newHead \in Nat
      /\ sent \in Nat /\ got \in Nat
  BY <1>1 DEF Init
<1>6. /\ pc \in {"idle", "loaded", "stored", "notify"}
      /\ cpc \in {"asleep", "dequeue", "loaded", "copied"}
      /\ read \subseteq Nat
  BY DEF Init
<1> QED BY <1>2, <1>3, <1>4, <1>5, <1>6, Zenon DEF TypeOK

LEMMA TypeStep == TypeOK /\ [Next]_vars => TypeOK'
<1> SUFFICES ASSUME TypeOK, [Next]_vars PROVE TypeOK'
  OBVIOUS
<1> USE QueueAssumption
<1>1. ASSUME NEW size \in Sizes, NEW option \in kind.options \cup {"none"},
             Load(size, option)
      PROVE  TypeOK'
  <2>1. option \in {"none", "force", "suppress"}
    <3>1. kind.options \subseteq {"force", "suppress"}
      <4>1. kind \in KindsOfQueues
        BY QueueAssumption DEF TypeOK
      <4> QED BY <4>1 DEF KindsOfQueues
    <3> QED BY <3>1
  <2>2. entry' \in [size: Sizes \cup {0}, option: {"none", "force", "suppress"}]
    BY <1>1, <2>1 DEF Load
  <2> QED BY <1>1, <2>2 DEF TypeOK, Load, OwnTail, clientVars
<1>2. CASE Store
  <2>1. CASE Fits
    <3>1. mem' \in [0..(QueueSize - 1) -> Word]
      BY <1>2, <2>1, FitsEnds, WrittenType DEF Store
    <3>2. tailStore' \in 0..QueueSize
      BY <1>2, <2>1, Numbers, FitsEnds DEF Store
    <3>3. sent' \in Nat
      BY <1>2, <2>1 DEF Store, TypeOK
    <3> QED BY <1>2, <2>1, <3>1, <3>2, <3>3 DEF Store, TypeOK, clientVars
  <2>2. CASE ~Fits
    BY <1>2, <2>2 DEF Store, TypeOK, clientVars
  <2> QED BY <2>1, <2>2
<1>3. CASE Check
  BY <1>3 DEF TypeOK, Check, Reload, clientVars
<1>4. CASE Notify
  BY <1>4 DEF TypeOK, Notify, clientVars
<1>5. CASE SetNotificationPort
  BY <1>5 DEF TypeOK, SetNotificationPort, enqVars, clientVars
<1>6. CASE TailVisible
  BY <1>6 DEF TypeOK, TailVisible, enqVars, clientVars
<1>7. CASE Receive
  BY <1>7 DEF TypeOK, Receive, enqVars
<1>8. CASE Dequeue
  BY <1>8 DEF TypeOK, Dequeue, OwnHead, enqVars
<1>9. CASE Copy
  <2>1. read' \subseteq Nat
    <3>1. \A w \in DOMAIN mem : mem[w].id \in Nat
      BY DEF TypeOK, Word
    <3> QED BY <1>9, <3>1 DEF Copy
  <2>2. newHead' \in Nat
    <3>1. mem[EntryOffset].size \in Nat /\ EntryOffset \in Nat
      BY OffsetInRing DEF Word
    <3> QED BY <1>9, <3>1 DEF Copy
  <2> QED BY <1>9, <2>1, <2>2 DEF TypeOK, Copy, enqVars
<1>10. CASE Release
  BY <1>10 DEF TypeOK, Release, StoreHead, enqVars
<1>11. CASE HeadVisible
  BY <1>11 DEF TypeOK, HeadVisible, enqVars, clientVars
<1>12. CASE UNCHANGED vars
  BY <1>12 DEF TypeOK, vars, enqVars, clientVars
<1> QED BY <1>1, <1>2, <1>3, <1>4, <1>5, <1>6, <1>7, <1>8, <1>9, <1>10, <1>11,
           <1>12 DEF Next, Enqueue, Client

(* The variables keep their types, whatever the sizes.                     *)
THEOREM TypeCorrect == Spec => []TypeOK
<1>1. Init => TypeOK
  BY TypeInit
<1>2. TypeOK /\ [Next]_vars => TypeOK'
  BY TypeStep
<1> QED BY <1>1, <1>2, PTL DEF Spec

(* The enqueuer writes no word outside the ring, whatever head it loaded.  *)
THEOREM Contained == Spec => []WritesInRing
<1>1. TypeOK => WritesInRing
  BY FitsEnds DEF WritesInRing
<1> QED BY <1>1, TypeCorrect, PTL

(* An empty ring, wherever its offsets stand, takes an entry of at most    *)
(* half its size; and more than half may fit nowhere, so that "half" is    *)
(* the best that holds.                                                    *)
THEOREM HalfFits == Spec => []EmptyTakesHalf
<1>1. TypeOK => EmptyTakesHalf
  <2> SUFFICES ASSUME TypeOK, eTail = eHead, 2 * EntrySize <= QueueSize
               PROVE  Fits
    BY DEF EmptyTakesHalf
  <2>1. EntrySize >= 1
    BY Numbers DEF EntrySize
  <2> QED BY <2>1, Numbers DEF Fits, InRing, AtTail, AtStart
<1> QED BY <1>1, TypeCorrect, PTL

(* Both bounds on the room that the enqueuer sees.                         *)
THEOREM Bounds == Spec => []RingBounds
BY Contained, HalfFits, PTL DEF RingBounds

------------------------------------------------------------------------------
(* The ring between the two sides.  pos[k] is where the tail stood when k  *)
(* entries had been accepted: entry k begins at pos[k - 1], or at 0 if it  *)
(* wrapped, and ends at pos[k].                                            *)
Start(pos, k) == IF pos[k - 1] < pos[k] THEN pos[k - 1] ELSE 0
Size(pos, k) == pos[k] - Start(pos, k) - HeaderSize

(* From pos[lo] on the tail goes up, and after at most one wrap it stays   *)
(* below pos[lo].                                                          *)
Ascends(pos, lo) ==
  \A j, k \in lo..sent : j < k =>
    \/ pos[lo] <= pos[j] /\ pos[j] < pos[k]
    \/ pos[k] < pos[lo] /\ pos[lo] <= pos[j]
    \/ pos[k] < pos[lo] /\ pos[j] < pos[k]

(* Entry k is whole; when it wraps, the client can tell: there is no room  *)
(* for a header where the entry before ends, or a size that does not fit.  *)
Whole(pos, k) ==
  /\ Size(pos, k) \in Nat
  /\ mem[Start(pos, k)] = [id |-> k, size |-> Size(pos, k)]
  /\ \A w \in (Start(pos, k) + 1)..(pos[k] - 1) : mem[w].id = k
  /\ pos[k] < pos[k - 1] =>
       \/ pos[k - 1] = QueueSize
       \/ pos[k - 1] + mem[pos[k - 1]].size + HeaderSize > QueueSize

(* How many entries the other side knows of: those whose store of the tail *)
(* is visible, and those whose store of the head is.                       *)
TailSeen == IF tailStore = None THEN sent ELSE sent - 1
HeadSeen == IF headStore = None THEN got ELSE got - 1

(* lo entries had been released when the enqueuer read the head.           *)
Layout(pos, lo) ==
  /\ pos \in [0..sent -> Offsets]
  /\ lo \in 0..HeadSeen
  /\ Ascends(pos, lo)
  /\ \A k \in (lo + 1)..sent : Whole(pos, k)
  /\ tail = pos[TailSeen] /\ OwnTail = pos[sent]
  /\ head = pos[HeadSeen] /\ OwnHead = pos[got]
  /\ pc = "loaded" => eTail = pos[sent] /\ eHead = pos[lo]
  /\ cpc \in {"loaded", "copied"} => cHead = pos[got] /\ got < TailSeen
  /\ cpc = "copied" => read = {got + 1} /\ newHead = pos[got + 1]

RingInv ==
  /\ TypeOK
  /\ got <= TailSeen /\ 0 <= HeadSeen
  /\ \E pos \in [0..sent -> Offsets], lo \in 0..got : Layout(pos, lo)

(* Where the tail stood, and when; the two sides' counts are in order.     *)
LEMMA LayoutTypes ==
  ASSUME RingInv, NEW pos \in [0..sent -> Offsets], NEW lo \in 0..got, Layout(pos, lo)
  PROVE  /\ QueueSize \in Nat /\ sent \in Nat /\ got \in Nat /\ lo \in Nat
         /\ lo <= HeadSeen /\ HeadSeen <= got /\ got <= TailSeen /\ TailSeen <= sent
         /\ HeadSeen \in 0..sent /\ TailSeen \in 0..sent /\ lo \in 0..sent
         /\ \A k \in 0..sent : pos[k] \in Nat /\ pos[k] <= QueueSize
<1>1. QueueSize \in Nat /\ sent \in Nat /\ got \in Nat
  BY QueueAssumption DEF RingInv, TypeOK
<1>2. HeadSeen \in Nat /\ TailSeen \in Nat /\ HeadSeen <= got /\ TailSeen <= sent /\ got <= TailSeen
  BY <1>1 DEF RingInv, HeadSeen, TailSeen
<1>3. lo \in 0..HeadSeen
  BY DEF Layout
<1>4. \A k \in 0..sent : pos[k] \in 0..QueueSize
  OBVIOUS
<1> QED BY <1>1, <1>2, <1>3, <1>4

(* Once more entries have been released, what follows is still in order.   *)
LEMMA AscendsLater ==
  ASSUME sent \in Nat, QueueSize \in Nat, NEW pos \in [0..sent -> Offsets],
         NEW lo \in 0..sent, NEW l \in lo..sent, Ascends(pos, lo)
  PROVE  Ascends(pos, l)
<1> SUFFICES ASSUME NEW j \in l..sent, NEW k \in l..sent, j < k
             PROVE  \/ pos[l] <= pos[j] /\ pos[j] < pos[k]
                    \/ pos[k] < pos[l] /\ pos[l] <= pos[j]
                    \/ pos[k] < pos[l] /\ pos[j] < pos[k]
  BY DEF Ascends
<1>1. /\ l \in 0..sent /\ j \in 0..sent /\ k \in 0..sent
      /\ l \in lo..sent /\ j \in lo..sent /\ k \in lo..sent /\ l <= j /\ l < k
  OBVIOUS
<1>2. pos[lo] \in Nat /\ pos[l] \in Nat /\ pos[j] \in Nat /\ pos[k] \in Nat
  BY <1>1
<1>3. \/ pos[lo] <= pos[j] /\ pos[j] < pos[k]
      \/ pos[k] < pos[lo] /\ pos[lo] <= pos[j]
      \/ pos[k] < pos[lo] /\ pos[j] < pos[k]
  BY <1>1 DEF Ascends
<1>4. \/ pos[lo] <= pos[l] /\ pos[l] < pos[k]
      \/ pos[k] < pos[lo] /\ pos[lo] <= pos[l]
      \/ pos[k] < pos[lo] /\ pos[l] < pos[k]
  BY <1>1 DEF Ascends
<1>5. CASE l = j
  BY <1>2, <1>3, <1>4, <1>5
<1>6. CASE l < j
  <2>1. \/ pos[lo] <= pos[l] /\ pos[l] < pos[j]
        \/ pos[j] < pos[lo] /\ pos[lo] <= pos[l]
        \/ pos[j] < pos[lo] /\ pos[l] < pos[j]
    BY <1>1, <1>6 DEF Ascends
  <2> QED BY <1>2, <1>3, <1>4, <2>1
<1> QED BY <1>1, <1>5, <1>6

(* The words of an entry lie below the tail, or from the head on.          *)
LEMMA EntryWords ==
  ASSUME sent \in Nat, QueueSize \in Nat, NEW pos \in [0..sent -> Offsets],
         NEW lo \in 0..sent, Ascends(pos, lo), NEW k \in (lo + 1)..sent
  PROVE  /\ Start(pos, k) \in Nat /\ Start(pos, k) <= pos[k] /\ pos[k] \in 0..QueueSize
         /\ pos[k - 1] \in 0..QueueSize /\ pos[k] # pos[k - 1]
         /\ pos[lo] <= pos[sent] => pos[lo] <= pos[k - 1] /\ pos[k - 1] < pos[k] /\ pos[k] <= pos[sent]
         /\ pos[sent] < pos[lo] => \/ pos[k] <= pos[sent]
                                   \/ pos[lo] <= pos[k - 1] /\ pos[k - 1] < pos[k]
         /\ pos[k] < pos[k - 1] => pos[lo] <= pos[k - 1]
<1>1. /\ k \in lo..sent /\ k - 1 \in lo..sent /\ k - 1 < k /\ sent \in lo..sent
      /\ k \in 0..sent /\ k - 1 \in 0..sent
  OBVIOUS
<1>2. pos[lo] \in 0..QueueSize /\ pos[k] \in 0..QueueSize /\ pos[k - 1] \in 0..QueueSize
      /\ pos[sent] \in 0..QueueSize
  BY <1>1
<1>3. \/ pos[lo] <= pos[k - 1] /\ pos[k - 1] < pos[k]
      \/ pos[k] < pos[lo] /\ pos[lo] <= pos[k - 1]
      \/ pos[k] < pos[lo] /\ pos[k - 1] < pos[k]
  BY <1>1 DEF Ascends
<1>4. \/ k = sent
      \/ pos[lo] <= pos[k] /\ pos[k] < pos[sent]
      \/ pos[sent] < pos[lo] /\ pos[lo] <= pos[k]
      \/ pos[sent] < pos[lo] /\ pos[k] < pos[sent]
  BY <1>1 DEF Ascends
<1> QED BY <1>2, <1>3, <1>4 DEF Start

(* The client finds the entry that it has come to.                         *)
LEMMA FoundAt ==
  ASSUME TypeOK, sent \in Nat, QueueSize \in Nat, NEW pos \in [0..sent -> Offsets],
         NEW lo \in 0..sent, Ascends(pos, lo), NEW k \in (lo + 1)..sent, Whole(pos, k),
         cHead = pos[k - 1]
  PROVE  /\ EntryOffset = Start(pos, k)
         /\ mem[EntryOffset].size = Size(pos, k)
<1> DEFINE p == pos[k - 1]
           q == pos[k]
<1>1. p \in 0..QueueSize /\ q \in 0..QueueSize /\ p # q
  BY EntryWords
<1>2. CASE p < q
  <2>1. Start(pos, k) = p /\ mem[p] = [id |-> k, size |-> q - p - 1] /\ q - p - 1 >= 0
    BY <1>2 DEF Whole, Size, Start
  <2>2. mem[p].size = q - p - 1
    BY <2>1
  <2> QED BY <1>1, <2>1, <2>2, SMTT(20) DEF EntryOffset, Size
<1>3. CASE q < p
  <2>1. Start(pos, k) = 0 /\ mem[0] = [id |-> k, size |-> q - 0 - 1]
    BY <1>1, <1>3 DEF Whole, Size, Start
  <2>2. \/ p = QueueSize
        \/ p + mem[p].size + 1 > QueueSize
    BY <1>3 DEF Whole
  <2>3. mem[0].size = Size(pos, k)
    BY <2>1 DEF Size
  <2>4. EntryOffset = 0
    <3> HIDE DEF p, q
    <3>0. cHead = p /\ (p < QueueSize => mem[p].size \in Nat)
      <4>1. cHead = p
        BY DEF p
      <4>2. p < QueueSize => mem[p] \in Word
        BY <1>1 DEF TypeOK
      <4> QED BY <4>1, <4>2 DEF Word
    <3>1. CASE p = QueueSize
      BY <1>1, <3>0, <3>1 DEF EntryOffset
    <3>2. CASE p < QueueSize /\ p + mem[p].size + 1 > QueueSize
      <4>1. mem[cHead].size \in Nat /\ cHead + mem[cHead].size + 1 > QueueSize /\ cHead \in Nat
        BY <1>1, <3>0, <3>2
      <4>2. cHead > QueueSize - (mem[cHead].size + HeaderSize)
        BY <4>1, SMTT(20)
      <4> QED BY <4>2 DEF EntryOffset
    <3> QED BY <1>1, <2>2, <3>1, <3>2
  <2> QED BY <2>1, <2>3, <2>4
<1> QED BY <1>1, <1>2, <1>3

(* A step after which the ring and what was read of it are the same.       *)
LEMMA SameRing ==
  ASSUME RingInv, NEW pos \in [0..sent -> Offsets], NEW lo \in 0..got, Layout(pos, lo),
         UNCHANGED <<mem, sent>>
  PROVE  /\ Ascends(pos, lo)' /\ \A k \in (lo + 1)..sent : Whole(pos, k)'
         /\ pos \in [0..sent' -> Offsets]
<1>1. Ascends(pos, lo)'
  BY DEF Layout, Ascends
<1>2. \A k \in (lo + 1)..sent : Whole(pos, k)'
  BY DEF Layout, Whole, Start, Size
<1> QED BY <1>1, <1>2

(* The new entry follows the others, and overwrites none of their words.   *)
LEMMA StoreStep ==
  ASSUME RingInv, NEW pos \in [0..sent -> Offsets], NEW lo \in 0..got, Layout(pos, lo),
         Store, Fits
  PROVE  RingInv'
<1>0. TypeOK /\ TypeOK'
  BY TypeStep DEF RingInv, Next, Enqueue
<1>1. /\ QueueSize \in Nat /\ sent \in Nat /\ got \in Nat /\ lo \in Nat
      /\ lo <= HeadSeen /\ HeadSeen <= got /\ got <= TailSeen /\ TailSeen <= sent
      /\ HeadSeen \in 0..sent /\ TailSeen \in 0..sent /\ lo \in 0..sent
      /\ \A k \in 0..sent : pos[k] \in Nat /\ pos[k] <= QueueSize
  BY LayoutTypes
<1>e. PICK o \in 0..(QueueSize - 1), e \in 0..QueueSize :
               o = EntryAt /\ e = EntryAt + EntrySize
  <2>1. EntryAt \in 0..(QueueSize - 1) /\ EntrySize \in Nat /\ EntryAt + EntrySize <= QueueSize
    BY <1>0, FitsEnds, Numbers
  <2> QED BY <1>1, <2>1
<1>2. /\ eTail = pos[sent] /\ eHead = pos[lo]
      /\ tailStore = None /\ mem' = Written(o) /\ tailStore' = e /\ sent' = sent + 1
      /\ UNCHANGED <<tail, head, headStore, got, clientVars>> /\ pc' # "loaded"
  BY <1>e DEF Store, Layout
<1>3. /\ o \in 0..(QueueSize - 1) /\ e \in 0..QueueSize /\ entry.size \in Nat
      /\ e = o + entry.size + 1
      /\ \/ o = eTail /\ (eTail < eHead => e < eHead)
         \/ o = 0 /\ eHead <= eTail /\ e < eHead /\ QueueSize < eTail + entry.size + 1
  BY <1>0, <1>e, FitsEnds, Numbers, SMTT(20) DEF Fits, AtTail, AtStart, EntryAt, EntrySize
<1>4. PICK pos2 \in [0..sent' -> Offsets] :
        (\A k \in 0..sent : pos2[k] = pos[k]) /\ pos2[sent + 1] = e
  <2> DEFINE f == [k \in 0..(sent + 1) |-> IF k = sent + 1 THEN e ELSE pos[k]]
  <2>1. f \in [0..sent' -> Offsets] /\ (\A k \in 0..sent : f[k] = pos[k]) /\ f[sent + 1] = e
    BY <1>1, <1>2, <1>3, SMTT(20)
  <2> QED BY <2>1
<1>5. /\ \A w \in 0..(QueueSize - 1) :
            w # eTail /\ ~(o <= w /\ w < e) => mem'[w] = mem[w]
      /\ mem'[o] = [id |-> sent + 1, size |-> entry.size]
      /\ eTail < QueueSize => mem'[eTail] = [id |-> sent + 1, size |-> entry.size]
      /\ \A w \in (o + 1)..(e - 1) : mem'[w].id = sent + 1
  <2>1. /\ DOMAIN mem = 0..(QueueSize - 1) /\ eTail \in Nat
        /\ o + entry.size = e - 1
    <3>1. DOMAIN mem = 0..(QueueSize - 1)
      BY <1>0 DEF TypeOK
    <3>2. o + entry.size = e - 1
      BY <1>3
    <3> QED BY <1>0, <3>1, <3>2, Numbers
  <2>2. mem' = [w \in 0..(QueueSize - 1) |->
                  IF w = o \/ w = eTail THEN [id |-> sent + 1, size |-> entry.size]
                  ELSE IF w \in (o + 1)..(e - 1) THEN [id |-> sent + 1, size |-> 0]
                  ELSE mem[w]]
    BY <1>2, <2>1 DEF Written, Header, Data
  <2>3. ASSUME NEW w \in 0..(QueueSize - 1), w # eTail, ~(o <= w /\ w < e)
        PROVE  mem'[w] = mem[w]
    BY <1>1, <1>3, <2>2, <2>3, SMTT(20)
  <2>4. ASSUME NEW w \in (o + 1)..(e - 1) PROVE mem'[w].id = sent + 1
    <3>1. w \in 0..(QueueSize - 1)
      BY <1>1, <1>3, <2>4
    <3> QED BY <2>2, <2>4, <3>1
  <2>5. eTail < QueueSize => mem'[eTail] = [id |-> sent + 1, size |-> entry.size]
    BY <1>1, <2>1, <2>2
  <2>6. mem'[o] = [id |-> sent + 1, size |-> entry.size]
    BY <1>3, <2>2
  <2> QED BY <2>3, <2>4, <2>5, <2>6
<1>6. Ascends(pos2, lo)'
  <2> SUFFICES ASSUME NEW j \in lo..(sent + 1), NEW k \in lo..(sent + 1), j < k
               PROVE  \/ pos2[lo] <= pos2[j] /\ pos2[j] < pos2[k]
                      \/ pos2[k] < pos2[lo] /\ pos2[lo] <= pos2[j]
                      \/ pos2[k] < pos2[lo] /\ pos2[j] < pos2[k]
    BY <1>2 DEF Ascends
  <2>1. j \in 0..sent /\ j \in lo..sent /\ sent \in 0..sent /\ sent \in lo..sent
    BY <1>1
  <2>2. CASE k \in lo..sent
    <3>1. k \in 0..sent
      BY <1>1, <2>2
    <3> QED BY <1>1, <1>4, <2>1, <2>2, <3>1 DEF Layout, Ascends
  <2>3. CASE k = sent + 1
    <3>1. pos2[lo] = eHead /\ pos2[j] = pos[j] /\ pos2[k] = e
      BY <1>1, <1>2, <1>4, <2>1, <2>3
    <3>2. \/ pos[j] = eTail
          \/ eHead <= pos[j] /\ pos[j] < eTail
          \/ eTail < eHead /\ eHead <= pos[j]
          \/ eTail < eHead /\ pos[j] < eTail
      <4>1. CASE j = sent
        BY <1>2, <4>1
      <4>2. CASE j < sent
        BY <1>2, <2>1, <4>2 DEF Layout, Ascends
      <4> QED BY <1>1, <2>1, <4>1, <4>2
    <3>3. pos[j] \in Nat /\ eHead \in Nat /\ eTail \in Nat
      BY <1>1, <1>2, <2>1
    <3> QED BY <1>1, <1>3, <3>1, <3>2, <3>3, SMTT(20)
  <2> QED BY <1>1, <2>2, <2>3
<1>7. ASSUME NEW k \in (lo + 1)..sent PROVE Whole(pos2, k)'
  <2>1. k \in 0..sent /\ k - 1 \in 0..sent
    BY <1>1
  <2>2. Whole(pos, k) /\ Ascends(pos, lo)
    BY DEF Layout
  <2>3. /\ Start(pos2, k) = Start(pos, k) /\ Size(pos2, k) = Size(pos, k)
        /\ pos2[k] = pos[k] /\ pos2[k - 1] = pos[k - 1]
    BY <1>4, <2>1 DEF Start, Size
  <2> DEFINE s == Start(pos, k)
             p == pos[k - 1]
             q == pos[k]
  <2>4. /\ s \in Nat /\ s <= q /\ q \in 0..QueueSize /\ p \in 0..QueueSize /\ p # q
        /\ eHead <= eTail => eHead <= p /\ p < q /\ q <= eTail
        /\ eTail < eHead => \/ q <= eTail
                            \/ eHead <= p /\ p < q
        /\ q < p => eHead <= p
        /\ s = IF p < q THEN p ELSE 0
    <3>2. /\ Start(pos, k) \in Nat /\ Start(pos, k) <= pos[k] /\ pos[k] \in 0..QueueSize
          /\ pos[k - 1] \in 0..QueueSize /\ pos[k] # pos[k - 1]
          /\ pos[lo] <= pos[sent] => pos[lo] <= pos[k - 1] /\ pos[k - 1] < pos[k] /\ pos[k] <= pos[sent]
          /\ pos[sent] < pos[lo] => \/ pos[k] <= pos[sent]
                                    \/ pos[lo] <= pos[k - 1] /\ pos[k - 1] < pos[k]
          /\ pos[k] < pos[k - 1] => pos[lo] <= pos[k - 1]
      BY <1>1, <2>2, EntryWords
    <3>3. s = IF p < q THEN p ELSE 0
      BY DEF Start
    <3>4. eHead = pos[lo] /\ eTail = pos[sent]
      BY <1>2
    <3> QED BY ONLY <3>2, <3>3, <3>4
  <2>5. q - s - 1 \in Nat /\ mem[s] = [id |-> k, size |-> q - s - 1]
        /\ (\A w \in (s + 1)..(q - 1) : mem[w].id = k)
        /\ (q < p => p = QueueSize \/ p + mem[p].size + 1 > QueueSize)
    BY <2>2 DEF Whole, Size
  <2>6. eHead \in Nat /\ eTail \in Nat /\ eTail <= QueueSize
    BY <1>1, <1>2
  <2> HIDE DEF s, p, q
  <2>7. ASSUME NEW w \in s..(q - 1) PROVE w \in 0..(QueueSize - 1) /\ mem'[w] = mem[w]
    <3>1. w \in 0..(QueueSize - 1)
      BY <1>1, <2>4, <2>7
    <3>2. w # eTail /\ ~(o <= w /\ w < e)
      BY <1>1, <1>3, <2>4, <2>6, <2>7, <3>1
    <3> QED BY <1>5, <3>1, <3>2
  <2>8. q < p /\ p < QueueSize => mem'[p] = mem[p]
    <3> SUFFICES ASSUME q < p, p < QueueSize PROVE mem'[p] = mem[p]
      OBVIOUS
    <3>1. p \in 0..(QueueSize - 1)
      BY <1>1, <2>4
    <3>2. p # eTail /\ ~(o <= p /\ p < e)
      BY <1>1, <1>3, <2>4, <2>6, <3>1, SMTT(20)
    <3> QED BY <1>5, <3>1, <3>2
  <2>9. /\ mem'[s] = [id |-> k, size |-> q - s - 1]
        /\ \A w \in (s + 1)..(q - 1) : mem'[w].id = k
        /\ q < p => p = QueueSize \/ p + mem'[p].size + 1 > QueueSize
    <3>1. s \in s..(q - 1)
      BY <2>4, <2>5
    <3>2. mem'[s] = [id |-> k, size |-> q - s - 1]
      BY <2>5, <2>7, <3>1
    <3>3. \A w \in (s + 1)..(q - 1) : mem'[w] = mem[w]
      BY <2>4, <2>7
    <3>4. q < p => p = QueueSize \/ p + mem'[p].size + 1 > QueueSize
      BY <2>4, <2>5, <2>8, <1>1
    <3> QED BY <2>5, <3>2, <3>3, <3>4
  <2> QED BY <2>3, <2>5, <2>9 DEF Whole, Size, s, p, q
<1>8. PICK n \in Nat : n = sent + 1 /\ Whole(pos2, n)'
  <2>1. PICK n \in Nat : n = sent + 1
    BY <1>1
  <2>2. pos2[n] = e /\ pos2[n - 1] = eTail /\ eTail \in Nat /\ eTail <= QueueSize /\ eHead \in Nat
    <3>1. n - 1 = sent /\ sent \in 0..sent
      BY <1>1, <2>1
    <3> QED BY <1>1, <1>2, <1>4, <2>1, <3>1
  <2>3. Start(pos2, n) = o
    <3>1. eTail < e => o = eTail
      BY <1>1, <1>3, <2>2, SMTT(20)
    <3>2. ~(eTail < e) => o = 0
      BY <1>1, <1>3, <2>2, SMTT(20)
    <3> QED BY <2>2, <3>1, <3>2 DEF Start
  <2>4. Size(pos2, n) = entry.size
    BY <1>3, <2>2, <2>3, SMTT(20) DEF Size
  <2>5. e < eTail => eTail = QueueSize \/ eTail + mem'[eTail].size + 1 > QueueSize
    <3> SUFFICES ASSUME e < eTail, eTail < QueueSize
                 PROVE  eTail + mem'[eTail].size + 1 > QueueSize
      BY <1>1, <2>2
    <3>1. mem'[eTail].size = entry.size
      BY <1>5
    <3>2. QueueSize < eTail + entry.size + 1
      BY <1>1, <1>3, <2>2, SMTT(20)
    <3> QED BY <1>1, <1>3, <2>2, <3>1, <3>2
  <2>6. /\ mem'[o] = [id |-> n, size |-> entry.size]
        /\ \A w \in (o + 1)..(e - 1) : mem'[w].id = n
    BY <1>5, <2>1
  <2>7. Whole(pos2, n)'
    BY <1>3, <2>2, <2>3, <2>4, <2>5, <2>6 DEF Whole
  <2> QED BY <2>1, <2>7
<1>9. Layout(pos2, lo)'
  <2>1. TailSeen' = sent /\ HeadSeen' = HeadSeen /\ OwnTail' = e /\ OwnHead' = OwnHead
    BY <1>1, <1>2, <1>3 DEF TailSeen, HeadSeen, OwnTail, OwnHead
  <2>2. /\ tail' = pos2[TailSeen'] /\ OwnTail' = pos2[sent']
        /\ head' = pos2[HeadSeen'] /\ OwnHead' = pos2[got']
    <3>1. tail = pos[sent] /\ head = pos[HeadSeen] /\ OwnHead = pos[got] /\ got \in 0..sent
      BY <1>1, <1>2 DEF Layout, TailSeen
    <3> QED BY <1>1, <1>2, <1>4, <2>1, <3>1
  <2>3. \A k \in (lo + 1)..sent' : Whole(pos2, k)'
    <3>1. ASSUME NEW k \in (lo + 1)..sent' PROVE k \in (lo + 1)..sent \/ k = n
      BY <1>1, <1>2, <1>8
    <3> QED BY <1>7, <1>8, <3>1
  <2>4. /\ cpc' \in {"loaded", "copied"} => cHead' = pos2[got'] /\ got' < TailSeen'
        /\ cpc' = "copied" => read' = {got' + 1} /\ newHead' = pos2[got' + 1]
    <3>1. TailSeen = sent
      BY <1>2 DEF TailSeen
    <3>2. cpc \in {"loaded", "copied"} => got \in 0..sent /\ got + 1 \in 0..sent
      BY <1>1, <3>1 DEF Layout
    <3> QED BY <1>2, <1>4, <2>1, <3>1, <3>2 DEF Layout, clientVars
  <2>5. lo \in 0..HeadSeen'
    BY <1>1, <2>1
  <2> QED BY <1>2, <1>4, <1>6, <2>2, <2>3, <2>4, <2>5 DEF Layout
<1>10. got' <= TailSeen' /\ 0 <= HeadSeen' /\ lo \in 0..got'
  BY <1>1, <1>2, <1>3 DEF TailSeen, HeadSeen
<1> QED BY <1>0, <1>4, <1>9, <1>10 DEF RingInv

LEMMA RingInit == Init => RingInv
<1> SUFFICES ASSUME Init PROVE RingInv
  OBVIOUS
<1>1. TypeOK /\ QueueSize \in Nat
  BY TypeInit, QueueAssumption
<1>2. /\ tail = 0 /\ head = 0 /\ tailStore = None /\ headStore = None
      /\ sent = 0 /\ got = 0 /\ pc = "idle" /\ cpc = "asleep"
  BY DEF Init
<1>3. TailSeen = 0 /\ HeadSeen = 0 /\ OwnTail = 0 /\ OwnHead = 0
  BY <1>2 DEF TailSeen, HeadSeen, OwnTail, OwnHead
<1> DEFINE pos == [k \in 0..0 |-> 0]
<1>4. pos \in [0..sent -> Offsets] /\ pos[0] = 0
  BY <1>1, <1>2
<1> HIDE DEF pos
<1>5. Ascends(pos, 0) /\ \A k \in (0 + 1)..sent : Whole(pos, k)
  BY <1>2 DEF Ascends
<1>6. Layout(pos, 0)
  BY <1>2, <1>3, <1>4, <1>5 DEF Layout
<1>7. 0 \in 0..got
  BY <1>2
<1> QED BY <1>1, <1>2, <1>3, <1>4, <1>6, <1>7 DEF RingInv

LEMMA RingStep == RingInv /\ [Next]_vars => RingInv'
<1> SUFFICES ASSUME RingInv, [Next]_vars PROVE RingInv'
  OBVIOUS
<1>0. TypeOK /\ TypeOK'
  BY TypeStep DEF RingInv
<1>1. PICK pos \in [0..sent -> Offsets], lo \in 0..got : Layout(pos, lo)
  BY DEF RingInv
<1>2. /\ QueueSize \in Nat /\ sent \in Nat /\ got \in Nat /\ lo \in Nat
      /\ lo <= HeadSeen /\ HeadSeen <= got /\ got <= TailSeen /\ TailSeen <= sent
      /\ HeadSeen \in 0..sent /\ TailSeen \in 0..sent /\ lo \in 0..sent
      /\ \A k \in 0..sent : pos[k] \in Nat /\ pos[k] <= QueueSize
  BY <1>1, LayoutTypes
(* The steps that leave the ring alone: the layout is the same, with a     *)
(* later head if the enqueuer begins.                                      *)
<1>3. ASSUME UNCHANGED <<mem, sent>>, NEW l \in lo..HeadSeen',
             got' <= TailSeen', HeadSeen' \in 0..got', got' \in Nat,
             /\ tail' = pos[TailSeen'] /\ OwnTail' = pos[sent]
             /\ head' = pos[HeadSeen'] /\ OwnHead' = pos[got']
             /\ pc' = "loaded" => eTail' = pos[sent] /\ eHead' = pos[l]
             /\ cpc' \in {"loaded", "copied"} => cHead' = pos[got'] /\ got' < TailSeen'
             /\ cpc' = "copied" => read' = {got' + 1} /\ newHead' = pos[got' + 1]
      PROVE  RingInv'
  <2>1. /\ Ascends(pos, lo)' /\ \A k \in (lo + 1)..sent : Whole(pos, k)'
        /\ pos \in [0..sent' -> Offsets]
    BY <1>1, <1>3, SameRing
  <2>2. TailSeen' <= sent /\ TailSeen' \in Int
    BY <1>2, <1>3 DEF TailSeen
  <2>3. l \in lo..sent /\ l \in 0..got' /\ l \in 0..HeadSeen'
    BY <1>2, <1>3, <2>2
  <2>4. Ascends(pos, l)
    BY <1>1, <1>2, <2>3, AscendsLater DEF Layout
  <2>5. Ascends(pos, l)'
    BY <1>3, <2>4 DEF Ascends
  <2>6. \A k \in (l + 1)..sent' : Whole(pos, k)'
    <3>1. \A k \in (l + 1)..sent' : k \in (lo + 1)..sent
      BY <1>2, <1>3, <2>3
    <3> QED BY <2>1, <3>1
  <2>7. Layout(pos, l)'
    BY <1>3, <2>1, <2>3, <2>5, <2>6 DEF Layout
  <2> QED BY <1>0, <1>3, <2>1, <2>3, <2>7 DEF RingInv
<1>4. /\ tail = pos[TailSeen] /\ OwnTail = pos[sent]
      /\ head = pos[HeadSeen] /\ OwnHead = pos[got]
      /\ pc = "loaded" => eTail = pos[sent] /\ eHead = pos[lo]
      /\ cpc \in {"loaded", "copied"} => cHead = pos[got] /\ got < TailSeen
      /\ cpc = "copied" => read = {got + 1} /\ newHead = pos[got + 1]
  BY <1>1 DEF Layout
<1>5. lo \in lo..HeadSeen /\ HeadSeen \in lo..HeadSeen /\ HeadSeen \in 0..got
  BY <1>2
<1>6. ASSUME UNCHANGED <<mem, sent, got, tail, head, tailStore, headStore>>
      PROVE  /\ TailSeen' = TailSeen /\ HeadSeen' = HeadSeen
             /\ OwnTail' = OwnTail /\ OwnHead' = OwnHead
  BY <1>6 DEF TailSeen, HeadSeen, OwnTail, OwnHead
<1>7. ASSUME NEW size \in Sizes, NEW option \in kind.options \cup {"none"}, Load(size, option)
      PROVE  RingInv'
  <2>1. /\ UNCHANGED <<mem, sent, got, tail, head, tailStore, headStore>>
        /\ UNCHANGED clientVars /\ eTail' = OwnTail /\ eHead' = head
    BY <1>7 DEF Load
  <2> QED BY <1>2, <1>3, <1>4, <1>5, <1>6, <2>1 DEF clientVars
<1>8. ASSUME \/ Check \/ Notify \/ SetNotificationPort \/ Receive
             \/ (Store /\ ~Fits) \/ UNCHANGED vars
      PROVE  RingInv'
  <2>1. /\ UNCHANGED <<mem, sent, got, tail, head, tailStore, headStore>>
        /\ pc' = "loaded" => pc = "loaded" /\ UNCHANGED <<eTail, eHead>>
        /\ cpc' \in {"loaded", "copied"} => cpc' = cpc
        /\ UNCHANGED <<cHead, read, newHead>>
    BY <1>8 DEF Check, Notify, SetNotificationPort, Receive, Store, vars, enqVars, clientVars
  <2> QED BY <1>2, <1>3, <1>4, <1>5, <1>6, <2>1
<1>9. CASE Store /\ Fits
  BY <1>1, <1>9, StoreStep
<1>10. CASE TailVisible
  <2>1. /\ UNCHANGED <<mem, sent, got, head, headStore>> /\ UNCHANGED <<enqVars, clientVars>>
        /\ tailStore # None /\ tail' = tailStore /\ tailStore' = None
    BY <1>10 DEF TailVisible
  <2>2. TailSeen' = sent /\ HeadSeen' = HeadSeen /\ OwnTail' = OwnTail /\ OwnHead' = OwnHead
        /\ tail' = pos[sent]
    BY <1>4, <2>1 DEF TailSeen, HeadSeen, OwnTail, OwnHead
  <2>3. UNCHANGED <<pc, eTail, eHead, cpc, cHead, read, newHead>>
    BY <2>1 DEF enqVars, clientVars
  <2> QED BY <1>2, <1>3, <1>4, <1>5, <2>1, <2>2, <2>3
<1>11. CASE HeadVisible
  <2>1. /\ UNCHANGED <<mem, sent, got, tail, tailStore>> /\ UNCHANGED <<enqVars, clientVars>>
        /\ headStore # None /\ head' = headStore /\ headStore' = None
    BY <1>11 DEF HeadVisible
  <2>2. TailSeen' = TailSeen /\ HeadSeen' = got /\ OwnTail' = OwnTail /\ OwnHead' = OwnHead
        /\ head' = pos[got]
    BY <1>4, <2>1 DEF TailSeen, HeadSeen, OwnTail, OwnHead
  <2>3. UNCHANGED <<pc, eTail, eHead, cpc, cHead, read, newHead>>
    BY <2>1 DEF enqVars, clientVars
  <2>4. lo \in lo..HeadSeen' /\ HeadSeen' \in 0..got'
    BY <1>2, <2>1, <2>2
  <2> QED BY <1>2, <1>3, <1>4, <2>1, <2>2, <2>3, <2>4
<1>12. CASE Dequeue
  <2>1. /\ UNCHANGED <<mem, sent, got, tail, head, tailStore, headStore>> /\ UNCHANGED enqVars
        /\ cHead' = OwnHead /\ cTail' = tail
        /\ cpc' = IF cHead' = cTail' THEN "asleep" ELSE "loaded"
    BY <1>12 DEF Dequeue
  <2>2. cpc' \in {"loaded", "copied"} => got < TailSeen
    BY <1>2, <1>4, <2>1
  <2>3. UNCHANGED <<pc, eTail, eHead>> /\ cpc' # "copied"
    BY <2>1 DEF enqVars
  <2> QED BY <1>2, <1>3, <1>4, <1>5, <1>6, <2>1, <2>2, <2>3
<1>13. CASE Copy
  <2>1. /\ UNCHANGED <<mem, sent, got, tail, head, tailStore, headStore, cHead>>
        /\ UNCHANGED enqVars /\ cpc = "loaded"
        /\ read' = {mem[w].id : w \in {x \in DOMAIN mem : EntryOffset <= x
                                          /\ x <= EntryOffset + mem[EntryOffset].size}}
        /\ newHead' = EntryOffset + mem[EntryOffset].size + HeaderSize
    BY <1>13 DEF Copy
  <2>2. PICK k \in (lo + 1)..sent : k = got + 1 /\ k - 1 = got
    BY <1>2, <1>4, <2>1
  <2>3. Ascends(pos, lo) /\ Whole(pos, k) /\ cHead = pos[k - 1]
    BY <1>1, <1>4, <2>1, <2>2 DEF Layout
  <2>4. EntryOffset = Start(pos, k) /\ mem[EntryOffset].size = Size(pos, k)
    BY <1>0, <1>2, <2>3, FoundAt
  <2>5. Start(pos, k) \in Nat /\ pos[k] \in 0..QueueSize
    BY <1>2, <2>3, EntryWords
  <2>6. newHead' = pos[k]
    BY <2>1, <2>4, <2>5 DEF Size
  <2>7. read' = {k}
    <3> DEFINE s == Start(pos, k)
               n == Size(pos, k)
    <3>1. /\ n \in Nat /\ mem[s] = [id |-> k, size |-> n] /\ s + n = pos[k] - 1
          /\ \A w \in (s + 1)..(pos[k] - 1) : mem[w].id = k
      BY <2>3, <2>5 DEF Whole, Size
    <3>2. DOMAIN mem = 0..(QueueSize - 1)
      BY <1>0 DEF TypeOK
    <3>3. read' = {mem[w].id : w \in {x \in DOMAIN mem : s <= x /\ x <= s + n}}
      BY <2>1, <2>4
    <3> HIDE DEF s, n
    <3>4. \A x \in DOMAIN mem : s <= x /\ x <= s + n => mem[x].id = k
      <4> SUFFICES ASSUME NEW x \in DOMAIN mem, s <= x, x <= s + n PROVE mem[x].id = k
        OBVIOUS
      <4>1. CASE x = s
        BY <3>1, <4>1
      <4>2. CASE x # s
        <5>1. x \in (s + 1)..(pos[k] - 1)
          BY <1>2, <2>5, <3>1, <3>2, <4>2 DEF s
        <5> QED BY <3>1, <5>1
      <4> QED BY <4>1, <4>2
    <3>5. s \in DOMAIN mem /\ s <= s /\ s <= s + n
      BY <1>2, <2>5, <3>1, <3>2 DEF s
    <3> QED BY <3>3, <3>4, <3>5
  <2>8. UNCHANGED <<pc, eTail, eHead>>
    BY <2>1 DEF enqVars
  <2> QED BY <1>2, <1>3, <1>4, <1>5, <1>6, <2>1, <2>2, <2>6, <2>7, <2>8
<1>14. CASE Release
  <2>1. /\ UNCHANGED <<mem, sent, tail, tailStore>> /\ UNCHANGED enqVars
        /\ cpc = "copied" /\ cpc' = "dequeue" /\ headStore = None /\ got' = got + 1
        /\ \/ headStore' = None /\ head' = newHead
           \/ headStore' = newHead /\ head' = head
    BY <1>14 DEF Release, StoreHead
  <2>2. /\ newHead = pos[got + 1] /\ got + 1 \in 0..sent /\ newHead \in Nat
        /\ HeadSeen = got /\ got < TailSeen /\ head = pos[got]
    BY <1>2, <1>4, <2>1 DEF HeadSeen
  <2>3. /\ TailSeen' = TailSeen /\ OwnTail' = OwnTail /\ OwnHead' = newHead
        /\ \/ HeadSeen' = got' /\ head' = newHead
           \/ HeadSeen' = got /\ head' = head
    BY <1>2, <2>1, <2>2 DEF TailSeen, HeadSeen, OwnTail, OwnHead
  <2>4. got' <= TailSeen' /\ HeadSeen' \in 0..got' /\ lo \in lo..HeadSeen' /\ got' \in Nat
    BY <1>2, <2>1, <2>2, <2>3
  <2>5. UNCHANGED <<pc, eTail, eHead>>
    BY <2>1 DEF enqVars
  <2> QED BY <1>3, <1>4, <2>1, <2>2, <2>3, <2>4, <2>5
<1> QED BY <1>7, <1>8, <1>9, <1>10, <1>11, <1>12, <1>13, <1>14 DEF Next, Enqueue, Client

(* The client reads the entries whole and in order, for every size of the  *)
(* ring, every set of entry sizes and any number of entries, with one      *)
(* store of each side on its way.                                          *)
THEOREM ReadInOrder == Spec => []InOrder
<1>1. RingInv => InOrder
  <2> SUFFICES ASSUME RingInv, cpc = "copied" PROVE read = {got + 1} /\ got < sent
    BY DEF InOrder
  <2>1. PICK pos \in [0..sent -> Offsets], lo \in 0..got : Layout(pos, lo)
    BY DEF RingInv
  <2>2. got \in Nat /\ TailSeen <= sent /\ TailSeen \in 0..sent /\ sent \in Nat
    BY <2>1, LayoutTypes
  <2>3. got < TailSeen /\ read = {got + 1}
    BY <2>1 DEF Layout
  <2> QED BY <2>2, <2>3
<1> QED BY <1>1, RingInit, RingStep, PTL DEF Spec
================================================================================
