---------------------- MODULE HIDDeviceClients_proofs -------------------------
(***************************************************************************)
(* What holds of HIDDeviceClients for any clients, reports and sizes of    *)
(* queues: no wake-up is lost, seizing shuts the right queues, but for     *)
(* clients that a message has misled, and reports keep their order on the  *)
(* way through the queues, unless an element is overwritten under a thread *)
(* that sleeps or a thread's walk along the queues skips one.              *)
(***************************************************************************)
EXTENDS HIDDeviceClients, SequenceTheorems, TLAPS

------------------------------------------------------------------------------
(* Who holds the gate, and who is in which list.                           *)

(* A thread that is in a list, asleep in commandSleep or woken from it.    *)
Blocked(r) == pc[r] \in {"asleep", "woken"}

(* The thread that runs has the gate, and its element holds a report.      *)
GateInv ==
  \A r \in Reports :
    /\ pc[r] = "run" <=> gate = r
    /\ pc[r] # "new" => elementValue[Cookie[r]] \in Reports

(* A blocked report is in one list, once, and only the first is woken.     *)
ListInv ==
  /\ \A c, d \in Clients :
       \A i \in DOMAIN fBlockedReports[c], j \in DOMAIN fBlockedReports[d] :
         fBlockedReports[c][i] = fBlockedReports[d][j] => c = d /\ i = j
  /\ \A c \in Clients : \A i \in DOMAIN fBlockedReports[c] :
       pc[fBlockedReports[c][i]] \in IF i = 1 THEN {"asleep", "woken"} ELSE {"asleep"}
  /\ \A r \in Reports : Blocked(r) => \E c \in Clients : r \in ToSet(fBlockedReports[c])

(* Only an open client has reports that wait, or one that sleeps in close. *)
CloserInv ==
  \A c \in Clients :
    /\ closer[c] # "no" => ~opened[c]
    /\ fBlockedReports[c] # <<>> => opened[c] \/ closer[c] = "asleep"

BaseInv == TypeOK /\ GateInv /\ ListInv

WakeInv == CloserInv /\ WaitersAreWoken

------------------------------------------------------------------------------
(* Seizing.                                                                *)

(* Only an open client's queue is enabled, and that of one that is not     *)
(* seized always is.                                                       *)
EnabledInv ==
  \A c \in Clients : /\ valid[c] => opened[c]
                     /\ opened[c] /\ ~seized[c] => valid[c]

(* Who has seized the device is open and has not been misled.              *)
SeizeInv ==
  /\ seizedClient # Nobody => opened[seizedClient] /\ seizedClient \notin misled
  /\ SeizeAgrees

Opens(c) == \E o \in Options[c] : Open(c, o)

------------------------------------------------------------------------------
(* Delivery.                                                               *)

(* No report is read into the element of one that sleeps.                  *)
ElementsKept ==
  \A r, s \in Reports : HandleReport(r) /\ Blocked(s) => Cookie[s] # Cookie[r]

(* No queue goes from before a thread that has queues to come.             *)
NoneSkipped ==
  \A c \in Clients : \A i, j \in DOMAIN queueArray :
    DisposeQueue(c) /\ queueArray[i] = c /\ i < j /\ j < Len(queueArray)
      => fBlockedReports[queueArray[j]] = <<>>

WaitsAt(r, k) == k \in DOMAIN queueArray /\ r \in ToSet(fBlockedReports[queueArray[k]])
Got(c) == received[c] \o ring[c]

(* Reports begin in their order, and an element keeps its report until the *)
(* report is done.                                                         *)
BeginInv ==
  \A r \in Reports :
    /\ pc[r] # "new" => index[r] >= 1 /\ \A s \in 1..r : pc[s] # "new"
    /\ pc[r] \in {"run", "asleep", "woken"} => elementValue[Cookie[r]] = r

(* A blocked thread is at the queue in whose list it is; at the last one   *)
(* its index may be past the end.                                          *)
PlaceInv ==
  /\ IsInjective(queueArray)
  /\ \A c \in Clients : \A r \in ToSet(fBlockedReports[c]) :
       \E k \in DOMAIN queueArray :
         /\ queueArray[k] = c
         /\ index[r] = k \/ (k = Len(queueArray) /\ index[r] > k)

(* Those that wait for a client that lets nobody wait are late, and a list *)
(* is in order but for the late.                                           *)
LateInv ==
  \A c \in Clients :
    /\ \A r \in ToSet(fBlockedReports[c]) : r \in late \/ Waits(c)
    /\ \A i, j \in DOMAIN fBlockedReports[c] :
         i < j => fBlockedReports[c][i] < fBlockedReports[c][j] \/ fBlockedReports[c][j] \in late

(* Report s, though it may wait or run, is not behind the later report r.  *)
NotBehind(s, r) ==
  /\ pc[r] = "done" => pc[s] = "done"
  /\ \A i, j \in DOMAIN queueArray : WaitsAt(s, i) /\ WaitsAt(r, j) => j <= i
  /\ \A i \in DOMAIN queueArray : pc[r] = "run" /\ WaitsAt(s, i) => index[r] <= i
  /\ \A j \in DOMAIN queueArray : pc[s] = "run" /\ WaitsAt(r, j) => j < index[s]

(* Only late reports fall behind.                                          *)
OrderInv ==
  \A r, s \in Reports : s < r /\ s \notin late /\ pc[r] # "new" => NotBehind(s, r)

(* Report r is past the queue at place k, or has not yet been put into it. *)
Past(r, k) == \/ pc[r] = "done"
              \/ pc[r] = "run" /\ index[r] > k
              \/ \E j \in DOMAIN queueArray : j > k /\ WaitsAt(r, j)
NotYet(r, k) == \/ pc[r] = "run" /\ index[r] <= k
                \/ \E j \in DOMAIN queueArray : j <= k /\ WaitsAt(r, j)

GotInv ==
  \A k \in DOMAIN queueArray : \A r \in ToSet(Got(queueArray[k])) : Past(r, k)

(* What a client must get it has got, or will.                             *)
OwedInv ==
  \A c \in Clients : owed[c] # {} =>
    /\ Waits(c)
    /\ \E k \in DOMAIN queueArray :
         /\ queueArray[k] = c
         /\ \A r \in owed[c] : r \in ToSet(Got(c)) \/ NotYet(r, k)

Ordered ==
  \A c \in Clients : \A i, j \in DOMAIN Got(c) :
    i < j => Got(c)[i] < Got(c)[j] \/ Got(c)[j] \in late \ {Got(c)[i]}

(* What Cookie and the order of the queues do not give by themselves.      *)
Undisturbed == ElementsKept /\ NoneSkipped

DeliverInv == /\ BeginInv /\ PlaceInv /\ LateInv /\ OrderInv
              /\ GotInv /\ OwedInv /\ Ordered
------------------------------------------------------------------------------
(* Lemmas about sequences.                                                 *)

\* What a sequence is with one more element.
LEMMA AppendFacts ==
    ASSUME NEW S, NEW q \in Seq(S), NEW e \in S
    PROVE  /\ Append(q, e) \in Seq(S) /\ Append(q, e) # <<>>
           /\ Len(Append(q, e)) = Len(q) + 1
           /\ \A i \in DOMAIN q : Append(q, e)[i] = q[i]
           /\ Append(q, e)[Len(q) + 1] = e
           /\ DOMAIN Append(q, e) = DOMAIN q \cup {Len(q) + 1}
           /\ Len(q) + 1 \notin DOMAIN q
           /\ ToSet(Append(q, e)) = ToSet(q) \cup {e}
  <1>1. /\ Append(q, e) \in Seq(S) /\ Append(q, e) # <<>>
        /\ Len(Append(q, e)) = Len(q) + 1
        /\ \A i \in DOMAIN q : Append(q, e)[i] = q[i]
        /\ Append(q, e)[Len(q) + 1] = e
        /\ DOMAIN Append(q, e) = DOMAIN q \cup {Len(q) + 1}
        /\ Len(q) + 1 \notin DOMAIN q
    OBVIOUS
  <1>2. ToSet(Append(q, e)) = ToSet(q) \cup {e}
    BY <1>1, Zenon DEF ToSet
  <1>3. QED
    BY <1>1, <1>2

\* What a sequence that is not empty is without its head.
LEMMA TailFacts ==
    ASSUME NEW S, NEW q \in Seq(S), q # <<>>
    PROVE  /\ Tail(q) \in Seq(S) /\ Head(q) \in S /\ Head(q) = q[1] /\ 1 \in DOMAIN q
           /\ Len(q) \in Nat /\ Len(Tail(q)) = Len(q) - 1
           /\ \A i \in DOMAIN Tail(q) : i + 1 \in DOMAIN q /\ Tail(q)[i] = q[i + 1]
           /\ \A i \in DOMAIN q : i # 1 => i - 1 \in DOMAIN Tail(q) /\ q[i] = Tail(q)[i - 1]
           /\ DOMAIN q \subseteq Nat \ {0} /\ DOMAIN Tail(q) \subseteq Nat \ {0}
  OBVIOUS

\* What is left without the head, where nothing is in the sequence twice.
LEMMA TailSet ==
    ASSUME NEW S, NEW q \in Seq(S), q # <<>>, IsInjective(q)
    PROVE  ToSet(Tail(q)) = ToSet(q) \ {Head(q)}
  <1>1. ASSUME NEW e \in ToSet(Tail(q))
        PROVE  e \in ToSet(q) /\ e # Head(q)
    <2>1. PICK i \in DOMAIN Tail(q) : e = Tail(q)[i]
      BY <1>1 DEF ToSet
    <2>2. e = q[i + 1] /\ i + 1 \in DOMAIN q /\ i + 1 # 1 /\ 1 \in DOMAIN q /\ Head(q) = q[1]
      BY <2>1, TailFacts
    <2>3. QED
      BY <2>2 DEF ToSet, IsInjective
  <1>2. ASSUME NEW e \in ToSet(q), e # Head(q)
        PROVE  e \in ToSet(Tail(q))
    <2>1. PICK i \in DOMAIN q : e = q[i]
      BY <1>2 DEF ToSet
    <2>2. i - 1 \in DOMAIN Tail(q) /\ e = Tail(q)[i - 1]
      BY <2>1, <1>2, TailFacts
    <2>3. QED
      BY <2>2 DEF ToSet
  <1>3. QED
    BY <1>1, <1>2

\* Without the element at i, what came after it has moved up by one.
LEMMA RemoveAtFacts ==
    ASSUME NEW S, NEW q \in Seq(S), NEW i \in DOMAIN q
    PROVE  /\ RemoveAt(q, i) \in Seq(S)
           /\ Len(q) \in Nat /\ Len(RemoveAt(q, i)) = Len(q) - 1
           /\ DOMAIN q = 1..Len(q) /\ DOMAIN RemoveAt(q, i) = 1..(Len(q) - 1)
           /\ \A k \in DOMAIN RemoveAt(q, i) :
                RemoveAt(q, i)[k] = q[IF k < i THEN k ELSE k + 1]
  <1> DEFINE p == SubSeq(q, 1, i - 1)
             t == SubSeq(q, i + 1, Len(q))
  <1>1. Len(q) \in Nat /\ DOMAIN q = 1..Len(q) /\ i \in 1..Len(q)
    OBVIOUS
  <1>2. /\ p \in Seq(S) /\ Len(p) = i - 1
        /\ \A k \in 1..(i - 1) : p[k] = q[k]
    BY <1>1
  <1>3. /\ t \in Seq(S) /\ Len(t) = Len(q) - i
        /\ \A k \in 1..(Len(q) - i) : t[k] = q[k + i]
    BY <1>1
  <1>4. RemoveAt(q, i) = p \o t
    BY DEF RemoveAt
  <1> HIDE DEF p, t
  <1>5. /\ p \o t \in Seq(S) /\ Len(p \o t) = Len(p) + Len(t)
        /\ \A k \in 1..(Len(p) + Len(t)) :
             (p \o t)[k] = IF k <= Len(p) THEN p[k] ELSE t[k - Len(p)]
    BY <1>2, <1>3, ConcatProperties
  <1> DEFINE r == p \o t
  <1>6. /\ r \in Seq(S) /\ Len(r) = Len(q) - 1
        /\ \A k \in 1..(Len(q) - 1) :
             r[k] = IF k < i THEN p[k] ELSE t[k - (i - 1)]
    BY <1>1, <1>2, <1>3, <1>5
  <1> HIDE DEF r
  <1>7. ASSUME NEW k \in 1..(Len(q) - 1)
        PROVE  r[k] = q[IF k < i THEN k ELSE k + 1]
    <2>1. CASE k < i
      <3>1. r[k] = p[k] /\ k \in 1..(i - 1)
        BY <1>1, <1>6, <2>1
      <3>2. QED
        BY <1>2, <2>1, <3>1
    <2>2. CASE ~(k < i)
      <3>1. k - (i - 1) \in 1..(Len(q) - i) /\ k - (i - 1) + i = k + 1
        BY <1>1, <2>2
      <3>2. r[k] = t[k - (i - 1)]
        BY <1>1, <1>6, <2>2
      <3>3. QED
        BY <1>3, <2>2, <3>1, <3>2
    <2>3. QED
      BY <2>1, <2>2
  <1>8. DOMAIN r = 1..(Len(q) - 1)
    BY <1>1, <1>6
  <1>9. QED
    BY <1>1, <1>4, <1>6, <1>7, <1>8 DEF r

\* The process reads what comes next.
LEMMA ReadFacts ==
    ASSUME NEW S, NEW p \in Seq(S), NEW q \in Seq(S), q # <<>>
    PROVE  Append(p, Head(q)) \o Tail(q) = p \o q
  OBVIOUS

\* What is stored comes last of all that the client gets.
LEMMA StoreFacts ==
    ASSUME NEW S, NEW p \in Seq(S), NEW q \in Seq(S), NEW e \in S
    PROVE  p \o Append(q, e) = Append(p \o q, e) /\ p \o q \in Seq(S)
  OBVIOUS

------------------------------------------------------------------------------
(* Types and lists.                                                        *)

PCs == {"new", "run", "asleep", "woken", "done"}

\* Waking the first of a list wakes no other, and one that sleeps already.
LEMMA WokenFacts ==
    ASSUME pc \in [Reports -> PCs], NEW q \in Seq(Reports)
    PROVE  /\ Woken(q) \in [Reports -> PCs]
           /\ \A r \in Reports :
                Woken(q)[r] # pc[r] =>
                  /\ pc[r] = "asleep" /\ Woken(q)[r] = "woken"
                  /\ q # <<>> /\ r = Head(q)
           /\ q # <<>> /\ Blocked(Head(q)) => Woken(q)[Head(q)] = "woken"
  BY TailFacts DEF Woken, Blocked, PCs

\* The lists stay as they should be where nobody enters or leaves one, and
\* only the first of one is woken.
LEMMA ListKept ==
    ASSUME TypeOK, ListInv, UNCHANGED fBlockedReports,
           \A r \in Reports : Blocked(r)' <=> Blocked(r),
           \A r \in Reports : pc'[r] = "woken" /\ pc[r] # "woken" =>
             \E c \in Clients : fBlockedReports[c] # <<>> /\ r = Head(fBlockedReports[c])
    PROVE  ListInv'
  <1>1. ASSUME NEW c \in Clients, NEW i \in DOMAIN fBlockedReports[c]
        PROVE  pc'[fBlockedReports[c][i]] \in IF i = 1 THEN {"asleep", "woken"} ELSE {"asleep"}
    <2> DEFINE r == fBlockedReports[c][i]
    <2>1. r \in Reports /\ pc[r] \in IF i = 1 THEN {"asleep", "woken"} ELSE {"asleep"}
      BY DEF TypeOK, ListInv
    <2>2. pc'[r] \in {"asleep", "woken"}
      BY <2>1 DEF Blocked
    <2>3. ASSUME pc'[r] = "woken", pc[r] # "woken"
          PROVE  i = 1
      <3>1. PICK d \in Clients : fBlockedReports[d] # <<>> /\ r = Head(fBlockedReports[d])
        BY <2>1, <2>3
      <3>2. fBlockedReports[d] \in Seq(Reports)
        BY DEF TypeOK
      <3>3. 1 \in DOMAIN fBlockedReports[d] /\ r = fBlockedReports[d][1]
        BY <3>1, <3>2, TailFacts
      <3>4. QED
        BY <3>3 DEF ListInv
    <2>4. QED
      BY <2>1, <2>2, <2>3
  <1>2. \A r \in Reports : Blocked(r)' => \E c \in Clients : r \in ToSet(fBlockedReports'[c])
    BY DEF ListInv
  <1>3. QED
    BY <1>1, <1>2 DEF ListInv

\* One more in a list, who was in none.
LEMMA ListGrows ==
    ASSUME TypeOK, ListInv, NEW r \in Reports, NEW c \in Clients, ~Blocked(r),
           fBlockedReports' = [fBlockedReports EXCEPT ![c] = Append(@, r)],
           pc' = [pc EXCEPT ![r] = "asleep"]
    PROVE  ListInv'
  <1> DEFINE f == fBlockedReports
             g == fBlockedReports'
             n == Len(f[c]) + 1
  <1>1. /\ f \in [Clients -> Seq(Reports)]
        /\ \A d \in Clients : \A i \in DOMAIN f[d] : f[d][i] \in Reports /\ Blocked(f[d][i])
        /\ pc \in [Reports -> PCs]
    <2>1. f \in [Clients -> Seq(Reports)] /\ pc \in [Reports -> PCs]
      BY DEF TypeOK, PCs
    <2>2. ASSUME NEW d \in Clients, NEW i \in DOMAIN f[d]
          PROVE  f[d][i] \in Reports /\ Blocked(f[d][i])
      BY <2>1 DEF ListInv, Blocked
    <2>3. QED
      BY <2>1, <2>2
  <1>2. /\ \A d \in Clients : d # c => g[d] = f[d]
        /\ \A i \in DOMAIN f[c] : i \in DOMAIN g[c] /\ g[c][i] = f[c][i]
        /\ g[c][n] = r /\ n \notin DOMAIN f[c]
        /\ DOMAIN g[c] = DOMAIN f[c] \cup {n}
        /\ ToSet(g[c]) = ToSet(f[c]) \cup {r}
    BY <1>1, AppendFacts
  <1>3. ASSUME NEW d \in Clients, NEW i \in DOMAIN g[d]
        PROVE  \/ i \in DOMAIN f[d] /\ g[d][i] = f[d][i] /\ g[d][i] # r
               \/ d = c /\ i = n /\ g[d][i] = r
    BY <1>1, <1>2
  <1>4. \A d \in Clients : \A i \in DOMAIN g[d] :
          pc'[g[d][i]] \in IF i = 1 THEN {"asleep", "woken"} ELSE {"asleep"}
    BY <1>1, <1>3 DEF ListInv
  <1>5. \A s \in Reports : Blocked(s)' => \E d \in Clients : s \in ToSet(g[d])
    <2> SUFFICES ASSUME NEW s \in Reports, Blocked(s)', s # r
                 PROVE  \E d \in Clients : s \in ToSet(g[d])
      BY <1>2
    <2>1. PICK d \in Clients : s \in ToSet(f[d])
      BY <1>1 DEF ListInv, Blocked
    <2>2. QED
      BY <2>1, <1>2
  <1>6. \A d, e \in Clients : \A i \in DOMAIN g[d], j \in DOMAIN g[e] :
          g[d][i] = g[e][j] => d = e /\ i = j
    BY <1>3 DEF ListInv
  <1>7. QED
    BY <1>4, <1>5, <1>6 DEF ListInv

\* The first leaves its list, and who comes next may be woken.
LEMMA ListShrinks ==
    ASSUME TypeOK, ListInv, NEW r \in Reports, NEW c \in Clients,
           fBlockedReports[c] # <<>>, r = Head(fBlockedReports[c]),
           fBlockedReports' = [fBlockedReports EXCEPT ![c] = Tail(@)],
           pc' = [Woken(Tail(fBlockedReports[c])) EXCEPT ![r] = "run"]
    PROVE  /\ ListInv'
           /\ ToSet(fBlockedReports'[c]) = ToSet(fBlockedReports[c]) \ {r}
           /\ r \in ToSet(fBlockedReports[c])
           /\ \A s \in Reports : s # r => (Blocked(s)' <=> Blocked(s))
  <1> DEFINE f == fBlockedReports
             g == fBlockedReports'
             left == Tail(fBlockedReports[c])
  <1>1. /\ f \in [Clients -> Seq(Reports)]
        /\ pc \in [Reports -> PCs]
    BY DEF TypeOK, PCs
  <1>2. /\ left \in Seq(Reports) /\ r = f[c][1] /\ 1 \in DOMAIN f[c]
        /\ \A i \in DOMAIN left : i \in Nat \ {0} /\ i + 1 \in DOMAIN f[c] /\ left[i] = f[c][i + 1]
        /\ \A i \in DOMAIN f[c] : i # 1 => i - 1 \in DOMAIN left /\ f[c][i] = left[i - 1]
    BY <1>1, TailFacts
  <1>3. ToSet(left) = ToSet(f[c]) \ {r} /\ r \in ToSet(f[c])
    <2>1. IsInjective(f[c])
      BY DEF ListInv, IsInjective
    <2>2. QED
      BY <1>1, <1>2, <2>1, TailSet DEF ToSet
  <1>4. (\A d \in Clients : d # c => g[d] = f[d]) /\ g[c] = left
    BY <1>1
  <1>5. /\ \A s \in Reports \ {r} : Blocked(s)' <=> Blocked(s)
        /\ \A s \in Reports \ {r} :
             pc'[s] = pc[s] \/ (left # <<>> /\ s = Head(left) /\ pc'[s] = "woken")
        /\ pc'[r] = "run"
    BY <1>1, <1>2, WokenFacts, ZenonT(30) DEF Blocked, PCs
  <1>6. ASSUME NEW d \in Clients, NEW i \in DOMAIN g[d]
        PROVE  \E j \in DOMAIN f[d] :
                 /\ g[d][i] = f[d][j] /\ f[d][j] # r /\ j = IF d = c THEN i + 1 ELSE i
                 /\ i \in Nat \ {0}
    <2>1. CASE d = c
      <3>1. i \in DOMAIN left /\ g[d][i] = left[i]
        BY <1>4, <2>1
      <3>2. i + 1 \in DOMAIN f[c] /\ i \in Nat \ {0} /\ i + 1 # 1 /\ left[i] = f[c][i + 1]
        BY <1>2, <3>1
      <3>3. f[c][i + 1] # r
        BY <1>2, <3>2 DEF ListInv
      <3>4. QED
        BY <2>1, <3>1, <3>2, <3>3
    <2>2. CASE d # c
      <3>1. i \in DOMAIN f[d] /\ g[d][i] = f[d][i] /\ i \in Nat \ {0}
        BY <1>1, <1>4, <2>2
      <3>2. f[d][i] # r
        BY <1>2, <2>2, <3>1 DEF ListInv
      <3>3. QED
        BY <2>2, <3>1, <3>2
    <2>3. QED
      BY <2>1, <2>2
  <1>7. \A d, e \in Clients : \A i \in DOMAIN g[d], j \in DOMAIN g[e] :
          g[d][i] = g[e][j] => d = e /\ i = j
    <2> SUFFICES ASSUME NEW d \in Clients, NEW e \in Clients, NEW i \in DOMAIN g[d],
                        NEW j \in DOMAIN g[e], g[d][i] = g[e][j]
                 PROVE  d = e /\ i = j
      OBVIOUS
    <2>1. PICK k \in DOMAIN f[d] : g[d][i] = f[d][k] /\ k = (IF d = c THEN i + 1 ELSE i)
                                   /\ i \in Nat
      BY <1>6
    <2>2. PICK m \in DOMAIN f[e] : g[e][j] = f[e][m] /\ m = (IF e = c THEN j + 1 ELSE j)
                                   /\ j \in Nat
      BY <1>6
    <2>3. d = e /\ k = m
      BY <2>1, <2>2 DEF ListInv
    <2>4. QED
      BY <2>1, <2>2, <2>3
  <1>8. ASSUME NEW d \in Clients, NEW i \in DOMAIN g[d]
        PROVE  pc'[g[d][i]] \in IF i = 1 THEN {"asleep", "woken"} ELSE {"asleep"}
    <2>1. PICK j \in DOMAIN f[d] : /\ g[d][i] = f[d][j] /\ f[d][j] # r
                                   /\ j = (IF d = c THEN i + 1 ELSE i) /\ i \in Nat \ {0}
      BY <1>6
    <2>2. f[d][j] \in Reports \ {r}
          /\ pc[f[d][j]] \in IF j = 1 THEN {"asleep", "woken"} ELSE {"asleep"}
      BY <1>1, <2>1 DEF ListInv
    <2>3. CASE pc'[f[d][j]] = pc[f[d][j]]
      BY <2>1, <2>2, <2>3
    <2>4. CASE left # <<>> /\ f[d][j] = Head(left) /\ pc'[f[d][j]] = "woken"
      <3>1. Head(left) = left[1] /\ 1 \in DOMAIN left
        BY <1>2, <2>4, TailFacts
      <3>2. g[d][i] = g[c][1]
        BY <1>4, <2>1, <2>4, <3>1
      <3>3. i = 1
        <4>1. 1 \in DOMAIN g[c]
          BY <1>4, <3>1
        <4>2. QED
          BY <1>7, <3>2, <4>1
      <3>4. QED
        BY <2>1, <2>4, <3>3
    <2>5. QED
      BY <1>5, <2>2, <2>3, <2>4
  <1>9. \A s \in Reports : Blocked(s)' => \E d \in Clients : s \in ToSet(g[d])
    <2> SUFFICES ASSUME NEW s \in Reports, Blocked(s)'
                 PROVE  \E d \in Clients : s \in ToSet(g[d])
      OBVIOUS
    <2>1. s # r
      BY <1>5 DEF Blocked
    <2>2. PICK d \in Clients : s \in ToSet(f[d])
      BY <1>5, <2>1 DEF ListInv
    <2>3. QED
      BY <1>3, <1>4, <2>1, <2>2
  <1>10. QED
    BY <1>3, <1>4, <1>5, <1>7, <1>8, <1>9 DEF ListInv

\* What Enqueue and Retry store is a report, and there is room for it.
LEMMA StoredType ==
    ASSUME TypeOK, GateInv, NEW r \in Reports, NEW c \in Clients, pc[r] # "new", Stored(c, r)
    PROVE  /\ ring' \in [Clients -> Seq(Reports)] /\ \A d \in Clients : Len(ring'[d]) <= Cap
           /\ message' \in [Clients -> BOOLEAN]
  <1>1. elementValue[Cookie[r]] \in Reports /\ ring[c] \in Seq(Reports)
    BY DEF GateInv, TypeOK
  <1>2. Append(ring[c], elementValue[Cookie[r]]) \in Seq(Reports)
        /\ Len(Append(ring[c], elementValue[Cookie[r]])) = Len(ring[c]) + 1
    BY <1>1, AppendFacts
  <1>3. Cap \in Nat /\ Len(ring[c]) \in Nat
    BY <1>1, ClientsAssumption
  <1>4. CASE valid[c]
    <2> DEFINE longer == Append(ring[c], elementValue[Cookie[r]])
    <2>1. ring' = [ring EXCEPT ![c] = longer] /\ Len(ring[c]) < Cap
          /\ message' = [message EXCEPT ![c] = @ \/ ring[c] = <<>>]
      BY <1>4 DEF Stored, Room
    <2>2. Len(longer) <= Cap
      BY <1>2, <1>3, <2>1
    <2>3. longer \in Seq(Reports)
      BY <1>2
    <2> HIDE DEF longer
    <2>4. QED
      BY <2>1, <2>2, <2>3 DEF TypeOK
  <1>5. CASE ~valid[c]
    BY <1>5 DEF Stored, TypeOK
  <1>6. QED
    BY <1>4, <1>5

\* A thread that leaves a list keeps its type, and the blocked status that of
\* its queue.
LEMMA LeaveType ==
    ASSUME TypeOK, GateInv, NEW r \in Reports, NEW c \in Clients, GetsGate(r, c), Leave(r, c)
    PROVE  /\ fBlockedReports' \in [Clients -> Seq(Reports)]
           /\ \A d \in Clients : status'[d] <=> fBlockedReports'[d] # <<>>
           /\ status' \in [Clients -> BOOLEAN]
           /\ pc' \in [Reports -> PCs] /\ index' \in [Reports -> Nat]
           /\ closer' \in [Clients -> {"no", "asleep", "woken"}]
           /\ GateInv'
  <1> DEFINE left == Tail(fBlockedReports[c])
  <1>1. left \in Seq(Reports)
    BY TailFacts DEF TypeOK, GetsGate
  <1>2. pc \in [Reports -> PCs] /\ Woken(left) \in [Reports -> PCs]
        /\ \A s \in Reports : Woken(left)[s] # pc[s] => pc[s] = "asleep" /\ Woken(left)[s] = "woken"
    <2>1. pc \in [Reports -> PCs]
      BY DEF TypeOK, PCs
    <2>2. QED
      BY <1>1, <2>1, WokenFacts
  <1>3. /\ fBlockedReports' = [fBlockedReports EXCEPT ![c] = left]
        /\ status' = [status EXCEPT ![c] = left # <<>>]
        /\ pc' = [Woken(left) EXCEPT ![r] = "run"]
        /\ gate = Nobody /\ gate' = r /\ elementValue' = elementValue
        /\ index' = [index EXCEPT ![r] = @ + 1]
        /\ closer' = [closer EXCEPT ![c] = IF left = <<>> /\ WakesCloser(c) /\ @ = "asleep"
                                           THEN "woken" ELSE @]
    BY DEF Leave, GetsGate, GoesOn, NextWoken
  <1> HIDE DEF left
  <1>4. /\ fBlockedReports' \in [Clients -> Seq(Reports)]
        /\ \A d \in Clients : status'[d] <=> fBlockedReports'[d] # <<>>
        /\ status' \in [Clients -> BOOLEAN] /\ index' \in [Reports -> Nat]
        /\ closer' \in [Clients -> {"no", "asleep", "woken"}]
    <2>1. fBlockedReports' \in [Clients -> Seq(Reports)]
      BY <1>1, <1>3 DEF TypeOK
    <2>2. \A d \in Clients : status'[d] <=> fBlockedReports'[d] # <<>>
      BY <1>3 DEF TypeOK
    <2>3. status' \in [Clients -> BOOLEAN] /\ index' \in [Reports -> Nat]
      BY <1>3 DEF TypeOK
    <2>4. closer' \in [Clients -> {"no", "asleep", "woken"}]
      BY <1>3 DEF TypeOK
    <2>5. QED
      BY <2>1, <2>2, <2>3, <2>4
  <1>5. pc' \in [Reports -> PCs]
    BY <1>2, <1>3 DEF PCs
  <1>6. GateInv'
    <2>1. \A s \in Reports : pc'[s] = "run" <=> gate' = s
      BY <1>2, <1>3, ClientsAssumption DEF GateInv
    <2>2. \A s \in Reports : pc'[s] # "new" => elementValue'[Cookie[s]] \in Reports
      BY <1>2, <1>3 DEF GateInv, GetsGate
    <2>3. QED
      BY <2>1, <2>2 DEF GateInv
  <1>7. QED
    BY <1>4, <1>5, <1>6

TypeInv == TypeOK /\ GateInv

\* Every step keeps the types, and who has the gate.
LEMMA TypeStep ==
    ASSUME TypeInv, [Next]_vars
    PROVE  TypeInv'
  <1> USE DEF TypeInv
  <1>0. pc \in [Reports -> PCs]
    BY DEF TypeOK, PCs
  <1>0a. ASSUME NoLongerWait
         PROVE  late' \subseteq Reports /\ owed' \in [Clients -> SUBSET Reports]
    <2>1. \A d \in Clients : ToSet(fBlockedReports[d]) \subseteq Reports
      BY DEF TypeOK, ToSet
    <2>2. QED
      BY <1>0a, <2>1 DEF NoLongerWait, TypeOK
  <1>1. ASSUME NEW c \in Clients, NEW o \in Options[c], Open(c, o)
        PROVE  TypeInv'
    <2>1. opens' \in [Clients -> Nat] /\ \A d \in Clients : opens'[d] <= MaxOpens[d]
      <3>1. /\ opens' = [opens EXCEPT ![c] = @ + 1] /\ opens[c] < MaxOpens[c]
            /\ opens \in [Clients -> Nat] /\ MaxOpens \in [Clients -> Nat]
            /\ \A d \in Clients : opens[d] <= MaxOpens[d]
        BY <1>1, ClientsAssumption DEF Open, TypeOK
      <3>2. QED
        BY <3>1
    <2>2. bits' \in [Clients -> SUBSET {"seize", "keep"}]
      BY <1>1, ClientsAssumption DEF Open, TypeOK
    <2>3. /\ late' \subseteq Reports /\ owed' \in [Clients -> SUBSET Reports]
          /\ misled' \subseteq Clients
      BY <1>1, <1>0a DEF Open, TypeOK, MisledByOpen
    <2>4. /\ seizedClient' \in Clients \cup {Nobody} /\ opened' \in [Clients -> BOOLEAN]
          /\ seized' \in [Clients -> BOOLEAN] /\ valid' \in [Clients -> BOOLEAN]
      BY <1>1 DEF Open, TypeOK, Accepts
    <2>5. UNCHANGED <<closer, queueArray, queueVars, appVars, threadVars>>
      BY <1>1 DEF Open
    <2>6. QED
      BY <2>1, <2>2, <2>3, <2>4, <2>5 DEF TypeOK, GateInv, queueVars, appVars, threadVars
  <1>2. ASSUME NEW c \in Clients, Close(c)
        PROVE  TypeInv'
    <2>1. /\ pc' \in [Reports -> PCs]
          /\ \A r \in Reports : pc'[r] # pc[r] => pc[r] = "asleep" /\ pc'[r] = "woken"
      <3>1. fBlockedReports[c] \in Seq(Reports)
        BY DEF TypeOK
      <3>2. QED
        BY <1>2, <1>0, <3>1, WokenFacts DEF Close
    <2>2. GateInv'
      BY <1>2, <2>1 DEF GateInv, Close
    <2>3. gate' \in Reports \cup {Nobody}
      BY <1>2 DEF Close, TypeOK
    <2>4. /\ late' \subseteq Reports /\ owed' \in [Clients -> SUBSET Reports]
          /\ misled' \subseteq Clients
      BY <1>2, <1>0a DEF Close, TypeOK, MisledByClose, WasClosed
    <2>5. /\ seizedClient' \in Clients \cup {Nobody} /\ opened' \in [Clients -> BOOLEAN]
          /\ seized' \in [Clients -> BOOLEAN] /\ valid' \in [Clients -> BOOLEAN]
          /\ bits' \in [Clients -> SUBSET {"seize", "keep"}]
          /\ closer' \in [Clients -> {"no", "asleep", "woken"}]
      BY <1>2 DEF Close, TypeOK, AfterClose
    <2>6. UNCHANGED <<opens, queueArray, queueVars, appVars, index, elementValue>>
      BY <1>2 DEF Close
    <2>7. gate' # Nobody <=> \E r \in Reports : pc'[r] = "run"
      BY <2>2, <2>3, ClientsAssumption DEF GateInv
    <2>8. QED
      BY <2>1, <2>2, <2>3, <2>4, <2>5, <2>6, <2>7
      DEF TypeOK, queueVars, appVars, PCs
  <1>3. ASSUME NEW c \in Clients, CloseReturns(c)
        PROVE  TypeInv'
    BY <1>3
       DEF CloseReturns, TypeOK, GateInv, deviceVars, queueVars, appVars, threadVars, historyVars
  <1>4. ASSUME NEW c \in Clients, DisposeQueue(c)
        PROVE  TypeInv'
    <2>1. queueArray' \in Seq(Clients)
      BY <1>4, RemoveAtFacts DEF DisposeQueue, TypeOK
    <2>2. QED
      BY <1>4, <2>1 DEF DisposeQueue, TypeOK, GateInv, deviceVars, callVars, queueVars, appVars,
                        threadVars, historyVars
  <1>5. ASSUME NEW r \in Reports, HandleReport(r)
        PROVE  TypeInv'
    <2>1. /\ pc' \in [Reports -> PCs] /\ index' \in [Reports -> Nat]
          /\ elementValue' \in [Cookies -> Reports \cup {Nobody}]
          /\ owed' \in [Clients -> SUBSET Reports]
          /\ gate' \in Reports \cup {Nobody}
      BY <1>5, <1>0 DEF HandleReport, TypeOK, PCs
    <2>2. GateInv'
      <3>1. \A s \in Reports : pc'[s] = "run" <=> gate' = s
        BY <1>5, <1>0, ClientsAssumption DEF HandleReport, GateInv
      <3>2. Cookie[r] \in Cookies
        BY DEF Cookies
      <3>3. \A s \in Reports : pc'[s] # "new" => elementValue'[Cookie[s]] \in Reports
        BY <1>5, <1>0, <3>2 DEF HandleReport, GateInv, TypeOK
      <3>4. QED
        BY <3>1, <3>3 DEF GateInv
    <2>3. UNCHANGED <<late, misled, deviceVars, callVars, queueArray, queueVars, appVars>>
      BY <1>5 DEF HandleReport
    <2>4. gate' # Nobody <=> \E s \in Reports : pc'[s] = "run"
      BY <2>1, <2>2, ClientsAssumption DEF GateInv
    <2>5. QED
      BY <2>1, <2>2, <2>3, <2>4 DEF TypeOK, deviceVars, callVars, queueVars, appVars, PCs
  <1>6. ASSUME NEW r \in Reports, NEW c \in Clients, Enqueue(r, c)
        PROVE  TypeInv'
    <2>1. pc[r] # "new"
      BY <1>6 DEF Enqueue, At, GateInv
    <2>2. /\ ring' \in [Clients -> Seq(Reports)] /\ \A d \in Clients : Len(ring'[d]) <= Cap
          /\ message' \in [Clients -> BOOLEAN]
      BY <1>6, <2>1, StoredType DEF Enqueue
    <2>3. index' \in [Reports -> Nat]
      BY <1>6 DEF Enqueue, GoesOn, TypeOK
    <2>4. QED
      BY <1>6, <2>2, <2>3 DEF Enqueue, TypeOK, GateInv, deviceVars, callVars, appVars, historyVars
  <1>7. ASSUME NEW r \in Reports, NEW c \in Clients, Drop(r, c)
        PROVE  TypeInv'
    <2>1. index' \in [Reports -> Nat]
      BY <1>7 DEF Drop, GoesOn, TypeOK
    <2>2. message' \in [Clients -> BOOLEAN]
      BY <1>7 DEF Drop, TypeOK
    <2>3. QED
      BY <1>7, <2>1, <2>2 DEF Drop, TypeOK, GateInv, deviceVars, callVars, appVars, historyVars
  <1>8. ASSUME NEW r \in Reports, NEW c \in Clients, Block(r, c)
        PROVE  TypeInv'
    <2>1. /\ fBlockedReports' \in [Clients -> Seq(Reports)]
          /\ \A d \in Clients : status'[d] <=> fBlockedReports'[d] # <<>>
      BY <1>8, AppendFacts DEF Block, TypeOK
    <2>2. /\ pc' \in [Reports -> PCs] /\ gate' = Nobody /\ gate = r
          /\ status' \in [Clients -> BOOLEAN] /\ message' \in [Clients -> BOOLEAN]
      BY <1>8, <1>0 DEF Block, TypeOK, PCs, At
    <2>3. GateInv'
      BY <1>8, <1>0, <2>2, ClientsAssumption DEF Block, GateInv
    <2>4. gate' # Nobody <=> \E s \in Reports : pc'[s] = "run"
      BY <2>2, <2>3, ClientsAssumption DEF GateInv
    <2>5. QED
      BY <1>8, <2>1, <2>2, <2>3, <2>4
      DEF Block, TypeOK, deviceVars, callVars, appVars, historyVars, PCs
  <1>9. ASSUME NEW r \in Reports, NEW c \in Clients, Retry(r, c) \/ GiveUp(r, c)
        PROVE  TypeInv'
    <2>1. GetsGate(r, c) /\ Leave(r, c) /\ (Stored(c, r) \/ UNCHANGED <<ring, message>>)
      BY <1>9 DEF Retry, GiveUp
    <2>2. pc[r] # "new"
      BY <2>1 DEF GetsGate
    <2>3. /\ ring' \in [Clients -> Seq(Reports)] /\ \A d \in Clients : Len(ring'[d]) <= Cap
          /\ message' \in [Clients -> BOOLEAN]
      BY <2>1, <2>2, StoredType DEF TypeOK
    <2>4. /\ fBlockedReports' \in [Clients -> Seq(Reports)]
          /\ \A d \in Clients : status'[d] <=> fBlockedReports'[d] # <<>>
          /\ status' \in [Clients -> BOOLEAN]
          /\ pc' \in [Reports -> PCs] /\ index' \in [Reports -> Nat]
          /\ closer' \in [Clients -> {"no", "asleep", "woken"}]
          /\ GateInv'
      BY <2>1, LeaveType
    <2>5. gate' # Nobody <=> \E s \in Reports : pc'[s] = "run"
      BY <2>1, <2>4, ClientsAssumption DEF GateInv, Leave
    <2>6. UNCHANGED <<deviceVars, opens, queueArray, appVars, elementValue, historyVars>> /\ gate' = r
      BY <2>1 DEF Leave
    <2>7. QED
      BY <2>3, <2>4, <2>5, <2>6 DEF TypeOK, deviceVars, appVars, historyVars, PCs
  <1>10. ASSUME NEW r \in Reports, NEW c \in Clients, SleepAgain(r, c)
         PROVE  TypeInv'
    <2>1. /\ pc' \in [Reports -> PCs] /\ message' \in [Clients -> BOOLEAN]
      BY <1>10, <1>0 DEF SleepAgain, TypeOK, PCs
    <2>2. GateInv'
      BY <1>10, <1>0, ClientsAssumption DEF SleepAgain, GetsGate, GateInv
    <2>3. gate' # Nobody <=> \E s \in Reports : pc'[s] = "run"
      BY <1>10, <2>2, ClientsAssumption DEF GateInv, SleepAgain, GetsGate
    <2>4. QED
      BY <1>10, <2>1, <2>2, <2>3
      DEF SleepAgain, TypeOK, deviceVars, callVars, appVars, historyVars, PCs
  <1>11. ASSUME NEW r \in Reports, ReportHandled(r)
         PROVE  TypeInv'
    <2>1. pc' \in [Reports -> PCs] /\ gate' = Nobody /\ gate = r
      BY <1>11, <1>0 DEF ReportHandled, PCs
    <2>2. GateInv'
      BY <1>11, <1>0, ClientsAssumption DEF ReportHandled, GateInv
    <2>3. gate' # Nobody <=> \E s \in Reports : pc'[s] = "run"
      BY <2>1, <2>2, ClientsAssumption DEF GateInv
    <2>4. QED
      BY <1>11, <2>1, <2>2, <2>3
      DEF ReportHandled, TypeOK, deviceVars, callVars, queueVars, appVars, historyVars, PCs
  <1>12. ASSUME NEW c \in Clients, ValueAvailable(c)
         PROVE  TypeInv'
    BY <1>12 DEF ValueAvailable, TypeOK, GateInv, deviceVars, callVars, threadVars, historyVars
  <1>13. ASSUME NEW c \in Clients, CopyNextValue(c)
         PROVE  TypeInv'
    <2>1. /\ ring' \in [Clients -> Seq(Reports)] /\ received' \in [Clients -> Seq(Reports)]
          /\ \A d \in Clients : Len(ring'[d]) <= Cap
          /\ app' \in [Clients -> {"idle", "reading", "empty", "resuming"}]
      <3>1. CASE ring[c] = <<>>
        BY <1>13, <3>1 DEF CopyNextValue, TypeOK
      <3>2. CASE ring[c] # <<>>
        <4>1. /\ Tail(ring[c]) \in Seq(Reports) /\ Head(ring[c]) \in Reports
              /\ Len(ring[c]) \in Nat /\ Len(Tail(ring[c])) = Len(ring[c]) - 1
          BY <3>2, TailFacts DEF TypeOK
        <4>2. Append(received[c], Head(ring[c])) \in Seq(Reports)
          BY <4>1, AppendFacts DEF TypeOK
        <4>3. Cap \in Nat
          BY ClientsAssumption
        <4>4. /\ ring' = [ring EXCEPT ![c] = Tail(ring[c])] /\ UNCHANGED app
              /\ received' = [received EXCEPT ![c] = Append(received[c], Head(ring[c]))]
          BY <1>13, <3>2 DEF CopyNextValue
        <4>5. Len(Tail(ring[c])) <= Cap
          BY <4>1, <4>3 DEF TypeOK
        <4>6. QED
          BY <4>1, <4>2, <4>4, <4>5 DEF TypeOK
      <3>3. QED
        BY <3>1, <3>2
    <2>2. QED
      BY <1>13, <2>1
         DEF CopyNextValue, TypeOK, GateInv, deviceVars, callVars, threadVars, historyVars
  <1>14. ASSUME NEW c \in Clients, SignalQueueEmpty(c)
         PROVE  TypeInv'
    BY <1>14 DEF SignalQueueEmpty, TypeOK, GateInv, deviceVars, callVars, queueVars, threadVars,
                 historyVars
  <1>15. ASSUME NEW c \in Clients, ResumeReports(c)
         PROVE  TypeInv'
    <2>1. /\ pc' \in [Reports -> PCs]
          /\ \A r \in Reports : pc'[r] # pc[r] => pc[r] = "asleep" /\ pc'[r] = "woken"
      <3>1. fBlockedReports[c] \in Seq(Reports)
        BY DEF TypeOK
      <3>2. QED
        BY <1>15, <1>0, <3>1, WokenFacts DEF ResumeReports
    <2>2. GateInv'
      BY <1>15, <2>1 DEF GateInv, ResumeReports
    <2>3. app' \in [Clients -> {"idle", "reading", "empty", "resuming"}]
      BY <1>15 DEF ResumeReports, TypeOK
    <2>4. QED
      BY <1>15, <2>1, <2>2, <2>3, SMTT(20)
      DEF ResumeReports, TypeOK, GateInv, deviceVars, callVars, queueVars, historyVars, PCs
  <1>16. CASE UNCHANGED vars
    BY <1>16 DEF vars, TypeOK, GateInv, deviceVars, callVars, queueVars, appVars, threadVars,
                 historyVars
  <1>17. QED
    BY <1>1, <1>2, <1>3, <1>4, <1>5, <1>6, <1>7, <1>8, <1>9, <1>10, <1>11, <1>12, <1>13, <1>14,
       <1>15, <1>16
    DEF Next, Call, Run, WokenRuns, Read

\* The clients, the queues with their rings and lists, and the threads that
\* handle reports stay in their types: no ring holds more than its queue has
\* room for, and a queue has its blocked status while its list has somebody.
THEOREM TypeCorrect == Spec => []TypeOK
  <1>1. Init => TypeInv
    <2> SUFFICES ASSUME Init
                 PROVE  TypeInv
      OBVIOUS
    <2>1. TypeOK
      BY ClientsAssumption DEF Init, TypeOK
    <2>2. GateInv
      BY ClientsAssumption DEF Init, GateInv
    <2>3. QED
      BY <2>1, <2>2 DEF TypeInv
  <1>2. TypeInv /\ [Next]_vars => TypeInv'
    BY TypeStep
  <1>3. TypeInv => TypeOK
    BY DEF TypeInv
  <1>4. QED
    BY <1>1, <1>2, <1>3, PTL DEF Spec

\* Every step keeps the lists apart, and all but the first of each asleep.
LEMMA ListStep ==
    ASSUME TypeInv, ListInv, [Next]_vars
    PROVE  ListInv'
  <1> USE DEF TypeInv
  <1>0. pc \in [Reports -> PCs]
    BY DEF TypeOK, PCs
  <1>1. ASSUME NEW c \in Clients, Close(c) \/ ResumeReports(c)
        PROVE  ListInv'
    <2>1. fBlockedReports[c] \in Seq(Reports)
      BY DEF TypeOK
    <2>2. /\ pc' = Woken(fBlockedReports[c]) /\ UNCHANGED fBlockedReports
      BY <1>1 DEF Close, ResumeReports, queueVars
    <2>3. \A r \in Reports : pc'[r] # pc[r] =>
            /\ pc[r] = "asleep" /\ pc'[r] = "woken"
            /\ fBlockedReports[c] # <<>> /\ r = Head(fBlockedReports[c])
      BY <1>0, <2>1, <2>2, WokenFacts
    <2>4. QED
      BY <2>2, <2>3, ListKept DEF Blocked
  <1>2. ASSUME NEW r \in Reports, HandleReport(r) \/ ReportHandled(r)
        PROVE  ListInv'
    <2>1. /\ \A s \in Reports : s # r => pc'[s] = pc[s]
          /\ ~Blocked(r) /\ pc'[r] \in {"run", "done"} /\ UNCHANGED fBlockedReports
      BY <1>2, <1>0 DEF HandleReport, ReportHandled, Blocked, GateInv, queueVars
    <2>2. QED
      BY <2>1, ListKept DEF Blocked
  <1>3. ASSUME NEW r \in Reports, NEW c \in Clients, Block(r, c)
        PROVE  ListInv'
    <2>1. ~Blocked(r)
      BY <1>3 DEF Block, At, GateInv, Blocked
    <2>2. QED
      BY <1>3, <2>1, ListGrows DEF Block
  <1>4. ASSUME NEW r \in Reports, NEW c \in Clients, Retry(r, c) \/ GiveUp(r, c)
        PROVE  ListInv'
    BY <1>4, ListShrinks DEF Retry, GiveUp, GetsGate, Leave, NextWoken
  <1>5. ASSUME NEW r \in Reports, NEW c \in Clients, SleepAgain(r, c)
        PROVE  ListInv'
    <2>1. /\ \A s \in Reports : s # r => pc'[s] = pc[s]
          /\ pc[r] = "woken" /\ pc'[r] = "asleep" /\ UNCHANGED fBlockedReports
      BY <1>5, <1>0 DEF SleepAgain, GetsGate
    <2>2. QED
      BY <2>1, ListKept DEF Blocked
  <1>6. ASSUME UNCHANGED <<pc, fBlockedReports>>
        PROVE  ListInv'
    BY <1>6, ListKept DEF Blocked
  <1>7. ASSUME NEW c \in Clients,
               Opens(c) \/ CloseReturns(c) \/ DisposeQueue(c) \/ ValueAvailable(c)
               \/ CopyNextValue(c) \/ SignalQueueEmpty(c)
        PROVE  UNCHANGED <<pc, fBlockedReports>>
    BY <1>7 DEF Opens, Open, CloseReturns, DisposeQueue, ValueAvailable, CopyNextValue, SignalQueueEmpty,
                queueVars, threadVars
  <1>8. ASSUME NEW r \in Reports, NEW c \in Clients, Enqueue(r, c) \/ Drop(r, c)
        PROVE  UNCHANGED <<pc, fBlockedReports>>
    BY <1>8 DEF Enqueue, Drop
  <1>9. UNCHANGED vars => UNCHANGED <<pc, fBlockedReports>>
    BY DEF vars, queueVars, threadVars
  <1>10. QED
    BY <1>1, <1>2, <1>3, <1>4, <1>5, <1>6, <1>7, <1>8, <1>9
    DEF Next, Call, Opens, Run, WokenRuns, Read

\* Every step keeps the types and the lists.
LEMMA BaseStep ==
    ASSUME BaseInv, [Next]_vars
    PROVE  BaseInv'
  BY TypeStep, ListStep DEF BaseInv, TypeInv

\* At the start nobody is blocked.
LEMMA BaseInit == Init => BaseInv
  <1> SUFFICES ASSUME Init
               PROVE  BaseInv
    OBVIOUS
  <1>1. TypeOK /\ GateInv
    BY ClientsAssumption DEF Init, TypeOK, GateInv
  <1>2. ListInv
    BY DEF Init, ListInv, Blocked
  <1>3. QED
    BY <1>1, <1>2 DEF BaseInv

\* Types and lists hold always.
LEMMA BaseHolds == Spec => []BaseInv
  BY BaseInit, BaseStep, PTL DEF Spec

------------------------------------------------------------------------------
(* Wake-ups.                                                               *)

\* The first of a list is blocked, and is the first of no other.
LEMMA HeadFacts ==
    ASSUME BaseInv, NEW c \in Clients, fBlockedReports[c] # <<>>
    PROVE  /\ Head(fBlockedReports[c]) \in Reports /\ Blocked(Head(fBlockedReports[c]))
           /\ \A d \in Clients : d # c /\ fBlockedReports[d] # <<>> =>
                Head(fBlockedReports[d]) # Head(fBlockedReports[c])
  <1>1. \A d \in Clients : fBlockedReports[d] # <<>> =>
          /\ 1 \in DOMAIN fBlockedReports[d] /\ Head(fBlockedReports[d]) = fBlockedReports[d][1]
          /\ Head(fBlockedReports[d]) \in Reports
    BY TailFacts DEF BaseInv, TypeOK
  <1>2. QED
    BY <1>1 DEF BaseInv, ListInv, Blocked

\* What wakes nobody who is first of a list, and puts nobody into one.
LEMMA WakeKept ==
    ASSUME WakeInv, UNCHANGED <<opened, closer, fBlockedReports>>,
           \A c \in Clients : fBlockedReports[c] # <<>> =>
             \/ pc[Head(fBlockedReports[c])] = "woken" => pc'[Head(fBlockedReports[c])] = "woken"
             \/ closer[c] # "asleep" /\ message'[c],
           \A c \in Clients : fBlockedReports[c] # <<>> /\ (message[c] \/ app[c] # "idle") =>
             message'[c] \/ app'[c] # "idle" \/ pc'[Head(fBlockedReports[c])] = "woken"
    PROVE  WakeInv'
  BY DEF WakeInv, CloserInv, WaitersAreWoken

\* Every step keeps a wake-up on its way for the first of each list.
LEMMA WakeStep ==
    ASSUME BaseInv, WakeInv, [Next]_vars
    PROVE  WakeInv'
  <1>0. /\ pc \in [Reports -> PCs] /\ fBlockedReports \in [Clients -> Seq(Reports)]
        /\ message \in [Clients -> BOOLEAN] /\ closer \in [Clients -> {"no", "asleep", "woken"}]
        /\ app \in [Clients -> {"idle", "reading", "empty", "resuming"}]
        /\ opened \in [Clients -> BOOLEAN]
        /\ \A c \in Clients : status[c] <=> fBlockedReports[c] # <<>>
    BY DEF BaseInv, TypeOK, PCs
  <1>1. ASSUME NEW c \in Clients, NEW o \in Options[c], Open(c, o)
        PROVE  WakeInv'
    <2>1. /\ UNCHANGED <<closer, fBlockedReports, message, app, pc>>
          /\ closer[c] = "no" /\ opened' = [opened EXCEPT ![c] = TRUE]
      BY <1>1 DEF Open, queueVars, appVars, threadVars
    <2>2. QED
      BY <1>0, <2>1 DEF WakeInv, CloserInv, WaitersAreWoken
  <1>2. ASSUME NEW c \in Clients, Close(c)
        PROVE  WakeInv'
    <2>1. /\ UNCHANGED <<fBlockedReports, message, app>>
          /\ opened' = [opened EXCEPT ![c] = FALSE] /\ opened[c] /\ closer[c] = "no"
          /\ closer' = [closer EXCEPT ![c] = IF fBlockedReports[c] = <<>> THEN @ ELSE "asleep"]
          /\ pc' = Woken(fBlockedReports[c])
      BY <1>2 DEF Close, queueVars, appVars
    <2>2. \A r \in Reports : pc[r] = "woken" => pc'[r] = "woken"
      BY <1>0, <2>1, WokenFacts
    <2>3. fBlockedReports[c] # <<>> => pc'[Head(fBlockedReports[c])] = "woken"
      BY <1>0, <2>1, WokenFacts, HeadFacts
    <2>4. QED
      BY <1>0, <2>1, <2>2, <2>3, HeadFacts DEF WakeInv, CloserInv, WaitersAreWoken
  <1>3. ASSUME NEW c \in Clients, CloseReturns(c)
        PROVE  WakeInv'
    <2>1. /\ UNCHANGED <<opened, fBlockedReports, message, app, pc>>
          /\ closer[c] = "woken" /\ closer' = [closer EXCEPT ![c] = "no"]
      BY <1>3 DEF CloseReturns, deviceVars, queueVars, appVars, threadVars
    <2>2. QED
      BY <1>0, <2>1 DEF WakeInv, CloserInv, WaitersAreWoken
  <1>4. ASSUME NEW c \in Clients, DisposeQueue(c)
        PROVE  WakeInv'
    BY <1>4, WakeKept
    DEF DisposeQueue, deviceVars, callVars, queueVars, appVars, threadVars
  <1>5. ASSUME NEW r \in Reports, HandleReport(r) \/ ReportHandled(r)
        PROVE  WakeInv'
    <2>1. UNCHANGED <<opened, closer, fBlockedReports, message, app>>
      BY <1>5 DEF HandleReport, ReportHandled, deviceVars, callVars, queueVars, appVars
    <2>2. \A s \in Reports : pc[s] = "woken" => pc'[s] = "woken"
      BY <1>5, <1>0 DEF HandleReport, ReportHandled, BaseInv, GateInv
    <2>3. QED
      BY <2>1, <2>2, WakeKept, HeadFacts
  <1>6. ASSUME NEW r \in Reports, NEW c \in Clients, Enqueue(r, c) \/ Drop(r, c)
        PROVE  WakeInv'
    <2>1. UNCHANGED <<opened, closer, fBlockedReports, app, pc>>
      BY <1>6 DEF Enqueue, Drop, deviceVars, callVars, appVars
    <2>2. \A d \in Clients : message[d] => message'[d]
      BY <1>6, <1>0 DEF Enqueue, Drop, Stored
    <2>3. QED
      BY <2>1, <2>2, WakeKept
  <1>7. ASSUME NEW r \in Reports, NEW c \in Clients, Block(r, c)
        PROVE  WakeInv'
    <2>1. /\ UNCHANGED <<opened, closer, app>> /\ opened[c]
          /\ fBlockedReports' = [fBlockedReports EXCEPT ![c] = Append(@, r)]
          /\ message' = [message EXCEPT ![c] = TRUE]
          /\ pc[r] = "run" /\ pc' = [pc EXCEPT ![r] = "asleep"]
      BY <1>7 DEF Block, Waits, deviceVars, callVars, appVars, At, BaseInv, GateInv
    <2>2. /\ \A d \in Clients : d # c => fBlockedReports'[d] = fBlockedReports[d]
          /\ message'[c] /\ \A d \in Clients : message[d] => message'[d]
          /\ \A s \in Reports : pc[s] = "woken" => pc'[s] = "woken"
          /\ closer[c] # "asleep"
      BY <1>0, <2>1 DEF WakeInv, CloserInv
    <2>3. QED
      BY <2>1, <2>2, HeadFacts DEF WakeInv, CloserInv, WaitersAreWoken
  <1>8. ASSUME NEW r \in Reports, NEW c \in Clients, Retry(r, c) \/ GiveUp(r, c)
        PROVE  WakeInv'
    <2> DEFINE left == Tail(fBlockedReports[c])
    <2>1. /\ UNCHANGED <<opened, app>>
          /\ fBlockedReports' = [fBlockedReports EXCEPT ![c] = left]
          /\ pc' = [Woken(left) EXCEPT ![r] = "run"]
          /\ closer' = [closer EXCEPT ![c] = IF left = <<>> /\ ~opened[c] /\ @ = "asleep"
                                             THEN "woken" ELSE @]
          /\ fBlockedReports[c] # <<>> /\ r = Head(fBlockedReports[c])
      BY <1>8 DEF Retry, GiveUp, GetsGate, Leave, NextWoken, WakesCloser, deviceVars, appVars
    <2>2. \A d \in Clients : message[d] => message'[d]
      BY <1>8, <1>0 DEF Retry, GiveUp, Stored
    <2>3. left \in Seq(Reports)
      BY <1>0, <2>1, TailFacts
    <2>4. left # <<>> => pc'[Head(left)] = "woken"
      <3> SUFFICES ASSUME left # <<>>
                   PROVE  pc'[Head(left)] = "woken"
        OBVIOUS
      <3>1. Head(left) = fBlockedReports[c][2] /\ 2 \in DOMAIN fBlockedReports[c]
            /\ 1 \in DOMAIN fBlockedReports[c] /\ r = fBlockedReports[c][1]
        <4>1. Head(left) = left[1] /\ 1 \in DOMAIN left
          BY <2>3, TailFacts
        <4>2. QED
          BY <4>1, <1>0, <2>1, TailFacts
      <3>2. Head(left) # r /\ Blocked(Head(left)) /\ Head(left) \in Reports
        <4>1. Head(left) # r
          BY <3>1 DEF BaseInv, ListInv
        <4>2. pc[Head(left)] = "asleep"
          BY <3>1 DEF BaseInv, ListInv
        <4>3. QED
          BY <1>0, <3>1, <4>1, <4>2 DEF Blocked
      <3>3. Woken(left)[Head(left)] = "woken" /\ Woken(left) \in [Reports -> PCs]
        BY <1>0, <2>3, <3>2, WokenFacts
      <3>4. QED
        BY <2>1, <3>2, <3>3
    <2> HIDE DEF left
    <2>5. \A s \in Reports : s # r /\ pc[s] = "woken" => pc'[s] = "woken"
      BY <1>0, <2>1, <2>3, WokenFacts
    <2>6. ASSUME NEW d \in Clients, d # c
          PROVE  /\ fBlockedReports'[d] = fBlockedReports[d] /\ closer'[d] = closer[d]
                 /\ fBlockedReports[d] # <<>> /\ pc[Head(fBlockedReports[d])] = "woken"
                      => pc'[Head(fBlockedReports[d])] = "woken"
      BY <1>0, <2>1, <2>5, <2>6, HeadFacts
    <2>7. /\ fBlockedReports'[c] = left
          /\ closer'[c] = IF left = <<>> /\ ~opened[c] /\ closer[c] = "asleep" THEN "woken" ELSE closer[c]
      BY <1>0, <2>1
    <2>8. CloserInv'
      BY <2>1, <2>6, <2>7 DEF WakeInv, CloserInv
    <2>9. WaitersAreWoken'
      BY <2>1, <2>2, <2>4, <2>6, <2>7 DEF WakeInv, CloserInv, WaitersAreWoken
    <2>10. QED
      BY <2>8, <2>9 DEF WakeInv
  <1>9. ASSUME NEW r \in Reports, NEW c \in Clients, SleepAgain(r, c)
        PROVE  WakeInv'
    <2>1. /\ UNCHANGED <<opened, closer, fBlockedReports, app>> /\ opened[c]
          /\ message' = [message EXCEPT ![c] = TRUE]
          /\ pc' = [pc EXCEPT ![r] = "asleep"]
          /\ fBlockedReports[c] # <<>> /\ r = Head(fBlockedReports[c])
      BY <1>9 DEF SleepAgain, GetsGate, Waits, deviceVars, callVars, appVars
    <2>2. /\ message'[c] /\ closer[c] # "asleep" /\ \A d \in Clients : message[d] => message'[d]
          /\ \A s \in Reports : s # r /\ pc[s] = "woken" => pc'[s] = "woken"
      BY <1>0, <2>1 DEF WakeInv, CloserInv
    <2>3. QED
      BY <2>1, <2>2, WakeKept, HeadFacts
  <1>10. ASSUME NEW c \in Clients, ValueAvailable(c) \/ CopyNextValue(c)
         PROVE  WakeInv'
    <2>1. UNCHANGED <<opened, closer, fBlockedReports, pc>>
      BY <1>10 DEF ValueAvailable, CopyNextValue, deviceVars, callVars, threadVars
    <2>2. \A d \in Clients : message[d] \/ app[d] # "idle" => message'[d] \/ app'[d] # "idle"
      BY <1>10, <1>0 DEF ValueAvailable, CopyNextValue
    <2>3. QED
      BY <2>1, <2>2, WakeKept
  <1>11. ASSUME NEW c \in Clients, SignalQueueEmpty(c)
         PROVE  WakeInv'
    <2>1. UNCHANGED <<opened, closer, fBlockedReports, message, pc>>
      BY <1>11 DEF SignalQueueEmpty, deviceVars, callVars, queueVars, threadVars
    <2>2. \A d \in Clients : fBlockedReports[d] # <<>> /\ app[d] # "idle" => app'[d] # "idle"
      BY <1>11, <1>0 DEF SignalQueueEmpty
    <2>3. QED
      BY <2>1, <2>2, WakeKept
  <1>12. ASSUME NEW c \in Clients, ResumeReports(c)
         PROVE  WakeInv'
    <2>1. /\ UNCHANGED <<opened, closer, fBlockedReports, message>>
          /\ app' = [app EXCEPT ![c] = "idle"] /\ pc' = Woken(fBlockedReports[c])
      BY <1>12 DEF ResumeReports, deviceVars, callVars, queueVars
    <2>2. \A r \in Reports : pc[r] = "woken" => pc'[r] = "woken"
      BY <1>0, <2>1, WokenFacts
    <2>3. fBlockedReports[c] # <<>> => pc'[Head(fBlockedReports[c])] = "woken"
      BY <1>0, <2>1, WokenFacts, HeadFacts
    <2>4. QED
      BY <1>0, <2>1, <2>2, <2>3, HeadFacts, WakeKept
  <1>13. CASE UNCHANGED vars
    BY <1>13, WakeKept DEF vars, deviceVars, callVars, queueVars, appVars, threadVars
  <1>14. QED
    BY <1>1, <1>2, <1>3, <1>4, <1>5, <1>6, <1>7, <1>8, <1>9, <1>10, <1>11, <1>12, <1>13
    DEF Next, Call, Run, WokenRuns, Read

\* The wake-ups hold always.
LEMMA WakeHolds == Spec => []WakeInv
  <1>1. Init => WakeInv
    BY DEF Init, WakeInv, CloserInv, WaitersAreWoken
  <1>2. BaseInv /\ WakeInv /\ [Next]_vars => WakeInv'
    BY WakeStep
  <1>3. QED
    BY <1>1, <1>2, BaseHolds, PTL DEF Spec

\* Who waits, for room or for the close of a client, has its wake-up coming.
THEOREM NoWakeUpLost == Spec => []WaitersAreWoken
  <1>1. WakeInv => WaitersAreWoken
    BY DEF WakeInv
  <1>2. QED
    BY <1>1, WakeHolds, PTL

------------------------------------------------------------------------------
(* Seizing.                                                                *)

\* Only open and close change who has seized the device, whose queues are
\* enabled, and who is misled.
LEMMA DeviceStays ==
    ASSUME [Next]_vars, \A c \in Clients : ~Opens(c) /\ ~Close(c)
    PROVE  UNCHANGED <<deviceVars, misled>>
  BY DEF Next, Call, Opens, Run, WokenRuns, Read, CloseReturns, DisposeQueue, HandleReport,
         Enqueue, Drop, Block, Retry, GiveUp, Leave, SleepAgain, ReportHandled, ValueAvailable,
         CopyNextValue, SignalQueueEmpty, ResumeReports, vars, historyVars

\* No queue of a closed client gets enabled, nor one of a client that is not
\* seized disabled.
LEMMA EnabledStep ==
    ASSUME TypeOK, EnabledInv, [Next]_vars
    PROVE  EnabledInv'
  <1>1. ASSUME NEW c \in Clients, NEW o \in Options[c], Open(c, o)
        PROVE  EnabledInv'
    BY <1>1 DEF Open, EnabledInv, TypeOK
  <1>2. ASSUME NEW c \in Clients, Close(c)
        PROVE  EnabledInv'
    BY <1>2 DEF Close, EnabledInv, TypeOK
  <1>3. CASE UNCHANGED deviceVars
    BY <1>3 DEF deviceVars, EnabledInv
  <1>4. QED
    BY <1>1, <1>2, <1>3, DeviceStays DEF Opens

\* Who opens agrees with who has seized the device, and whoever heeds the
\* message that it seizes it.
LEMMA SeizeOpen ==
    ASSUME TypeOK, EnabledInv, SeizeInv, NEW c \in Clients, NEW o, Open(c, o)
    PROVE  SeizeInv'
  <1>1. /\ opened' = [opened EXCEPT ![c] = TRUE] /\ misled' = MisledByOpen(c, o)
        /\ seizedClient' = IF Seizes(c, o) THEN c ELSE seizedClient
        /\ seized' = [d \in Clients |-> IF d = c THEN ~Accepts(c)
                                        ELSE seized[d] \/ d \in RequestingClose(c, o)]
        /\ valid' = [d \in Clients |-> IF d = c /\ Accepts(c) THEN TRUE
                                       ELSE valid[d] /\ d \notin RequestingClose(c, o)]
    BY DEF Open
  <1>2. /\ opened \in [Clients -> BOOLEAN] /\ seized \in [Clients -> BOOLEAN]
        /\ valid \in [Clients -> BOOLEAN] /\ Nobody \notin Clients
    BY ClientsAssumption DEF TypeOK
  <1>3. CASE Seizes(c, o)
    <2>1. seizedClient' = c /\ c \notin misled' /\ Accepts(c)
      BY <1>1, <1>3 DEF MisledByOpen, Seizes, Accepts
    <2>2. ASSUME NEW d \in Clients \ misled', opened'[d]
          PROVE  /\ seized'[d] <=> d # c
                 /\ valid'[d] <=> d = c
      <3>1. d # c => d \in RequestingClose(c, o)
        BY <1>1, <1>2, <1>3, <2>2 DEF MisledByOpen, RequestingClose
      <3>2. c \notin RequestingClose(c, o)
        BY DEF RequestingClose
      <3>3. QED
        BY <1>1, <2>1, <3>1, <3>2
    <2>3. QED
      BY <1>1, <1>2, <2>1, <2>2 DEF SeizeInv, SeizeAgrees
  <1>4. CASE ~Seizes(c, o)
    <2>1. seizedClient' = seizedClient /\ RequestingClose(c, o) = {}
      BY <1>1, <1>4 DEF RequestingClose
    <2>2. misled' = {d \in misled : d = c => opened[c]}
      BY <1>1, <1>4 DEF MisledByOpen
    <2>3. seizedClient' # Nobody => opened'[seizedClient'] /\ seizedClient' \notin misled'
      BY <1>1, <1>2, <2>1, <2>2 DEF SeizeInv, TypeOK
    <2>4. ASSUME NEW d \in Clients \ misled', opened'[d]
          PROVE  /\ seized'[d] <=> seizedClient' \notin {Nobody, d}
                 /\ valid'[d] <=> ~seized'[d]
      <3>1. CASE d # c
        BY <1>1, <1>2, <2>1, <2>2, <2>4, <3>1 DEF SeizeInv, SeizeAgrees
      <3>2. CASE d = c
        <4>1. ~Accepts(c) => ~valid[c]
          BY <2>2, <2>4, <3>2 DEF SeizeInv, SeizeAgrees, EnabledInv, Accepts
        <4>2. QED
          BY <1>1, <1>2, <2>1, <3>2, <4>1 DEF Accepts
      <3>3. QED
        BY <3>1, <3>2
    <2>5. QED
      BY <2>3, <2>4 DEF SeizeInv, SeizeAgrees
  <1>5. QED
    BY <1>3, <1>4

\* The queues are enabled again of whoever heeds the close of the client that
\* has seized the device, and of whoever takes a refused one's for it.
LEMMA SeizeClose ==
    ASSUME TypeOK, EnabledInv, SeizeInv, NEW c \in Clients, Close(c)
    PROVE  SeizeInv'
  <1>1. /\ opened' = [opened EXCEPT ![c] = FALSE] /\ opened[c]
        /\ misled' = MisledByClose(c)
        /\ seizedClient' = IF seizedClient = c THEN Nobody ELSE seizedClient
        /\ seized' = [d \in Clients |-> seized[d] /\ d # c /\ d \notin WasClosed(c)]
        /\ valid' = [d \in Clients |->
                       d # c /\ (valid[d] \/ (opened[d] /\ d \in WasClosed(c)))]
    BY DEF Close, AfterClose
  <1>2. /\ opened \in [Clients -> BOOLEAN] /\ seized \in [Clients -> BOOLEAN]
        /\ valid \in [Clients -> BOOLEAN] /\ Nobody \notin Clients
        /\ seizedClient \in Clients \cup {Nobody}
    BY ClientsAssumption DEF TypeOK
  <1> SUFFICES /\ seizedClient' # Nobody => opened'[seizedClient'] /\ seizedClient' \notin misled'
               /\ \A d \in Clients \ misled' : opened'[d] =>
                    /\ seized'[d] <=> seizedClient' \notin {Nobody, d}
                    /\ valid'[d] <=> ~seized'[d]
    BY DEF SeizeInv, SeizeAgrees
  <1>3. CASE Accepts(c)
    <2>1. seizedClient' = Nobody
      BY <1>1, <1>3 DEF Accepts
    <2>2. ASSUME NEW d \in Clients \ misled', opened'[d]
          PROVE  ~seized'[d] /\ valid'[d]
      <3>1. d # c /\ opened[d]
        BY <1>1, <1>2, <2>2
      <3>2. d \in WasClosed(c) \/ (seizedClient = Nobody /\ d \notin misled)
        BY <1>1, <1>3, <2>2, <3>1 DEF MisledByClose, Accepts
      <3>3. QED
        BY <1>1, <3>1, <3>2 DEF SeizeInv, SeizeAgrees
    <2>3. QED
      BY <2>1, <2>2
  <1>4. CASE ~Accepts(c)
    <2>1. /\ seizedClient' = seizedClient /\ seizedClient \in Clients \ {c}
          /\ misled' = (misled \cup WasClosed(c)) \ {c, seizedClient}
      BY <1>1, <1>2, <1>4 DEF Accepts, MisledByClose
    <2>2. opened[seizedClient] /\ seizedClient \notin misled /\ seizedClient # Nobody
      BY <1>2, <2>1 DEF SeizeInv
    <2>3. ASSUME NEW d \in Clients \ misled', opened'[d]
          PROVE  /\ seized'[d] <=> d # seizedClient
                 /\ valid'[d] <=> ~seized'[d]
      <3>1. d # c /\ opened[d] /\ d \notin misled
        BY <1>1, <1>2, <2>1, <2>2, <2>3
      <3>2. (seized[d] <=> d # seizedClient) /\ (valid[d] <=> ~seized[d])
        BY <2>2, <3>1 DEF SeizeInv, SeizeAgrees
      <3>3. d = seizedClient \/ d \notin WasClosed(c)
        BY <2>1, <2>3, <3>1
      <3>4. QED
        BY <1>1, <3>1, <3>2, <3>3
    <2>4. QED
      BY <1>1, <1>2, <2>1, <2>2, <2>3
  <1>5. QED
    BY <1>3, <1>4

\* Every step keeps the queues as the messages left them.
LEMMA SeizeStep ==
    ASSUME TypeOK, EnabledInv, SeizeInv, [Next]_vars
    PROVE  SeizeInv'
  <1>1. CASE UNCHANGED <<deviceVars, misled>>
    BY <1>1 DEF deviceVars, SeizeInv, SeizeAgrees
  <1>2. QED
    BY <1>1, SeizeOpen, SeizeClose, DeviceStays DEF Opens

\* Only open clients' queues are ever enabled, and those of the clients that
\* are not seized always.
LEMMA EnabledHolds == Spec => []EnabledInv
  <1>1. Init => EnabledInv
    BY DEF Init, EnabledInv
  <1>2. TypeOK /\ EnabledInv /\ [Next]_vars => EnabledInv'
    BY EnabledStep
  <1>3. QED
    BY <1>1, <1>2, TypeCorrect, PTL DEF Spec

\* Whichever clients seize the device, and however often they open it: but for
\* those that a message has misled, exactly the queues of the others are shut
\* while one has it.
THEOREM SeizingShuts == Spec => []SeizeAgrees
  <1>1. Init => SeizeInv
    BY DEF Init, SeizeInv, SeizeAgrees
  <1>2. TypeOK /\ EnabledInv /\ SeizeInv /\ [Next]_vars => SeizeInv'
    BY SeizeStep
  <1>3. SeizeInv => SeizeAgrees
    BY DEF SeizeInv
  <1>4. QED
    BY <1>1, <1>2, <1>3, TypeCorrect, EnabledHolds, PTL DEF Spec

------------------------------------------------------------------------------
(* How threads move along the queues.                                      *)

\* Whose list a report is in it waits for, at one place.
LEMMA WaitsFacts ==
    ASSUME BaseInv, PlaceInv, NEW r \in Reports
    PROVE  /\ \A k : WaitsAt(r, k) => /\ Blocked(r) /\ k \in DOMAIN queueArray
                                      /\ k \in Nat \ {0} /\ k <= Len(queueArray)
                                      /\ index[r] = k \/ (k = Len(queueArray) /\ index[r] > k)
           /\ \A j, k : WaitsAt(r, j) /\ WaitsAt(r, k) => j = k
           /\ Blocked(r) => \E k \in DOMAIN queueArray : WaitsAt(r, k)
  <1>1. queueArray \in Seq(Clients) /\ IsInjective(queueArray)
    BY DEF BaseInv, TypeOK, PlaceInv
  <1>2. ASSUME NEW c \in Clients, NEW d \in Clients, r \in ToSet(fBlockedReports[c]),
               r \in ToSet(fBlockedReports[d])
        PROVE  c = d /\ Blocked(r)
    <2>1. PICK i \in DOMAIN fBlockedReports[c] : r = fBlockedReports[c][i]
      BY <1>2 DEF ToSet
    <2>2. PICK j \in DOMAIN fBlockedReports[d] : r = fBlockedReports[d][j]
      BY <1>2 DEF ToSet
    <2>3. c = d
      BY <2>1, <2>2 DEF BaseInv, ListInv
    <2>4. pc[r] \in IF i = 1 THEN {"asleep", "woken"} ELSE {"asleep"}
      BY <2>1 DEF BaseInv, ListInv
    <2>5. QED
      BY <2>3, <2>4 DEF Blocked
  <1>3. ASSUME NEW k, WaitsAt(r, k)
        PROVE  /\ Blocked(r) /\ k \in DOMAIN queueArray /\ queueArray[k] \in Clients
               /\ k \in Nat \ {0} /\ k <= Len(queueArray)
               /\ index[r] = k \/ (k = Len(queueArray) /\ index[r] > k)
    <2>1. k \in DOMAIN queueArray /\ queueArray[k] \in Clients /\ k \in Nat \ {0}
          /\ k <= Len(queueArray)
          /\ r \in ToSet(fBlockedReports[queueArray[k]])
      BY <1>1, <1>3 DEF WaitsAt
    <2>2. PICK m \in DOMAIN queueArray : /\ queueArray[m] = queueArray[k]
                                         /\ index[r] = m \/ (m = Len(queueArray) /\ index[r] > m)
      BY <2>1 DEF PlaceInv
    <2>3. m = k
      BY <1>1, <2>1, <2>2 DEF IsInjective
    <2>4. QED
      BY <1>2, <2>1, <2>2, <2>3
  <1>4. ASSUME NEW j, NEW k, WaitsAt(r, j), WaitsAt(r, k)
        PROVE  j = k
    BY <1>1, <1>2, <1>3, <1>4 DEF WaitsAt, IsInjective
  <1>5. ASSUME Blocked(r)
        PROVE  \E k \in DOMAIN queueArray : WaitsAt(r, k)
    <2>1. PICK c \in Clients : r \in ToSet(fBlockedReports[c])
      BY <1>5 DEF BaseInv, ListInv
    <2>2. QED
      BY <2>1 DEF PlaceInv, WaitsAt
  <1>6. QED
    BY <1>3, <1>4, <1>5

(* Nobody moves: who sleeps is woken, or who was woken sleeps again.       *)
NobodyMoves ==
  /\ UNCHANGED <<queueArray, fBlockedReports, index>>
  /\ \A r \in Reports : pc'[r] = pc[r] \/ (Blocked(r) /\ pc'[r] \in {"asleep", "woken"})

\* Only seven actions move a thread along the queues, or move the queues.
LEMMA Stays ==
    ASSUME BaseInv, [Next]_vars
    PROVE  \/ NobodyMoves /\ UNCHANGED elementValue
           \/ \E r \in Reports : HandleReport(r) \/ ReportHandled(r)
           \/ \E r \in Reports, c \in Clients :
                Enqueue(r, c) \/ Drop(r, c) \/ Block(r, c) \/ Retry(r, c) \/ GiveUp(r, c)
           \/ \E c \in Clients : DisposeQueue(c)
  <1>0. pc \in [Reports -> PCs] /\ fBlockedReports \in [Clients -> Seq(Reports)]
    BY DEF BaseInv, TypeOK, PCs
  <1>1. ASSUME NEW c \in Clients, Close(c) \/ ResumeReports(c)
        PROVE  NobodyMoves /\ UNCHANGED elementValue
    <2>1. UNCHANGED <<queueArray, fBlockedReports, index, elementValue>> /\ pc' = Woken(fBlockedReports[c])
      BY <1>1 DEF Close, ResumeReports, queueVars
    <2>2. QED
      BY <1>0, <2>1, WokenFacts DEF NobodyMoves, Blocked
  <1>2. ASSUME NEW c \in Clients,
               Opens(c) \/ CloseReturns(c) \/ ValueAvailable(c) \/ CopyNextValue(c)
               \/ SignalQueueEmpty(c)
        PROVE  NobodyMoves /\ UNCHANGED elementValue
    BY <1>2 DEF Opens, Open, CloseReturns, ValueAvailable, CopyNextValue, SignalQueueEmpty, queueVars,
                threadVars, NobodyMoves
  <1>3. ASSUME NEW r \in Reports, NEW c \in Clients, SleepAgain(r, c)
        PROVE  NobodyMoves /\ UNCHANGED elementValue
    BY <1>0, <1>3 DEF SleepAgain, GetsGate, NobodyMoves, Blocked
  <1>4. UNCHANGED vars => NobodyMoves /\ UNCHANGED elementValue
    BY DEF vars, queueVars, threadVars, NobodyMoves
  <1>5. QED
    BY <1>1, <1>2, <1>3, <1>4 DEF Next, Call, Opens, Run, WokenRuns, Read

\* Where nobody moves, everybody is where it was.
LEMMA StaysEffect ==
    ASSUME BaseInv, NobodyMoves
    PROVE  /\ \A r, k : WaitsAt(r, k)' <=> WaitsAt(r, k)
           /\ \A r \in Reports : /\ pc'[r] = "new" <=> pc[r] = "new"
                                 /\ pc'[r] = "run" <=> pc[r] = "run"
                                 /\ pc'[r] = "done" <=> pc[r] = "done"
                                 /\ Blocked(r)' <=> Blocked(r)
  BY DEF NobodyMoves, WaitsAt, Blocked

\* A thread that begins is at the first queue.
LEMMA HandleEffect ==
    ASSUME BaseInv, NEW r \in Reports, HandleReport(r)
    PROVE  /\ \A s, k : WaitsAt(s, k)' <=> WaitsAt(s, k)
           /\ pc[r] = "new" /\ pc' = [pc EXCEPT ![r] = "run"]
           /\ index' = [index EXCEPT ![r] = 1]
           /\ \A s \in Reports : pc[s] # "run"
           /\ UNCHANGED <<queueArray, fBlockedReports>>
  BY ClientsAssumption DEF BaseInv, HandleReport, GateInv, WaitsAt, queueVars

\* A thread that is done had no queue to come.
LEMMA HandledEffect ==
    ASSUME BaseInv, NEW r \in Reports, ReportHandled(r)
    PROVE  /\ \A s, k : WaitsAt(s, k)' <=> WaitsAt(s, k)
           /\ pc[r] = "run" /\ pc' = [pc EXCEPT ![r] = "done"] /\ UNCHANGED index
           /\ index[r] \notin DOMAIN queueArray
           /\ \A s \in Reports : pc[s] = "run" => s = r
           /\ UNCHANGED <<queueArray, fBlockedReports>>
  BY ClientsAssumption DEF BaseInv, ReportHandled, GateInv, WaitsAt, queueVars

\* A thread that goes on by itself is at the next queue.
LEMMA PassEffect ==
    ASSUME BaseInv, NEW r \in Reports, NEW c \in Clients, Enqueue(r, c) \/ Drop(r, c)
    PROVE  /\ \A s, k : WaitsAt(s, k)' <=> WaitsAt(s, k)
           /\ pc[r] = "run" /\ UNCHANGED pc /\ index' = [index EXCEPT ![r] = @ + 1]
           /\ index[r] \in DOMAIN queueArray /\ queueArray[index[r]] = c
           /\ \A s \in Reports : pc[s] = "run" => s = r
           /\ UNCHANGED <<queueArray, fBlockedReports>>
  BY ClientsAssumption DEF BaseInv, Enqueue, Drop, At, GoesOn, GateInv, WaitsAt

\* A thread that blocks is from then on at the last place of the list.
LEMMA BlockEffect ==
    ASSUME BaseInv, PlaceInv, NEW r \in Reports, NEW c \in Clients, Block(r, c)
    PROVE  /\ \A s, k : WaitsAt(s, k)' <=> WaitsAt(s, k) \/ (s = r /\ k = index[r])
           /\ pc[r] = "run" /\ pc' = [pc EXCEPT ![r] = "asleep"] /\ UNCHANGED index
           /\ index[r] \in DOMAIN queueArray /\ queueArray[index[r]] = c
           /\ \A s \in Reports : pc[s] = "run" => s = r
           /\ UNCHANGED queueArray
  <1>1. /\ pc[r] = "run" /\ pc' = [pc EXCEPT ![r] = "asleep"] /\ UNCHANGED <<index, queueArray>>
        /\ index[r] \in DOMAIN queueArray /\ queueArray[index[r]] = c
        /\ \A s \in Reports : pc[s] = "run" => s = r
        /\ fBlockedReports' = [fBlockedReports EXCEPT ![c] = Append(@, r)]
    BY ClientsAssumption DEF BaseInv, Block, At, GateInv
  <1>2. /\ fBlockedReports \in [Clients -> Seq(Reports)] /\ queueArray \in Seq(Clients)
        /\ IsInjective(queueArray)
    BY DEF BaseInv, TypeOK, PlaceInv
  <1>3. /\ ToSet(fBlockedReports'[c]) = ToSet(fBlockedReports[c]) \cup {r}
        /\ \A d \in Clients : d # c => fBlockedReports'[d] = fBlockedReports[d]
    BY <1>1, <1>2, AppendFacts
  <1>4. \A k \in DOMAIN queueArray : queueArray[k] \in Clients
        /\ (queueArray[k] = c => k = index[r])
    BY <1>1, <1>2 DEF IsInjective
  <1>5. \A s, k : WaitsAt(s, k)' <=> WaitsAt(s, k) \/ (s = r /\ k = index[r])
    BY <1>1, <1>3, <1>4 DEF WaitsAt
  <1>6. QED
    BY <1>1, <1>5

\* A thread that leaves a list is at the queue after it.
LEMMA LeaveEffect ==
    ASSUME BaseInv, PlaceInv, NEW r \in Reports, NEW c \in Clients, Retry(r, c) \/ GiveUp(r, c)
    PROVE  /\ \A s \in Reports : \A k : WaitsAt(s, k)' <=> WaitsAt(s, k) /\ s # r
           /\ \E k \in DOMAIN queueArray : queueArray[k] = c /\ WaitsAt(r, k)
           /\ pc'[r] = "run" /\ Blocked(r) /\ index' = [index EXCEPT ![r] = @ + 1]
           /\ \A s \in Reports : s # r =>
                pc'[s] = pc[s] \/ (Blocked(s) /\ pc'[s] \in {"asleep", "woken"})
           /\ \A s \in Reports : pc[s] # "run"
           /\ UNCHANGED queueArray
  <1>1. /\ UNCHANGED queueArray /\ index' = [index EXCEPT ![r] = @ + 1] /\ gate = Nobody
        /\ fBlockedReports' = [fBlockedReports EXCEPT ![c] = Tail(@)]
        /\ pc' = [Woken(Tail(fBlockedReports[c])) EXCEPT ![r] = "run"]
        /\ fBlockedReports[c] # <<>> /\ r = Head(fBlockedReports[c]) /\ pc[r] = "woken"
    BY DEF Retry, GiveUp, GetsGate, Leave, NextWoken, GoesOn
  <1>2. /\ fBlockedReports \in [Clients -> Seq(Reports)] /\ queueArray \in Seq(Clients)
        /\ pc \in [Reports -> PCs]
    BY DEF BaseInv, TypeOK, PCs
  <1>3. /\ ToSet(fBlockedReports'[c]) = ToSet(fBlockedReports[c]) \ {r}
        /\ r \in ToSet(fBlockedReports[c])
    BY <1>1, ListShrinks DEF BaseInv
  <1>4. ASSUME NEW s \in Reports, NEW k
        PROVE  WaitsAt(s, k)' <=> WaitsAt(s, k) /\ s # r
    <2>1. CASE k \in DOMAIN queueArray /\ queueArray[k] = c
      BY <1>1, <1>3, <2>1 DEF WaitsAt
    <2>2. CASE k \in DOMAIN queueArray /\ queueArray[k] # c
      <3>1. queueArray[k] \in Clients
            /\ fBlockedReports'[queueArray[k]] = fBlockedReports[queueArray[k]]
        BY <1>1, <1>2, <2>2
      <3>2. r \notin ToSet(fBlockedReports[queueArray[k]])
        <4>1. 1 \in DOMAIN fBlockedReports[c] /\ r = fBlockedReports[c][1]
          BY <1>1, <1>2, TailFacts
        <4>2. QED
          BY <2>2, <3>1, <4>1 DEF BaseInv, ListInv, ToSet
      <3>3. QED
        BY <1>1, <2>2, <3>1, <3>2 DEF WaitsAt
    <2>3. CASE k \notin DOMAIN queueArray
      BY <1>1, <2>3 DEF WaitsAt
    <2>4. QED
      BY <2>1, <2>2, <2>3
  <1>5. \E k \in DOMAIN queueArray : queueArray[k] = c /\ WaitsAt(r, k)
    BY <1>3 DEF PlaceInv, WaitsAt
  <1>6. /\ pc'[r] = "run" /\ Blocked(r)
        /\ \A s \in Reports : s # r =>
             pc'[s] = pc[s] \/ (Blocked(s) /\ pc'[s] \in {"asleep", "woken"})
    <2>1. Tail(fBlockedReports[c]) \in Seq(Reports)
      BY <1>1, <1>2, TailFacts
    <2>2. QED
      BY <1>1, <1>2, <2>1, WokenFacts, ZenonT(30) DEF Blocked
  <1>7. \A s \in Reports : pc[s] # "run"
    BY <1>1, ClientsAssumption DEF BaseInv, GateInv
  <1>8. QED
    BY <1>1, <1>4, <1>5, <1>6, <1>7

\* When a queue goes, only threads at later ones move up, and where none is
\* skipped these are at the last.
LEMMA DisposeEffect ==
    ASSUME BaseInv, WakeInv, PlaceInv, NoneSkipped, NEW c \in Clients, DisposeQueue(c)
    PROVE  \E i \in DOMAIN queueArray :
             /\ queueArray[i] = c /\ Len(queueArray) \in Nat /\ i \in 1..Len(queueArray)
             /\ queueArray' = RemoveAt(queueArray, i)
             /\ DOMAIN queueArray = 1..Len(queueArray)
             /\ Len(queueArray') = Len(queueArray) - 1
                /\ DOMAIN queueArray' = 1..(Len(queueArray) - 1)
             /\ \A k \in DOMAIN queueArray' :
                  queueArray'[k] = queueArray[IF k < i THEN k ELSE k + 1]
             /\ \A s, k : WaitsAt(s, k) => k < i \/ (k > i /\ k = Len(queueArray))
             /\ \A s, k : WaitsAt(s, k)' <=> /\ k \in 1..(Len(queueArray) - 1)
                                             /\ WaitsAt(s, IF k < i THEN k ELSE k + 1)
             /\ \A s \in Reports : pc[s] # "run"
             /\ UNCHANGED <<pc, index, fBlockedReports>>
  <1>1. PICK i \in DOMAIN queueArray :
               queueArray[i] = c /\ queueArray' = RemoveAt(queueArray, i)
    BY DEF DisposeQueue
  <1>2. queueArray \in Seq(Clients) /\ fBlockedReports \in [Clients -> Seq(Reports)]
    BY DEF BaseInv, TypeOK
  <1>3. /\ Len(queueArray) \in Nat /\ DOMAIN queueArray = 1..Len(queueArray)
        /\ Len(queueArray') = Len(queueArray) - 1 /\ DOMAIN queueArray' = 1..(Len(queueArray) - 1)
        /\ \A k \in DOMAIN queueArray' :
             queueArray'[k] = queueArray[IF k < i THEN k ELSE k + 1]
    BY <1>1, <1>2, RemoveAtFacts
  <1>4. fBlockedReports[c] = <<>>
    BY DEF DisposeQueue, WakeInv, CloserInv
  <1>5. UNCHANGED <<pc, index, fBlockedReports>> /\ gate = Nobody
    BY DEF DisposeQueue, queueVars, threadVars
  <1>6. ASSUME NEW s, NEW k, WaitsAt(s, k)
        PROVE  k < i \/ (k > i /\ k = Len(queueArray))
    <2>1. k \in DOMAIN queueArray /\ fBlockedReports[queueArray[k]] # <<>>
      BY <1>6 DEF WaitsAt, ToSet
    <2>2. k # i
      BY <1>1, <1>4, <2>1
    <2>3. ~(i < k /\ k < Len(queueArray))
      BY <1>1, <2>1 DEF NoneSkipped
    <2>4. QED
      BY <1>3, <2>1, <2>2, <2>3
  <1>7. \A s, k : WaitsAt(s, k)' <=> /\ k \in 1..(Len(queueArray) - 1)
                                     /\ WaitsAt(s, IF k < i THEN k ELSE k + 1)
    <2> SUFFICES ASSUME NEW s, NEW k
                 PROVE  WaitsAt(s, k)' <=> /\ k \in 1..(Len(queueArray) - 1)
                                           /\ WaitsAt(s, IF k < i THEN k ELSE k + 1)
      OBVIOUS
    <2>1. CASE k \in 1..(Len(queueArray) - 1)
      <3>1. (IF k < i THEN k ELSE k + 1) \in DOMAIN queueArray
        BY <1>3, <2>1
      <3>2. QED
        BY <1>3, <1>5, <2>1, <3>1 DEF WaitsAt
    <2>2. CASE k \notin 1..(Len(queueArray) - 1)
      BY <1>3, <2>2 DEF WaitsAt
    <2>3. QED
      BY <2>1, <2>2
  <1>8. \A s \in Reports : pc[s] # "run"
    BY <1>5, ClientsAssumption DEF BaseInv, GateInv
  <1>9. QED
    BY <1>1, <1>3, <1>5, <1>6, <1>7, <1>8

------------------------------------------------------------------------------
(* Delivery, if no element is overwritten and no queue is skipped.         *)

\* Reports begin in their order, and keep their elements.
LEMMA BeginStep ==
    ASSUME BaseInv, PlaceInv, BeginInv, ElementsKept, [Next]_vars
    PROVE  BeginInv'
  <1>0. /\ pc \in [Reports -> PCs] /\ index \in [Reports -> Nat]
        /\ elementValue \in [Cookies -> Reports \cup {Nobody}]
        /\ Reports = 1..MaxReports /\ MaxReports \in Nat
    BY ClientsAssumption DEF BaseInv, TypeOK, PCs, Reports
  <1>1. CASE NobodyMoves /\ UNCHANGED elementValue
    BY <1>1, <1>0 DEF NobodyMoves, BeginInv, Blocked
  <1>2. ASSUME NEW r \in Reports, HandleReport(r)
        PROVE  BeginInv'
    <2>1. /\ pc[r] = "new" /\ pc' = [pc EXCEPT ![r] = "run"]
          /\ index' = [index EXCEPT ![r] = 1] /\ \A s \in Reports : pc[s] # "run"
      BY <1>2, HandleEffect
    <2>2. /\ \A s \in 1..(r - 1) : pc[s] # "new"
          /\ elementValue' = [elementValue EXCEPT ![Cookie[r]] = r]
      BY <1>2 DEF HandleReport
    <2>3. ASSUME NEW s \in Reports, pc'[s] # "new"
          PROVE  index'[s] >= 1 /\ \A t \in 1..s : pc'[t] # "new"
      <3>1. CASE s = r
        BY <1>0, <2>1, <2>2, <3>1
      <3>2. CASE s # r
        BY <1>0, <2>1, <2>3, <3>2 DEF BeginInv
      <3>3. QED
        BY <3>1, <3>2
    <2>4. ASSUME NEW s \in Reports, pc'[s] \in {"run", "asleep", "woken"}
          PROVE  elementValue'[Cookie[s]] = s
      <3>1. Cookie[s] \in Cookies /\ Cookie[r] \in Cookies
        BY DEF Cookies
      <3>2. CASE s = r
        BY <1>0, <2>2, <3>1, <3>2
      <3>3. CASE s # r
        <4>1. Blocked(s) /\ Cookie[s] # Cookie[r]
          BY <1>0, <1>2, <2>1, <2>4, <3>3 DEF Blocked, ElementsKept
        <4>2. QED
          BY <1>0, <2>2, <3>1, <4>1 DEF BeginInv, Blocked
      <3>4. QED
        BY <3>2, <3>3
    <2>5. QED
      BY <2>3, <2>4 DEF BeginInv
  <1>3. ASSUME NEW r \in Reports, ReportHandled(r)
        PROVE  BeginInv'
    <2>1. UNCHANGED elementValue
      BY <1>3 DEF ReportHandled
    <2>2. QED
      BY <1>0, <1>3, <2>1, HandledEffect DEF BeginInv
  <1>4. ASSUME NEW r \in Reports, NEW c \in Clients, Enqueue(r, c) \/ Drop(r, c)
        PROVE  BeginInv'
    <2>1. UNCHANGED elementValue
      BY <1>4 DEF Enqueue, Drop
    <2>2. UNCHANGED pc /\ index' = [index EXCEPT ![r] = @ + 1]
      BY <1>4, PassEffect
    <2>3. QED
      BY <1>0, <2>1, <2>2 DEF BeginInv
  <1>5. ASSUME NEW r \in Reports, NEW c \in Clients, Block(r, c)
        PROVE  BeginInv'
    <2>1. UNCHANGED elementValue
      BY <1>5 DEF Block
    <2>2. UNCHANGED index /\ pc[r] = "run" /\ pc' = [pc EXCEPT ![r] = "asleep"]
      BY <1>5, BlockEffect
    <2>3. QED
      BY <1>0, <2>1, <2>2 DEF BeginInv
  <1>6. ASSUME NEW r \in Reports, NEW c \in Clients, Retry(r, c) \/ GiveUp(r, c)
        PROVE  BeginInv'
    <2>1. UNCHANGED elementValue
      BY <1>6 DEF Retry, GiveUp, Leave
    <2>2. /\ pc'[r] = "run" /\ Blocked(r) /\ index' = [index EXCEPT ![r] = @ + 1]
          /\ \A s \in Reports : s # r =>
               pc'[s] = pc[s] \/ (Blocked(s) /\ pc'[s] \in {"asleep", "woken"})
      BY <1>6, LeaveEffect
    <2>3. QED
      BY <1>0, <2>1, <2>2 DEF BeginInv, Blocked
  <1>7. ASSUME NEW c \in Clients, DisposeQueue(c)
        PROVE  BeginInv'
    BY <1>7 DEF DisposeQueue, threadVars, BeginInv
  <1>8. QED
    BY <1>1, <1>2, <1>3, <1>4, <1>5, <1>6, <1>7, Stays

\* Who stays in its list, with its index, stays in its place.
LEMMA PlaceKept ==
    ASSUME PlaceInv, UNCHANGED queueArray,
           \A c \in Clients : \A r \in ToSet(fBlockedReports'[c]) :
             r \in ToSet(fBlockedReports[c]) /\ index'[r] = index[r]
    PROVE  PlaceInv'
  BY DEF PlaceInv

\* Threads in a list stay at its queue, also where a queue goes.
LEMMA PlaceStep ==
    ASSUME BaseInv, WakeInv, PlaceInv, NoneSkipped, [Next]_vars
    PROVE  PlaceInv'
  <1>0. /\ queueArray \in Seq(Clients) /\ index \in [Reports -> Nat]
        /\ fBlockedReports \in [Clients -> Seq(Reports)]
        /\ \A c \in Clients : ToSet(fBlockedReports[c]) \subseteq Reports
    BY DEF BaseInv, TypeOK, ToSet
  <1>1. CASE NobodyMoves
    BY <1>1 DEF NobodyMoves, PlaceInv
  <1>2. ASSUME NEW r \in Reports, HandleReport(r) \/ ReportHandled(r)
        PROVE  PlaceInv'
    <2>1. UNCHANGED <<queueArray, fBlockedReports>> /\ ~Blocked(r)
          /\ \A s \in Reports : s # r => index'[s] = index[s]
      BY <1>0, <1>2, HandleEffect, HandledEffect DEF Blocked
    <2>2. \A c \in Clients : r \notin ToSet(fBlockedReports[c])
      BY <2>1, WaitsFacts DEF PlaceInv, WaitsAt
    <2>3. ASSUME NEW d \in Clients, NEW s \in ToSet(fBlockedReports'[d])
          PROVE  s \in ToSet(fBlockedReports[d]) /\ index'[s] = index[s]
      <3>1. s \in ToSet(fBlockedReports[d]) /\ s \in Reports
        BY <1>0, <2>1
      <3>2. QED
        BY <1>0, <2>1, <2>2, <3>1
    <2>4. QED
      BY <2>1, <2>3, PlaceKept
  <1>3. ASSUME NEW r \in Reports, NEW c \in Clients, Enqueue(r, c) \/ Drop(r, c)
        PROVE  PlaceInv'
    <2>1. UNCHANGED <<queueArray, fBlockedReports>> /\ ~Blocked(r)
          /\ index' = [index EXCEPT ![r] = @ + 1]
      BY <1>3, PassEffect DEF Blocked
    <2>2. \A d \in Clients : r \notin ToSet(fBlockedReports[d])
      BY <2>1, WaitsFacts DEF PlaceInv, WaitsAt
    <2>3. ASSUME NEW d \in Clients, NEW s \in ToSet(fBlockedReports'[d])
          PROVE  s \in ToSet(fBlockedReports[d]) /\ index'[s] = index[s]
      <3>1. s \in ToSet(fBlockedReports[d]) /\ s \in Reports
        BY <1>0, <2>1
      <3>2. QED
        BY <1>0, <2>1, <2>2, <3>1
    <2>4. QED
      BY <2>1, <2>3, PlaceKept
  <1>4. ASSUME NEW r \in Reports, NEW c \in Clients, Block(r, c)
        PROVE  PlaceInv'
    <2>1. /\ UNCHANGED <<queueArray, index>>
          /\ index[r] \in DOMAIN queueArray /\ queueArray[index[r]] = c
      BY <1>4, BlockEffect
    <2>2. fBlockedReports' = [fBlockedReports EXCEPT ![c] = Append(@, r)]
      BY <1>4 DEF Block
    <2>3. /\ ToSet(fBlockedReports'[c]) = ToSet(fBlockedReports[c]) \cup {r}
          /\ \A d \in Clients : d # c => fBlockedReports'[d] = fBlockedReports[d]
      BY <1>0, <2>2, AppendFacts
    <2>4. ASSUME NEW d \in Clients, NEW s \in ToSet(fBlockedReports'[d])
          PROVE  \/ s \in ToSet(fBlockedReports[d])
                 \/ d = c /\ s = r
      BY <2>3
    <2>5. QED
      BY <2>1, <2>4 DEF PlaceInv
  <1>5. ASSUME NEW r \in Reports, NEW c \in Clients, Retry(r, c) \/ GiveUp(r, c)
        PROVE  PlaceInv'
    <2>1. /\ \A s \in Reports : \A k : WaitsAt(s, k)' <=> WaitsAt(s, k) /\ s # r
          /\ UNCHANGED queueArray /\ index' = [index EXCEPT ![r] = @ + 1]
      BY <1>5, LeaveEffect
    <2>2. /\ fBlockedReports' = [fBlockedReports EXCEPT ![c] = Tail(@)]
          /\ fBlockedReports[c] # <<>> /\ r = Head(fBlockedReports[c])
          /\ pc' = [Woken(Tail(fBlockedReports[c])) EXCEPT ![r] = "run"]
      BY <1>5 DEF Retry, GiveUp, GetsGate, Leave, NextWoken
    <2>3. ToSet(fBlockedReports'[c]) = ToSet(fBlockedReports[c]) \ {r}
      BY <2>2, ListShrinks DEF BaseInv
    <2>4. \A d \in Clients : d # c => r \notin ToSet(fBlockedReports[d])
      <3>1. 1 \in DOMAIN fBlockedReports[c] /\ r = fBlockedReports[c][1]
        BY <1>0, <2>2, TailFacts
      <3>2. QED
        BY <3>1 DEF BaseInv, ListInv, ToSet
    <2>5. \A d \in Clients : ToSet(fBlockedReports'[d]) = ToSet(fBlockedReports[d]) \ {r}
      BY <1>0, <2>2, <2>3, <2>4
    <2>6. ASSUME NEW d \in Clients, NEW s \in ToSet(fBlockedReports'[d])
          PROVE  s \in ToSet(fBlockedReports[d]) /\ index'[s] = index[s]
      <3>1. s \in ToSet(fBlockedReports[d]) /\ s \in Reports /\ s # r
        BY <1>0, <2>5
      <3>2. QED
        BY <1>0, <2>1, <3>1
    <2>7. QED
      BY <2>1, <2>6, PlaceKept
  <1>6. ASSUME NEW c \in Clients, DisposeQueue(c)
        PROVE  PlaceInv'
    <2>1. PICK i \in DOMAIN queueArray :
             /\ queueArray[i] = c /\ Len(queueArray) \in Nat /\ i \in 1..Len(queueArray)
             /\ DOMAIN queueArray = 1..Len(queueArray)
             /\ Len(queueArray') = Len(queueArray) - 1
                /\ DOMAIN queueArray' = 1..(Len(queueArray) - 1)
             /\ \A k \in DOMAIN queueArray' :
                  queueArray'[k] = queueArray[IF k < i THEN k ELSE k + 1]
             /\ \A s, k : WaitsAt(s, k) => k < i \/ (k > i /\ k = Len(queueArray))
             /\ UNCHANGED <<pc, index, fBlockedReports>>
      BY <1>6, DisposeEffect
    <2>2. IsInjective(queueArray')
      BY <2>1 DEF PlaceInv, IsInjective
    <2>3. ASSUME NEW d \in Clients, NEW r \in ToSet(fBlockedReports[d])
          PROVE  \E k \in DOMAIN queueArray' :
                   /\ queueArray'[k] = d
                   /\ index[r] = k \/ (k = Len(queueArray') /\ index[r] > k)
      <3>1. PICK k \in DOMAIN queueArray :
                /\ queueArray[k] = d
                /\ index[r] = k \/ (k = Len(queueArray) /\ index[r] > k)
        BY DEF PlaceInv
      <3>2. WaitsAt(r, k) /\ index[r] \in Nat
        BY <1>0, <3>1 DEF WaitsAt
      <3>3. CASE k < i
        BY <2>1, <3>1, <3>2, <3>3
      <3>4. CASE k > i /\ k = Len(queueArray)
        <4>1. k - 1 \in DOMAIN queueArray' /\ k - 1 = Len(queueArray') /\ ~(k - 1 < i)
          BY <2>1, <3>4
        <4>2. queueArray'[k - 1] = d
          BY <2>1, <3>1, <4>1
        <4>3. index[r] > k - 1
          BY <2>1, <3>1, <3>2
        <4>4. QED
          BY <4>1, <4>2, <4>3
      <3>5. QED
        BY <2>1, <3>2, <3>3, <3>4
    <2>4. QED
      BY <2>1, <2>2, <2>3 DEF PlaceInv
  <1>7. QED
    BY <1>1, <1>2, <1>3, <1>4, <1>5, <1>6, Stays

\* Reports become late, and cease to have somebody wait, in Open and Close only.
LEMMA LateFacts ==
    ASSUME TypeOK, [Next]_vars
    PROVE  /\ late \subseteq late' /\ late' \subseteq Reports
           /\ (\A c \in Clients : ~Opens(c) /\ ~Close(c)) =>
                UNCHANGED late /\ \A c \in Clients : Waits(c)' <=> Waits(c)
  <1>1. (\A c \in Clients : ~Opens(c) /\ ~Close(c)) => UNCHANGED <<late, deviceVars>>
    BY DEF Next, Call, Opens, Run, WokenRuns, Read, CloseReturns, DisposeQueue, HandleReport, Enqueue,
           Drop, Block, Retry, GiveUp, Leave, SleepAgain, ReportHandled, ValueAvailable,
           CopyNextValue, SignalQueueEmpty, ResumeReports, vars, historyVars
  <1>2. ASSUME NEW c \in Clients, Opens(c) \/ Close(c)
        PROVE  late \subseteq late' /\ late' \subseteq Reports
    <2>1. \A d \in Clients : ToSet(fBlockedReports[d]) \subseteq Reports
      BY DEF TypeOK, ToSet
    <2>2. NoLongerWait
      BY <1>2 DEF Opens, Open, Close
    <2>3. QED
      BY <2>1, <2>2 DEF NoLongerWait, TypeOK
  <1>3. UNCHANGED deviceVars => \A c \in Clients : Waits(c)' <=> Waits(c)
    BY DEF deviceVars, Waits, CanDropReport
  <1>4. late \subseteq Reports
    BY DEF TypeOK
  <1>5. QED
    BY <1>1, <1>2, <1>3, <1>4

\* Whoever goes on or sleeps at a queue has no earlier report waiting there,
\* and no later one, unless that report is late.
LEMMA NothingThere ==
    ASSUME BaseInv, PlaceInv, OrderInv, NEW r \in Reports, NEW c \in Clients, At(r, c),
           NEW s \in ToSet(fBlockedReports[c])
    PROVE  s < r \/ r \in late
  <1>1. s \in Reports /\ r \in Reports /\ pc[r] = "run" /\ index[r] \in DOMAIN queueArray
        /\ queueArray[index[r]] = c
    BY DEF BaseInv, TypeOK, ToSet, At, GateInv
  <1>2. WaitsAt(s, index[r]) /\ index[r] \in Nat
    BY <1>1 DEF WaitsAt, BaseInv, TypeOK
  <1>3. Blocked(s) /\ s # r
    BY <1>1, <1>2, WaitsFacts DEF Blocked
  <1>4. pc[s] # "new"
    BY <1>3 DEF Blocked
  <1>5. ~(r < s /\ r \notin late)
    BY <1>1, <1>2, <1>4 DEF OrderInv, NotBehind
  <1>6. s \in Int /\ r \in Int
    BY <1>1, ClientsAssumption DEF Reports
  <1>7. QED
    BY <1>3, <1>5, <1>6

\* The lists stay in order but for the late.
LEMMA LateStep ==
    ASSUME BaseInv, WakeInv, PlaceInv, OrderInv, LateInv, [Next]_vars
    PROVE  LateInv'
  <1>0. /\ fBlockedReports \in [Clients -> Seq(Reports)] /\ late \subseteq late'
        /\ opened \in [Clients -> BOOLEAN] /\ seized \in [Clients -> BOOLEAN]
        /\ bits \in [Clients -> SUBSET {"seize", "keep"}]
    BY LateFacts DEF BaseInv, TypeOK
  <1>1. ASSUME NEW c \in Clients, Opens(c) \/ Close(c)
        PROVE  LateInv'
    <2>1. UNCHANGED fBlockedReports /\ NoLongerWait
      BY <1>1 DEF Opens, Open, Close, queueVars
    <2>2. ASSUME NEW d \in Clients, NEW r \in ToSet(fBlockedReports[d])
          PROVE  r \in late' \/ Waits(d)'
      BY <2>1, <2>2 DEF NoLongerWait
    <2>3. QED
      BY <1>0, <2>1, <2>2 DEF LateInv
  <1>3. ASSUME NEW r \in Reports, NEW c \in Clients, Block(r, c)
        PROVE  LateInv'
    <2>1. /\ fBlockedReports' = [fBlockedReports EXCEPT ![c] = Append(@, r)]
          /\ Waits(c) /\ At(r, c) /\ UNCHANGED late /\ \A d \in Clients : Waits(d)' <=> Waits(d)
      BY <1>3 DEF Block, historyVars, deviceVars, Waits, CanDropReport
    <2> DEFINE n == Len(fBlockedReports[c]) + 1
    <2>2. /\ \A d \in Clients : d # c => fBlockedReports'[d] = fBlockedReports[d]
          /\ \A i \in DOMAIN fBlockedReports[c] : fBlockedReports'[c][i] = fBlockedReports[c][i]
          /\ fBlockedReports'[c][n] = r
          /\ DOMAIN fBlockedReports'[c] = DOMAIN fBlockedReports[c] \cup {n}
          /\ ToSet(fBlockedReports'[c]) = ToSet(fBlockedReports[c]) \cup {r}
      BY <1>0, <2>1, AppendFacts
    <2>3. \A i \in DOMAIN fBlockedReports[c] : i < n
      BY <1>0
    <2>4. ASSUME NEW d \in Clients, NEW s \in ToSet(fBlockedReports'[d])
          PROVE  s \in late' \/ Waits(d)'
      BY <2>1, <2>2, <2>4 DEF LateInv
    <2>5. ASSUME NEW d \in Clients, NEW i \in DOMAIN fBlockedReports'[d],
                 NEW j \in DOMAIN fBlockedReports'[d], i < j
          PROVE  fBlockedReports'[d][i] < fBlockedReports'[d][j] \/ fBlockedReports'[d][j] \in late'
      <3>1. CASE d # c
        BY <2>1, <2>2, <2>5, <3>1 DEF LateInv
      <3>2. CASE d = c /\ j # n
        <4>1. i \in DOMAIN fBlockedReports[c] /\ j \in DOMAIN fBlockedReports[c]
          BY <1>0, <2>2, <2>3, <2>5, <3>2
        <4>2. QED
          BY <2>1, <2>2, <2>5, <3>2, <4>1 DEF LateInv
      <3>3. CASE d = c /\ j = n
        <4>1. i \in DOMAIN fBlockedReports[c]
          BY <1>0, <2>2, <2>5, <3>3
        <4>2. fBlockedReports[c][i] \in ToSet(fBlockedReports[c])
          BY <4>1 DEF ToSet
        <4>3. fBlockedReports[c][i] < r \/ r \in late
          BY <2>1, <4>2, NothingThere
        <4>4. QED
          BY <2>1, <2>2, <3>3, <4>1, <4>3
      <3>4. QED
        BY <3>1, <3>2, <3>3
    <2>6. QED
      BY <2>4, <2>5 DEF LateInv
  <1>4. ASSUME NEW r \in Reports, NEW c \in Clients, Retry(r, c) \/ GiveUp(r, c)
        PROVE  LateInv'
    <2>1. /\ fBlockedReports' = [fBlockedReports EXCEPT ![c] = Tail(@)]
          /\ fBlockedReports[c] # <<>> /\ r = Head(fBlockedReports[c])
          /\ pc' = [Woken(Tail(fBlockedReports[c])) EXCEPT ![r] = "run"]
          /\ UNCHANGED late /\ \A d \in Clients : Waits(d)' <=> Waits(d)
      BY <1>4
         DEF Retry, GiveUp, GetsGate, Leave, NextWoken, historyVars, deviceVars, Waits,
             CanDropReport
    <2>2. ToSet(fBlockedReports'[c]) = ToSet(fBlockedReports[c]) \ {r}
      BY <2>1, ListShrinks DEF BaseInv
    <2>3. /\ \A d \in Clients : d # c => fBlockedReports'[d] = fBlockedReports[d]
          /\ \A i \in DOMAIN fBlockedReports'[c] :
               i + 1 \in DOMAIN fBlockedReports[c]
               /\ fBlockedReports'[c][i] = fBlockedReports[c][i + 1]
          /\ DOMAIN fBlockedReports'[c] \subseteq Nat
      BY <1>0, <2>1, TailFacts
    <2>4. ASSUME NEW d \in Clients, NEW s \in ToSet(fBlockedReports'[d])
          PROVE  s \in late' \/ Waits(d)'
      BY <2>1, <2>2, <2>3, <2>4 DEF LateInv
    <2>5. ASSUME NEW d \in Clients, NEW i \in DOMAIN fBlockedReports'[d],
                 NEW j \in DOMAIN fBlockedReports'[d], i < j
          PROVE  fBlockedReports'[d][i] < fBlockedReports'[d][j] \/ fBlockedReports'[d][j] \in late'
      <3>1. CASE d # c
        BY <2>1, <2>3, <2>5, <3>1 DEF LateInv
      <3>2. CASE d = c
        <4>1. i + 1 < j + 1
          BY <2>3, <2>5, <3>2
        <4>2. QED
          BY <2>1, <2>3, <3>2, <4>1 DEF LateInv
      <3>3. QED
        BY <3>1, <3>2
    <2>6. QED
      BY <2>4, <2>5 DEF LateInv
  <1>5. CASE UNCHANGED fBlockedReports /\ \A c \in Clients : ~Opens(c) /\ ~Close(c)
    <2>1. UNCHANGED late /\ \A d \in Clients : Waits(d)' <=> Waits(d)
      BY <1>5, LateFacts DEF BaseInv
    <2>2. QED
      BY <1>5, <2>1 DEF LateInv
  <1>6. \/ \E c \in Clients : Opens(c) \/ Close(c)
        \/ \E r \in Reports, c \in Clients : Block(r, c) \/ Retry(r, c) \/ GiveUp(r, c)
        \/ UNCHANGED fBlockedReports
    <2>1. \A r \in Reports : HandleReport(r) \/ ReportHandled(r) => UNCHANGED fBlockedReports
      BY DEF HandleReport, ReportHandled, queueVars
    <2>2. \A r \in Reports, c \in Clients : Enqueue(r, c) \/ Drop(r, c) => UNCHANGED fBlockedReports
      BY DEF Enqueue, Drop
    <2>3. \A c \in Clients : DisposeQueue(c) => UNCHANGED fBlockedReports
      BY DEF DisposeQueue, queueVars
    <2>4. QED
      BY <2>1, <2>2, <2>3, Stays DEF NobodyMoves
  <1>7. QED
    BY <1>1, <1>3, <1>4, <1>5, <1>6

\* Only the late fall behind a later report.
LEMMA OrderStep ==
    ASSUME BaseInv, WakeInv, PlaceInv, BeginInv, LateInv, OrderInv, NoneSkipped, [Next]_vars
    PROVE  OrderInv'
  <1>0. /\ pc \in [Reports -> PCs] /\ index \in [Reports -> Nat] /\ queueArray \in Seq(Clients)
        /\ late \subseteq late' /\ Reports \subseteq Int /\ \A i \in DOMAIN queueArray : i \in Nat
    <2>1. pc \in [Reports -> PCs] /\ index \in [Reports -> Nat] /\ queueArray \in Seq(Clients)
      BY DEF BaseInv, TypeOK, PCs
    <2>2. late \subseteq late'
      BY LateFacts DEF BaseInv
    <2>3. Reports \subseteq Int
      BY ClientsAssumption DEF Reports
    <2>4. QED
      BY <2>1, <2>2, <2>3
  <1> SUFFICES ASSUME NEW r \in Reports, NEW s \in Reports, s < r, s \notin late', pc'[r] # "new"
               PROVE  NotBehind(s, r)'
    BY DEF OrderInv
  <1> s # r /\ s \notin late
    BY <1>0
  <1>a. pc[r] # "new" => NotBehind(s, r) /\ pc[s] # "new"
    <2>1. s \in 1..r
      BY DEF Reports
    <2>2. QED
      BY <2>1 DEF OrderInv, BeginInv
  <1>1. CASE NobodyMoves
    <2>1. UNCHANGED <<queueArray, index>> /\ pc[r] # "new"
      BY <1>1, StaysEffect DEF NobodyMoves
    <2>2. QED
      BY <1>1, <1>a, <2>1, StaysEffect DEF NotBehind
  <1>2. ASSUME NEW t \in Reports, HandleReport(t)
        PROVE  NotBehind(s, r)'
    <2>1. /\ \A u, k : WaitsAt(u, k)' <=> WaitsAt(u, k)
          /\ pc[t] = "new" /\ pc' = [pc EXCEPT ![t] = "run"]
          /\ index' = [index EXCEPT ![t] = 1] /\ UNCHANGED queueArray
          /\ \A u \in Reports : pc[u] # "run"
      BY <1>2, HandleEffect
    <2>2. CASE r = t
      <3>1. pc'[r] = "run" /\ index'[r] = 1 /\ pc'[s] # "run" /\ ~Blocked(r)
        BY <1>0, <2>1, <2>2 DEF Blocked
      <3>2. \A k : ~WaitsAt(r, k)
        BY <3>1, WaitsFacts
      <3>3. \A i \in DOMAIN queueArray : 1 <= i
        BY <1>0
      <3>4. QED
        BY <2>1, <3>1, <3>2, <3>3 DEF NotBehind
    <2>3. CASE r # t
      <3>1. pc'[r] = pc[r] /\ pc[s] # "new" /\ s # t /\ pc'[s] = pc[s]
        BY <1>0, <1>a, <2>1, <2>3
      <3>2. QED
        BY <1>0, <1>a, <2>1, <2>3, <3>1 DEF NotBehind
    <2>4. QED
      BY <2>2, <2>3
  <1>3. ASSUME NEW t \in Reports, ReportHandled(t)
        PROVE  NotBehind(s, r)'
    <2>1. /\ \A u, k : WaitsAt(u, k)' <=> WaitsAt(u, k)
          /\ pc[t] = "run" /\ pc' = [pc EXCEPT ![t] = "done"] /\ UNCHANGED <<index, queueArray>>
          /\ index[t] \notin DOMAIN queueArray
          /\ \A u \in Reports : pc[u] = "run" => u = t
      BY <1>3, HandledEffect
    <2>2. NotBehind(s, r) /\ pc[s] # "new"
      BY <1>0, <1>a, <2>1
    <2>3. CASE r = t
      <3>1. ~Blocked(s)
        <4> SUFFICES ASSUME Blocked(s)
                     PROVE  FALSE
          OBVIOUS
        <4>1. PICK i \in DOMAIN queueArray : WaitsAt(s, i)
          BY WaitsFacts
        <4>2. index[r] <= i /\ index[r] >= 1 /\ index[r] \in Nat
          BY <1>0, <2>1, <2>2, <2>3, <4>1 DEF NotBehind, BeginInv
        <4>3. index[r] \in DOMAIN queueArray
          BY <1>0, <4>1, <4>2
        <4>4. QED
          BY <2>1, <2>3, <4>3
      <3>2. pc'[s] = "done"
        BY <1>0, <2>1, <2>2, <2>3, <3>1 DEF Blocked, PCs
      <3>3. \A k : ~WaitsAt(s, k) /\ pc'[s] # "run" /\ pc'[r] # "run"
        BY <1>0, <2>1, <2>3, <3>1, <3>2, WaitsFacts
      <3>4. QED
        BY <2>1, <3>2, <3>3 DEF NotBehind
    <2>4. CASE r # t
      <3>1. pc'[r] = pc[r] /\ (pc[s] = "done" => pc'[s] = "done")
            /\ (pc'[s] = "run" => pc[s] = "run")
        BY <1>0, <2>1, <2>4
      <3>2. QED
        BY <2>1, <2>2, <3>1 DEF NotBehind
    <2>5. QED
      BY <2>3, <2>4
  <1>4. ASSUME NEW t \in Reports, NEW c \in Clients, Enqueue(t, c) \/ Drop(t, c)
        PROVE  NotBehind(s, r)'
    <2>1. /\ \A u, k : WaitsAt(u, k)' <=> WaitsAt(u, k)
          /\ pc[t] = "run" /\ UNCHANGED <<pc, queueArray>> /\ index' = [index EXCEPT ![t] = @ + 1]
          /\ index[t] \in DOMAIN queueArray /\ queueArray[index[t]] = c
      BY <1>4, PassEffect
    <2>2. NotBehind(s, r)
      BY <1>a, <2>1
    <2>3. \A i \in DOMAIN queueArray : pc[r] = "run" /\ WaitsAt(s, i) => index'[r] <= i
      <3> SUFFICES ASSUME NEW i \in DOMAIN queueArray, pc[r] = "run", WaitsAt(s, i)
                   PROVE  index'[r] <= i
        OBVIOUS
      <3>1. index[r] <= i
        BY <2>2 DEF NotBehind
      <3>2. CASE r = t
        <4>1. ASSUME index[r] = i
              PROVE  FALSE
          <5>1. s \in ToSet(fBlockedReports[c]) /\ fBlockedReports[c] # <<>>
            BY <2>1, <3>2, <4>1 DEF WaitsAt, ToSet
          <5>2. MustWait(c)
            BY <5>1 DEF MustWait, BaseInv, TypeOK
          <5>3. Waits(c)
            BY <5>1 DEF LateInv
          <5>4. QED
            BY <1>4, <5>2, <5>3 DEF Enqueue, Drop
        <4>2. QED
          BY <1>0, <2>1, <3>1, <3>2, <4>1
      <3>3. CASE r # t
        BY <1>0, <2>1, <3>1, <3>3
      <3>4. QED
        BY <3>2, <3>3
    <2>4. index[s] \in Nat /\ (index'[s] = index[s] \/ index'[s] = index[s] + 1)
      BY <1>0, <2>1
    <2>5. \A j \in DOMAIN queueArray : pc[s] = "run" /\ WaitsAt(r, j) => j < index'[s]
      BY <1>0, <2>2, <2>4 DEF NotBehind
    <2>6. QED
      BY <2>1, <2>2, <2>3, <2>5 DEF NotBehind
  <1>5. ASSUME NEW t \in Reports, NEW c \in Clients, Block(t, c)
        PROVE  NotBehind(s, r)'
    <2>1. /\ \A u, k : WaitsAt(u, k)' <=> WaitsAt(u, k) \/ (u = t /\ k = index[t])
          /\ pc[t] = "run" /\ pc' = [pc EXCEPT ![t] = "asleep"] /\ UNCHANGED <<index, queueArray>>
          /\ index[t] \in DOMAIN queueArray
          /\ \A u \in Reports : pc[u] = "run" => u = t
      BY <1>5, BlockEffect
    <2>2. NotBehind(s, r)
      BY <1>0, <1>a, <2>1
    <2>3. \A u \in Reports : pc'[u] # "run" /\ (pc'[u] = "done" <=> pc[u] = "done")
      BY <1>0, <2>1
    <2>4. \A k : ~WaitsAt(t, k)
      BY <2>1, WaitsFacts DEF Blocked
    <2>5. ASSUME NEW i \in DOMAIN queueArray, NEW j \in DOMAIN queueArray,
                 WaitsAt(s, i)', WaitsAt(r, j)'
          PROVE  j <= i
      <3>1. CASE r = t
        BY <1>0, <2>1, <2>2, <2>4, <2>5, <3>1 DEF NotBehind
      <3>2. CASE s = t
        BY <1>0, <2>1, <2>2, <2>4, <2>5, <3>2 DEF NotBehind
      <3>3. CASE r # t /\ s # t
        BY <2>1, <2>2, <2>5, <3>3 DEF NotBehind
      <3>4. QED
        BY <3>1, <3>2, <3>3
    <2>6. QED
      BY <2>1, <2>2, <2>3, <2>5 DEF NotBehind
  <1>6. ASSUME NEW t \in Reports, NEW c \in Clients, Retry(t, c) \/ GiveUp(t, c)
        PROVE  NotBehind(s, r)'
    <2>1. /\ \A u \in Reports : \A k : WaitsAt(u, k)' <=> WaitsAt(u, k) /\ u # t
          /\ pc'[t] = "run" /\ Blocked(t) /\ index' = [index EXCEPT ![t] = @ + 1]
          /\ \A u \in Reports : u # t =>
               pc'[u] = pc[u] \/ (Blocked(u) /\ pc'[u] \in {"asleep", "woken"})
          /\ \A u \in Reports : pc[u] # "run"
          /\ UNCHANGED queueArray
      BY <1>6, LeaveEffect
    <2>2. PICK k \in DOMAIN queueArray : queueArray[k] = c /\ WaitsAt(t, k)
      BY <1>6, LeaveEffect
    <2>3. /\ index[t] = k \/ (k = Len(queueArray) /\ index[t] > k)
          /\ index'[t] = index[t] + 1 /\ index[t] \in Nat
          /\ \A u \in Reports : \A j : WaitsAt(u, j) => j \in Nat /\ j <= Len(queueArray)
      BY <1>0, <2>1, <2>2, WaitsFacts
    <2>4. pc[r] # "new" /\ NotBehind(s, r) /\ pc[s] # "new"
      BY <1>a, <2>1 DEF Blocked
    <2>5. \A u \in Reports : /\ pc'[u] = "run" => u = t
                             /\ pc'[u] = "done" <=> pc[u] = "done"
      BY <1>0, <2>1 DEF Blocked
    <2>6. ASSUME NEW i \in DOMAIN queueArray, pc'[r] = "run", WaitsAt(s, i)'
          PROVE  index'[r] <= i
      <3>1. r = t /\ WaitsAt(s, i) /\ s # t
        BY <2>1, <2>5, <2>6
      <3>2. k <= i
        BY <2>2, <2>4, <3>1 DEF NotBehind
      <3>3. k # i
        <4> SUFFICES ASSUME k = i
                     PROVE  FALSE
          OBVIOUS
        <4>1. s \in ToSet(fBlockedReports[c])
          BY <2>2, <3>1 DEF WaitsAt
        <4>2. PICK j \in DOMAIN fBlockedReports[c] : s = fBlockedReports[c][j]
          BY <4>1 DEF ToSet
        <4>3. /\ 1 \in DOMAIN fBlockedReports[c] /\ t = fBlockedReports[c][1]
              /\ j \in Nat \ {0}
          BY <1>6, TailFacts DEF Retry, GiveUp, GetsGate, BaseInv, TypeOK
        <4>4. 1 < j
          BY <3>1, <4>2, <4>3
        <4>5. t < s \/ s \in late
          BY <4>2, <4>3, <4>4 DEF LateInv
        <4>6. QED
          BY <1>0, <3>1, <4>5
      <3>4. k < i /\ i <= Len(queueArray) /\ Len(queueArray) \in Nat
        BY <1>0, <2>3, <3>1, <3>2, <3>3
      <3>5. QED
        BY <1>0, <2>3, <3>1, <3>4
    <2>7. ASSUME NEW j \in DOMAIN queueArray, pc'[s] = "run", WaitsAt(r, j)'
          PROVE  j < index'[s]
      <3>1. s = t /\ WaitsAt(r, j) /\ WaitsAt(s, k)
        BY <2>1, <2>2, <2>5, <2>7
      <3>2. j <= k
        BY <2>2, <2>4, <3>1 DEF NotBehind
      <3>3. QED
        BY <1>0, <2>3, <3>1, <3>2
    <2>8. ASSUME NEW i \in DOMAIN queueArray, NEW j \in DOMAIN queueArray,
                 WaitsAt(s, i)', WaitsAt(r, j)'
          PROVE  j <= i
      BY <2>1, <2>4, <2>8 DEF NotBehind
    <2>9. QED
      BY <2>1, <2>4, <2>5, <2>6, <2>7, <2>8 DEF NotBehind
  <1>7. ASSUME NEW c \in Clients, DisposeQueue(c)
        PROVE  NotBehind(s, r)'
    <2>1. PICK m \in DOMAIN queueArray :
             /\ Len(queueArray) \in Nat /\ m \in 1..Len(queueArray)
             /\ DOMAIN queueArray = 1..Len(queueArray)
             /\ DOMAIN queueArray' = 1..(Len(queueArray) - 1)
             /\ \A u, k : WaitsAt(u, k)' <=> /\ k \in 1..(Len(queueArray) - 1)
                                             /\ WaitsAt(u, IF k < m THEN k ELSE k + 1)
             /\ \A u \in Reports : pc[u] # "run"
             /\ UNCHANGED <<pc, index>>
      BY <1>7, DisposeEffect
    <2>2. NotBehind(s, r)
      BY <1>a, <2>1
    <2>3. ASSUME NEW i \in DOMAIN queueArray', NEW j \in DOMAIN queueArray',
                 WaitsAt(s, i)', WaitsAt(r, j)'
          PROVE  j <= i
      <3> DEFINE Old(k) == IF k < m THEN k ELSE k + 1
      <3>1. /\ Old(i) \in DOMAIN queueArray /\ WaitsAt(s, Old(i))
            /\ Old(j) \in DOMAIN queueArray /\ WaitsAt(r, Old(j))
        BY <2>1, <2>3
      <3>2. Old(j) <= Old(i)
        BY <2>2, <3>1 DEF NotBehind
      <3>3. i \in Int /\ j \in Int /\ m \in Int
        BY <2>1
      <3>4. QED
        BY <3>2, <3>3
    <2>4. QED
      BY <2>1, <2>2, <2>3 DEF NotBehind
  <1>8. QED
    BY <1>1, <1>2, <1>3, <1>4, <1>5, <1>6, <1>7, Stays

\* What a client has got only grows, and only by what is put into its queue.
LEMMA GotFacts ==
    ASSUME BaseInv, BeginInv, [Next]_vars, NEW c \in Clients
    PROVE  /\ Got(c) \in Seq(Reports)
           /\ \/ Got(c)' = Got(c)
              \/ \E r \in Reports : /\ Enqueue(r, c) \/ Retry(r, c)
                                    /\ Got(c)' = Append(Got(c), r)
           /\ \A r \in Reports : (Enqueue(r, c) \/ Retry(r, c)) /\ valid[c] =>
                Got(c)' = Append(Got(c), r)
  <1>0. /\ received \in [Clients -> Seq(Reports)] /\ ring \in [Clients -> Seq(Reports)]
        /\ received[c] \in Seq(Reports) /\ ring[c] \in Seq(Reports)
    BY DEF BaseInv, TypeOK
  <1>1. Got(c) \in Seq(Reports)
    BY <1>0, StoreFacts DEF Got
  <1>2. ASSUME NEW r \in Reports, NEW d \in Clients, Enqueue(r, d) \/ Retry(r, d)
        PROVE  /\ d # c \/ ~valid[d] => Got(c)' = Got(c)
               /\ d = c /\ valid[d] => Got(c)' = Append(Got(c), r)
    <2>1. Stored(d, r) /\ UNCHANGED received /\ elementValue[Cookie[r]] = r
      BY <1>2 DEF Enqueue, Retry, Leave, GetsGate, At, appVars, BaseInv, GateInv, BeginInv
    <2>2. CASE d # c \/ ~valid[d]
      BY <1>0, <2>1, <2>2 DEF Stored, Got
    <2>3. CASE d = c /\ valid[d]
      <3>1. ring'[c] = Append(ring[c], r) /\ received'[c] = received[c]
        BY <1>0, <2>1, <2>3 DEF Stored
      <3>2. QED
        BY <1>0, <2>3, <3>1, StoreFacts DEF Got
    <2>4. QED
      BY <2>2, <2>3
  <1>3. ASSUME NEW d \in Clients, CopyNextValue(d)
        PROVE  Got(c)' = Got(c)
    <2>1. CASE ring[d] = <<>> \/ d # c
      BY <1>0, <1>3, <2>1 DEF CopyNextValue, Got
    <2>2. CASE ring[d] # <<>> /\ d = c
      <3>1. received'[c] = Append(received[c], Head(ring[c])) /\ ring'[c] = Tail(ring[c])
        BY <1>0, <1>3, <2>2 DEF CopyNextValue
      <3>2. QED
        BY <1>0, <2>2, <3>1, ReadFacts DEF Got
    <2>3. QED
      BY <2>1, <2>2
  <1>4. UNCHANGED <<received, ring>> => Got(c)' = Got(c)
    BY DEF Got
  <1>5. \/ \E r \in Reports, d \in Clients : Enqueue(r, d) \/ Retry(r, d)
        \/ \E d \in Clients : CopyNextValue(d)
        \/ UNCHANGED <<received, ring>>
    BY ZenonT(30)
       DEF Next, Call, Run, WokenRuns, Read, Open, Close, CloseReturns, DisposeQueue,
           HandleReport,
           Drop, Block, GiveUp, Leave, SleepAgain, ReportHandled, ValueAvailable,
           SignalQueueEmpty, ResumeReports, vars, queueVars, appVars
  <1>6. QED
    BY <1>1, <1>2, <1>3, <1>4, <1>5

\* Who is past a queue stays so.
LEMMA PastStays ==
    ASSUME BaseInv, PlaceInv, [Next]_vars, \A c \in Clients : ~DisposeQueue(c),
           NEW r \in Reports, NEW k \in DOMAIN queueArray, Past(r, k)
    PROVE  Past(r, k)'
  <1>0. /\ pc \in [Reports -> PCs] /\ index \in [Reports -> Nat] /\ queueArray \in Seq(Clients)
        /\ k \in Nat
    <2>1. pc \in [Reports -> PCs] /\ index \in [Reports -> Nat] /\ queueArray \in Seq(Clients)
      BY DEF BaseInv, TypeOK, PCs
    <2>2. QED
      BY <2>1
  <1>1. CASE NobodyMoves
    BY <1>1, StaysEffect DEF NobodyMoves, Past
  <1>2. ASSUME NEW t \in Reports, HandleReport(t)
        PROVE  Past(r, k)'
    <2>1. /\ \A u, j : WaitsAt(u, j)' <=> WaitsAt(u, j)
          /\ pc[t] = "new" /\ pc' = [pc EXCEPT ![t] = "run"]
          /\ index' = [index EXCEPT ![t] = 1] /\ UNCHANGED queueArray
      BY <1>2, HandleEffect
    <2>2. r # t
      BY <2>1, WaitsFacts DEF Past, Blocked
    <2>3. QED
      BY <1>0, <2>1, <2>2 DEF Past
  <1>3. ASSUME NEW t \in Reports, ReportHandled(t)
        PROVE  Past(r, k)'
    <2>1. /\ \A u, j : WaitsAt(u, j)' <=> WaitsAt(u, j)
          /\ pc' = [pc EXCEPT ![t] = "done"] /\ UNCHANGED <<index, queueArray>>
      BY <1>3, HandledEffect
    <2>2. QED
      BY <1>0, <2>1 DEF Past
  <1>4. ASSUME NEW t \in Reports, NEW c \in Clients, Enqueue(t, c) \/ Drop(t, c)
        PROVE  Past(r, k)'
    <2>1. /\ \A u, j : WaitsAt(u, j)' <=> WaitsAt(u, j)
          /\ UNCHANGED <<pc, queueArray>> /\ index' = [index EXCEPT ![t] = @ + 1]
      BY <1>4, PassEffect
    <2>2. index'[r] >= index[r] /\ index[r] \in Nat /\ index'[r] \in Nat
      BY <1>0, <2>1
    <2>3. QED
      BY <1>0, <2>1, <2>2 DEF Past
  <1>5. ASSUME NEW t \in Reports, NEW c \in Clients, Block(t, c)
        PROVE  Past(r, k)'
    <2>1. /\ \A u, j : WaitsAt(u, j)' <=> WaitsAt(u, j) \/ (u = t /\ j = index[t])
          /\ pc[t] = "run" /\ pc' = [pc EXCEPT ![t] = "asleep"] /\ UNCHANGED <<index, queueArray>>
          /\ index[t] \in DOMAIN queueArray
      BY <1>5, BlockEffect
    <2>2. CASE r = t
      <3>1. WaitsAt(r, index[r])' /\ index[r] \in DOMAIN queueArray'
        BY <2>1, <2>2
      <3>2. index[r] > k \/ \E j \in DOMAIN queueArray : j > k /\ WaitsAt(r, j)'
        BY <2>1, <2>2 DEF Past
      <3>3. QED
        BY <2>1, <3>1, <3>2 DEF Past
    <2>3. CASE r # t
      BY <1>0, <2>1, <2>3 DEF Past
    <2>4. QED
      BY <2>2, <2>3
  <1>6. ASSUME NEW t \in Reports, NEW c \in Clients, Retry(t, c) \/ GiveUp(t, c)
        PROVE  Past(r, k)'
    <2>1. /\ \A u \in Reports : \A j : WaitsAt(u, j)' <=> WaitsAt(u, j) /\ u # t
          /\ pc'[t] = "run" /\ Blocked(t) /\ index' = [index EXCEPT ![t] = @ + 1]
          /\ \A u \in Reports : u # t =>
               pc'[u] = pc[u] \/ (Blocked(u) /\ pc'[u] \in {"asleep", "woken"})
          /\ \A u \in Reports : pc[u] # "run"
          /\ UNCHANGED queueArray
      BY <1>6, LeaveEffect
    <2>2. CASE r = t
      <3>1. PICK j \in DOMAIN queueArray : j > k /\ WaitsAt(r, j)
        BY <2>1, <2>2 DEF Past, Blocked
      <3>2. index[r] >= j /\ j \in Nat /\ index[r] \in Nat /\ index'[r] = index[r] + 1
        BY <1>0, <2>1, <2>2, <3>1, WaitsFacts
      <3>3. QED
        BY <1>0, <2>1, <2>2, <3>1, <3>2 DEF Past
    <2>3. CASE r # t
      BY <1>0, <2>1, <2>3 DEF Past, Blocked
    <2>4. QED
      BY <2>2, <2>3
  <1>7. QED
    BY <1>1, <1>2, <1>3, <1>4, <1>5, <1>6, Stays

\* A report that has still to come to a queue is not past it until it has been there.
LEMMA NotYetStays ==
    ASSUME BaseInv, PlaceInv, BeginInv, [Next]_vars, \A c \in Clients : ~DisposeQueue(c),
           NEW r \in Reports, NEW k \in DOMAIN queueArray, NotYet(r, k)
    PROVE  \/ NotYet(r, k)'
           \/ Enqueue(r, queueArray[k]) \/ Retry(r, queueArray[k])
           \/ Drop(r, queueArray[k]) \/ GiveUp(r, queueArray[k])
  <1>0. /\ pc \in [Reports -> PCs] /\ index \in [Reports -> Nat] /\ queueArray \in Seq(Clients)
        /\ k \in Nat /\ k <= Len(queueArray) /\ Len(queueArray) \in Nat
    <2>1. pc \in [Reports -> PCs] /\ index \in [Reports -> Nat] /\ queueArray \in Seq(Clients)
      BY DEF BaseInv, TypeOK, PCs
    <2>2. QED
      BY <2>1
  <1>1. CASE NobodyMoves
    BY <1>1, StaysEffect DEF NobodyMoves, NotYet
  <1>2. ASSUME NEW t \in Reports, HandleReport(t)
        PROVE  NotYet(r, k)'
    <2>1. /\ \A u, j : WaitsAt(u, j)' <=> WaitsAt(u, j)
          /\ UNCHANGED queueArray /\ \A u \in Reports : pc[u] # "run"
      BY <1>2, HandleEffect
    <2>2. QED
      BY <2>1 DEF NotYet
  <1>3. ASSUME NEW t \in Reports, ReportHandled(t)
        PROVE  NotYet(r, k)'
    <2>1. /\ \A u, j : WaitsAt(u, j)' <=> WaitsAt(u, j)
          /\ pc' = [pc EXCEPT ![t] = "done"] /\ UNCHANGED <<index, queueArray>>
          /\ index[t] \notin DOMAIN queueArray /\ pc[t] = "run"
          /\ \A u \in Reports : pc[u] = "run" => u = t
      BY <1>3, HandledEffect
    <2>2. CASE pc[r] = "run" /\ index[r] <= k
      <3>1. r = t /\ index[r] >= 1 /\ index[r] \in Nat
        BY <1>0, <2>1, <2>2 DEF BeginInv
      <3>2. index[r] \in DOMAIN queueArray
        BY <1>0, <2>2, <3>1
      <3>3. QED
        BY <2>1, <3>1, <3>2
    <2>3. CASE \E j \in DOMAIN queueArray : j <= k /\ WaitsAt(r, j)
      BY <2>1, <2>3 DEF NotYet
    <2>4. QED
      BY <2>2, <2>3 DEF NotYet
  <1>4. ASSUME NEW t \in Reports, NEW c \in Clients, Enqueue(t, c) \/ Drop(t, c)
        PROVE  \/ NotYet(r, k)'
               \/ Enqueue(r, queueArray[k]) \/ Drop(r, queueArray[k])
    <2>1. /\ \A u, j : WaitsAt(u, j)' <=> WaitsAt(u, j)
          /\ UNCHANGED <<pc, queueArray>> /\ index' = [index EXCEPT ![t] = @ + 1]
          /\ queueArray[index[t]] = c
      BY <1>4, PassEffect
    <2>2. CASE r = t /\ index[r] = k
      BY <1>4, <2>1, <2>2
    <2>3. CASE r = t /\ index[r] # k
      <3>1. index'[r] = index[r] + 1 /\ index[r] \in Nat
        BY <1>0, <2>1, <2>3
      <3>2. QED
        BY <1>0, <2>1, <2>3, <3>1 DEF NotYet
    <2>4. CASE r # t
      BY <1>0, <2>1, <2>4 DEF NotYet
    <2>5. QED
      BY <2>2, <2>3, <2>4
  <1>5. ASSUME NEW t \in Reports, NEW c \in Clients, Block(t, c)
        PROVE  NotYet(r, k)'
    <2>1. /\ \A u, j : WaitsAt(u, j)' <=> WaitsAt(u, j) \/ (u = t /\ j = index[t])
          /\ UNCHANGED <<index, queueArray>> /\ index[t] \in DOMAIN queueArray
          /\ \A u \in Reports : pc[u] = "run" => u = t
      BY <1>5, BlockEffect
    <2>2. QED
      BY <2>1 DEF NotYet
  <1>6. ASSUME NEW t \in Reports, NEW c \in Clients, Retry(t, c) \/ GiveUp(t, c)
        PROVE  \/ NotYet(r, k)'
               \/ Retry(r, queueArray[k]) \/ GiveUp(r, queueArray[k])
    <2>1. /\ \A u \in Reports : \A j : WaitsAt(u, j)' <=> WaitsAt(u, j) /\ u # t
          /\ pc'[t] = "run" /\ index' = [index EXCEPT ![t] = @ + 1]
          /\ \A u \in Reports : pc[u] # "run"
          /\ UNCHANGED queueArray
      BY <1>6, LeaveEffect
    <2>2. PICK m \in DOMAIN queueArray : queueArray[m] = c /\ WaitsAt(t, m)
      BY <1>6, LeaveEffect
    <2>3. PICK j \in DOMAIN queueArray : j <= k /\ WaitsAt(r, j)
      BY <2>1 DEF NotYet
    <2>4. CASE r # t
      BY <2>1, <2>3, <2>4 DEF NotYet
    <2>5. CASE r = t
      <3>1. /\ j = m /\ j \in Nat
            /\ index[r] = j \/ (j = Len(queueArray) /\ index[r] > j)
        BY <2>2, <2>3, <2>5, WaitsFacts
      <3>2. CASE j = k
        BY <1>6, <2>2, <2>5, <3>1, <3>2
      <3>3. CASE j # k
        <4>1. index[r] = j /\ index'[r] = j + 1 /\ j + 1 <= k
          BY <1>0, <2>1, <2>3, <2>5, <3>1, <3>3
        <4>2. QED
          BY <2>1, <2>5, <4>1 DEF NotYet
      <3>4. QED
        BY <3>2, <3>3
    <2>6. QED
      BY <2>4, <2>5
  <1>7. QED
    BY <1>1, <1>2, <1>3, <1>4, <1>5, <1>6, Stays

\* Where a queue goes, the places of the others move with the threads.
LEMMA PlacesMove ==
    ASSUME BaseInv, WakeInv, PlaceInv, NoneSkipped, NEW c \in Clients, DisposeQueue(c)
    PROVE  \E i \in DOMAIN queueArray :
             /\ queueArray[i] = c /\ i \in Nat
             /\ \A k \in DOMAIN queueArray' :
                  /\ (IF k < i THEN k ELSE k + 1) \in DOMAIN queueArray
                  /\ queueArray'[k] = queueArray[IF k < i THEN k ELSE k + 1]
             /\ \A k \in DOMAIN queueArray : k # i =>
                  (IF k < i THEN k ELSE k - 1) \in DOMAIN queueArray'
             /\ \A r \in Reports, k \in DOMAIN queueArray' :
                  /\ Past(r, IF k < i THEN k ELSE k + 1) => Past(r, k)'
                  /\ NotYet(r, IF k < i THEN k ELSE k + 1) => NotYet(r, k)'
  <1>1. PICK i \in DOMAIN queueArray :
           /\ queueArray[i] = c /\ Len(queueArray) \in Nat /\ i \in 1..Len(queueArray)
           /\ DOMAIN queueArray = 1..Len(queueArray)
           /\ DOMAIN queueArray' = 1..(Len(queueArray) - 1)
           /\ \A k \in DOMAIN queueArray' :
                queueArray'[k] = queueArray[IF k < i THEN k ELSE k + 1]
           /\ \A s, k : WaitsAt(s, k) => k < i \/ (k > i /\ k = Len(queueArray))
           /\ \A s, k : WaitsAt(s, k)' <=> /\ k \in 1..(Len(queueArray) - 1)
                                           /\ WaitsAt(s, IF k < i THEN k ELSE k + 1)
           /\ \A s \in Reports : pc[s] # "run"
           /\ UNCHANGED <<pc, index>>
    BY DisposeEffect
  <1> DEFINE New(k) == IF k < i THEN k ELSE k - 1
             Old(k) == IF k < i THEN k ELSE k + 1
  <1>2. \A k \in DOMAIN queueArray' : Old(k) \in DOMAIN queueArray
    BY <1>1
  <1>3. \A k \in DOMAIN queueArray : k # i => New(k) \in DOMAIN queueArray'
    BY <1>1
  <1>4. ASSUME NEW r, NEW j \in DOMAIN queueArray, WaitsAt(r, j)
        PROVE  New(j) \in DOMAIN queueArray' /\ WaitsAt(r, New(j))'
    <2>1. j # i /\ j \in Nat /\ i \in Nat /\ New(j) \in DOMAIN queueArray'
      BY <1>1, <1>3, <1>4
    <2>2. Old(New(j)) = j
      BY <2>1
    <2>3. WaitsAt(r, New(j))' <=> New(j) \in 1..(Len(queueArray) - 1) /\ WaitsAt(r, Old(New(j)))
      BY <1>1
    <2>4. QED
      BY <1>1, <1>4, <2>1, <2>2, <2>3
  <1>5. ASSUME NEW r \in Reports, NEW k \in DOMAIN queueArray', Past(r, Old(k))
        PROVE  Past(r, k)'
    <2>1. CASE pc[r] = "done"
      BY <1>1, <2>1 DEF Past
    <2>2. ASSUME NEW j \in DOMAIN queueArray, j > Old(k), WaitsAt(r, j)
          PROVE  Past(r, k)'
      <3>1. New(j) > k
        BY <1>1, <2>2
      <3>2. QED
        BY <1>4, <2>2, <3>1 DEF Past
    <2>3. QED
      BY <1>1, <1>5, <2>1, <2>2 DEF Past
  <1>6. ASSUME NEW r \in Reports, NEW k \in DOMAIN queueArray', NotYet(r, Old(k))
        PROVE  NotYet(r, k)'
    <2>1. PICK j \in DOMAIN queueArray : j <= Old(k) /\ WaitsAt(r, j)
      BY <1>1, <1>6 DEF NotYet
    <2>2. New(j) <= k
      BY <1>1, <2>1
    <2>3. QED
      BY <1>4, <2>1, <2>2 DEF NotYet
  <1>7. QED
    BY <1>1, <1>2, <1>3, <1>5, <1>6

\* What is put into a queue comes after all that went into it before, unless
\* it is late, and was not put into it before.
LEMMA NewLast ==
    ASSUME BaseInv, PlaceInv, OrderInv, GotInv, NEW r \in Reports, NEW c \in Clients,
           Enqueue(r, c) \/ Retry(r, c), NEW g \in ToSet(Got(c)), g \in Reports
    PROVE  g # r /\ (g < r \/ r \in late)
  <1>0. /\ index \in [Reports -> Nat] /\ queueArray \in Seq(Clients)
        /\ \A t \in Reports : t \in Int
    BY DEF BaseInv, TypeOK, Reports
  <1>1. PICK k \in DOMAIN queueArray :
          /\ queueArray[k] = c
          /\ \/ pc[r] = "run" /\ index[r] = k /\ \A s \in Reports : pc[s] = "run" => s = r
             \/ WaitsAt(r, k) /\ \A s \in Reports : pc[s] # "run"
    BY PassEffect, LeaveEffect
  <1>2. Past(g, k)
    BY <1>1 DEF GotInv
  <1>3. k \in Nat
    BY <1>0
  <1>4. /\ WaitsAt(r, k) => Blocked(r) /\ \A j : WaitsAt(r, j) => j = k
        /\ pc[r] = "run" => \A j : ~WaitsAt(r, j)
    BY WaitsFacts DEF Blocked
  <1>5. g # r
    BY <1>0, <1>1, <1>2, <1>3, <1>4 DEF Past, Blocked
  <1>6. pc[g] # "new"
    BY <1>2, WaitsFacts DEF Past, Blocked
  <1>7. ASSUME r < g, r \notin late
        PROVE  FALSE
    <2>1. NotBehind(r, g)
      BY <1>6, <1>7 DEF OrderInv
    <2>2. CASE pc[g] = "done"
      BY <1>1, <1>4, <2>1, <2>2 DEF NotBehind, Blocked
    <2>3. CASE pc[g] = "run"
      BY <1>1, <1>5, <2>3
    <2>4. ASSUME NEW j \in DOMAIN queueArray, j > k, WaitsAt(g, j)
          PROVE  FALSE
      <3>1. j \in Nat
        BY <1>0
      <3>2. CASE pc[r] = "run" /\ index[r] = k
        BY <1>3, <2>1, <2>4, <3>1, <3>2 DEF NotBehind
      <3>3. CASE WaitsAt(r, k)
        BY <1>3, <2>1, <2>4, <3>1, <3>3 DEF NotBehind
      <3>4. QED
        BY <1>1, <3>2, <3>3
    <2>5. QED
      BY <1>2, <2>2, <2>3, <2>4 DEF Past
  <1>8. QED
    BY <1>0, <1>5, <1>7

\* What the clients have got stays in order but for the late.
LEMMA OrderedStep ==
    ASSUME BaseInv, PlaceInv, BeginInv, OrderInv, GotInv, Ordered, [Next]_vars
    PROVE  Ordered'
  <1>0. late \subseteq late'
    BY LateFacts DEF BaseInv
  <1> SUFFICES ASSUME NEW c \in Clients, NEW i \in DOMAIN Got(c)', NEW j \in DOMAIN Got(c)', i < j
               PROVE  Got(c)'[i] < Got(c)'[j] \/ Got(c)'[j] \in late' \ {Got(c)'[i]}
    BY DEF Ordered
  <1>1. CASE Got(c)' = Got(c)
    BY <1>0, <1>1 DEF Ordered
  <1>2. ASSUME NEW r \in Reports, Enqueue(r, c) \/ Retry(r, c), Got(c)' = Append(Got(c), r)
        PROVE  Got(c)'[i] < Got(c)'[j] \/ Got(c)'[j] \in late' \ {Got(c)'[i]}
    <2> DEFINE n == Len(Got(c)) + 1
    <2>1. Got(c) \in Seq(Reports)
      BY GotFacts
    <2>2. /\ \A k \in DOMAIN Got(c) : Got(c)'[k] = Got(c)[k] /\ Got(c)[k] \in Reports /\ k < n
          /\ Got(c)'[n] = r /\ DOMAIN Got(c)' = DOMAIN Got(c) \cup {n}
      BY <1>2, <2>1, AppendFacts
    <2>3. CASE j = n
      <3>1. i \in DOMAIN Got(c) /\ Got(c)[i] \in Reports /\ Got(c)[i] \in ToSet(Got(c))
        BY <2>1, <2>2, <2>3 DEF ToSet
      <3>2. Got(c)[i] # r /\ (Got(c)[i] < r \/ r \in late)
        BY <1>2, <3>1, NewLast
      <3>3. QED
        BY <1>0, <2>2, <2>3, <3>1, <3>2
    <2>4. CASE j # n
      <3>1. i \in DOMAIN Got(c) /\ j \in DOMAIN Got(c)
        BY <2>1, <2>2, <2>4
      <3>2. QED
        BY <1>0, <2>2, <3>1 DEF Ordered
    <2>5. QED
      BY <2>3, <2>4
  <1>3. QED
    BY <1>1, <1>2, GotFacts

\* What a client has got never comes to its queue again.
LEMMA GotStep ==
    ASSUME BaseInv, WakeInv, PlaceInv, BeginInv, GotInv, NoneSkipped, [Next]_vars
    PROVE  GotInv'
  <1>0. queueArray \in Seq(Clients) /\ index \in [Reports -> Nat]
    BY DEF BaseInv, TypeOK
  <1>1. \A c \in Clients : ToSet(Got(c)) \subseteq Reports
    BY GotFacts DEF ToSet
  <1>2. ASSUME NEW c \in Clients, DisposeQueue(c)
        PROVE  GotInv'
    <2>1. PICK i \in DOMAIN queueArray :
             /\ \A k \in DOMAIN queueArray' :
                  /\ (IF k < i THEN k ELSE k + 1) \in DOMAIN queueArray
                  /\ queueArray'[k] = queueArray[IF k < i THEN k ELSE k + 1]
             /\ \A r \in Reports, k \in DOMAIN queueArray' :
                  Past(r, IF k < i THEN k ELSE k + 1) => Past(r, k)'
      BY <1>2, PlacesMove
    <2>2. \A d \in Clients : Got(d)' = Got(d)
      BY <1>2 DEF DisposeQueue, queueVars, appVars, Got
    <2>3. ASSUME NEW k \in DOMAIN queueArray', NEW r \in ToSet(Got(queueArray[k]))'
          PROVE  Past(r, k)'
      <3> DEFINE old == IF k < i THEN k ELSE k + 1
      <3>1. old \in DOMAIN queueArray /\ queueArray'[k] = queueArray[old]
            /\ queueArray[old] \in Clients
        BY <1>0, <2>1
      <3>2. r \in ToSet(Got(queueArray[old]))
        <4>1. ring'[queueArray[old]] = ring[queueArray[old]]
              /\ received'[queueArray[old]] = received[queueArray[old]]
          BY <1>2 DEF DisposeQueue, queueVars, appVars
        <4>2. QED
          BY <2>3, <3>1, <4>1 DEF Got
      <3>3. Past(r, old) /\ r \in Reports
        BY <1>1, <3>1, <3>2 DEF GotInv
      <3>4. QED
        BY <2>1, <3>3
    <2>4. QED
      BY <2>3 DEF GotInv
  <1>3. ASSUME \A c \in Clients : ~DisposeQueue(c)
        PROVE  GotInv'
    <2>1. UNCHANGED queueArray
      BY <1>3, Stays, HandleEffect, HandledEffect, PassEffect, BlockEffect, LeaveEffect
      DEF NobodyMoves
    <2>2. ASSUME NEW k \in DOMAIN queueArray, NEW r \in ToSet(Got(queueArray[k]))'
          PROVE  Past(r, k)'
      <3>1. PICK c \in Clients : queueArray[k] = c
        BY <1>0
      <3>2. r \in ToSet(Got(c)')
        BY <2>1, <2>2, <3>1 DEF Got
      <3>3. CASE r \in ToSet(Got(c))
        <4>1. Past(r, k) /\ r \in Reports
          BY <1>1, <3>1, <3>3 DEF GotInv
        <4>2. QED
          BY <1>3, <4>1, PastStays
      <3>4. CASE r \notin ToSet(Got(c))
        <4>1. PICK t \in Reports : /\ Enqueue(t, c) \/ Retry(t, c)
                                   /\ Got(c)' = Append(Got(c), t)
          BY <3>1, <3>2, <3>4, GotFacts
        <4>2. r = t
          BY <3>1, <3>2, <3>4, <4>1, GotFacts, AppendFacts
        <4>3. pc'[r] = "run" /\ index'[r] = index[r] + 1
          BY <1>0, <3>1, <4>1, <4>2, PassEffect, LeaveEffect
        <4>4. PICK m \in DOMAIN queueArray : queueArray[m] = c /\ index[r] >= m
          <5>1. CASE Enqueue(r, c)
            BY <1>0, <3>1, <4>2, <5>1, PassEffect
          <5>2. CASE Retry(r, c)
            <6>1. PICK m \in DOMAIN queueArray : queueArray[m] = c /\ WaitsAt(r, m)
              BY <3>1, <4>2, <5>2, LeaveEffect
            <6>2. index[r] >= m
              BY <1>0, <4>2, <6>1, WaitsFacts
            <6>3. QED
              BY <6>1, <6>2
          <5>3. QED
            BY <4>1, <4>2, <5>1, <5>2
        <4>5. m = k
          BY <3>1, <4>4 DEF PlaceInv, IsInjective
        <4>6. QED
          BY <1>0, <4>2, <4>3, <4>4, <4>5 DEF Past
      <3>5. QED
        BY <3>3, <3>4
    <2>3. QED
      BY <2>1, <2>2 DEF GotInv
  <1>4. QED
    BY <1>2, <1>3

\* Who is owed a report keeps its reports and is open and not seized, and is
\* owed more with each report that begins.
LEMMA OwedFacts ==
    ASSUME TypeOK, OwedInv, [Next]_vars, NEW c \in Clients, owed'[c] # {}
    PROVE  /\ Waits(c)'
           /\ \/ owed'[c] = owed[c]
              \/ \E r \in Reports : /\ HandleReport(r) /\ Contains(queueArray, c)
                                    /\ owed'[c] = owed[c] \cup {r}
  <1>1. ASSUME NEW d \in Clients, Opens(d) \/ Close(d)
        PROVE  Waits(c)' /\ owed'[c] = owed[c]
    <2>1. NoLongerWait
      BY <1>1 DEF Opens, Open, Close
    <2>2. QED
      BY <2>1 DEF NoLongerWait
  <1>2. ASSUME NEW r \in Reports, HandleReport(r)
        PROVE  /\ Waits(c)'
               /\ \/ owed'[c] = owed[c]
                  \/ Contains(queueArray, c) /\ owed'[c] = owed[c] \cup {r}
    <2>1. UNCHANGED deviceVars
          /\ owed' = [e \in Clients |-> IF Waits(e) /\ Contains(queueArray, e)
                                        THEN owed[e] \cup {r} ELSE owed[e]]
      BY <1>2 DEF HandleReport
    <2>2. Waits(c)
      BY <2>1 DEF OwedInv
    <2>3. QED
      BY <2>1, <2>2 DEF deviceVars, Waits, CanDropReport
  <1>3. \/ \E d \in Clients : Opens(d) \/ Close(d)
        \/ \E r \in Reports : HandleReport(r)
        \/ UNCHANGED <<owed, deviceVars>>
    BY DEF Next, Call, Opens, Run, WokenRuns, Read, CloseReturns, DisposeQueue, Enqueue,
           Drop, Block, Retry, GiveUp, Leave, SleepAgain, ReportHandled, ValueAvailable,
           CopyNextValue, SignalQueueEmpty, ResumeReports, vars, historyVars
  <1>4. UNCHANGED <<owed, deviceVars>> => Waits(c)' /\ owed'[c] = owed[c]
    BY DEF OwedInv, deviceVars, Waits, CanDropReport
  <1>5. QED
    BY <1>1, <1>2, <1>3, <1>4

\* Who is owed a report has it, or the report has still to come.
LEMMA OwedStep ==
    ASSUME BaseInv, WakeInv, EnabledInv, PlaceInv, BeginInv, OwedInv, NoneSkipped, [Next]_vars
    PROVE  OwedInv'
  <1>0. /\ queueArray \in Seq(Clients) /\ index \in [Reports -> Nat]
        /\ owed \in [Clients -> SUBSET Reports]
    BY DEF BaseInv, TypeOK
  <1> SUFFICES ASSUME NEW c \in Clients, owed'[c] # {}
               PROVE  \E k \in DOMAIN queueArray' :
                        /\ queueArray'[k] = c
                        /\ \A r \in owed'[c] : r \in ToSet(Got(c)') \/ NotYet(r, k)'
    BY OwedFacts DEF OwedInv, BaseInv
  <1>1. ASSUME NEW r \in ToSet(Got(c))
        PROVE  r \in ToSet(Got(c)')
    <2>1. \A t \in Reports : ToSet(Append(Got(c), t)) = ToSet(Got(c)) \cup {t}
      BY GotFacts, AppendFacts
    <2>2. QED
      BY <1>1, <2>1, GotFacts
  <1>2. CASE owed'[c] = owed[c]
    <2>1. PICK k \in DOMAIN queueArray :
              /\ queueArray[k] = c
              /\ \A r \in owed[c] : r \in ToSet(Got(c)) \/ NotYet(r, k)
      BY <1>2 DEF OwedInv
    <2>2. Waits(c) /\ valid[c] /\ owed[c] \subseteq Reports
      BY <1>0, <1>2 DEF OwedInv, Waits, EnabledInv
    <2>3. ASSUME NEW d \in Clients, DisposeQueue(d)
          PROVE  \E m \in DOMAIN queueArray' :
                   /\ queueArray'[m] = c
                   /\ \A r \in owed[c] : r \in ToSet(Got(c)') \/ NotYet(r, m)'
      <3>1. PICK i \in DOMAIN queueArray :
                /\ queueArray[i] = d /\ i \in Nat
                /\ \A m \in DOMAIN queueArray' :
                     queueArray'[m] = queueArray[IF m < i THEN m ELSE m + 1]
                /\ \A m \in DOMAIN queueArray : m # i =>
                     (IF m < i THEN m ELSE m - 1) \in DOMAIN queueArray'
                /\ \A r \in Reports, m \in DOMAIN queueArray' :
                     NotYet(r, IF m < i THEN m ELSE m + 1) => NotYet(r, m)'
        BY <2>3, PlacesMove
      <3>2. k # i
        BY <2>1, <2>2, <2>3, <3>1 DEF DisposeQueue, Waits
      <3> DEFINE m == IF k < i THEN k ELSE k - 1
      <3>3. m \in DOMAIN queueArray' /\ k \in Nat
        BY <1>0, <3>1, <3>2
      <3>4. (IF m < i THEN m ELSE m + 1) = k
        BY <3>1, <3>2, <3>3
      <3> HIDE DEF m
      <3>5. queueArray'[m] = c
        BY <2>1, <3>1, <3>3, <3>4
      <3>6. \A r \in owed[c] : NotYet(r, k) => NotYet(r, m)'
        <4>1. \A r \in Reports : NotYet(r, IF m < i THEN m ELSE m + 1) => NotYet(r, m)'
          BY <3>1, <3>3
        <4>2. QED
          BY <2>2, <3>4, <4>1
      <3>7. QED
        BY <1>1, <2>1, <3>3, <3>5, <3>6
    <2>4. ASSUME \A d \in Clients : ~DisposeQueue(d)
          PROVE  /\ UNCHANGED queueArray
                 /\ \A r \in owed[c] : r \in ToSet(Got(c)') \/ NotYet(r, k)'
      <3>1. UNCHANGED queueArray
        BY <2>4, Stays, HandleEffect, HandledEffect, PassEffect, BlockEffect, LeaveEffect
        DEF NobodyMoves
      <3>2. ASSUME NEW r \in owed[c], NotYet(r, k)
            PROVE  r \in ToSet(Got(c)') \/ NotYet(r, k)'
        <4>1. r \in Reports
          BY <2>2
        <4>2. \/ NotYet(r, k)'
              \/ Enqueue(r, c) \/ Retry(r, c)
              \/ Drop(r, c) \/ GiveUp(r, c)
          BY <2>1, <2>4, <3>2, <4>1, NotYetStays
        <4>3. ~Drop(r, c) /\ ~GiveUp(r, c)
          BY <2>2 DEF Drop, GiveUp
        <4>4. CASE Enqueue(r, c) \/ Retry(r, c)
          <5>1. Got(c)' = Append(Got(c), r) /\ Got(c) \in Seq(Reports)
            BY <2>2, <4>1, <4>4, GotFacts
          <5>2. QED
            BY <4>1, <5>1, AppendFacts
        <4>5. QED
          BY <4>2, <4>3, <4>4
      <3>3. QED
        BY <1>1, <2>1, <3>1, <3>2
    <2>5. QED
      BY <1>2, <2>1, <2>3, <2>4
  <1>3. ASSUME NEW t \in Reports, HandleReport(t), Contains(queueArray, c),
               owed'[c] = owed[c] \cup {t}
        PROVE  \E k \in DOMAIN queueArray' :
                 /\ queueArray'[k] = c
                 /\ \A r \in owed'[c] : r \in ToSet(Got(c)') \/ NotYet(r, k)'
    <2>1. PICK k \in DOMAIN queueArray : queueArray[k] = c
      BY <1>0, <1>3 DEF Contains
    <2>2. /\ \A s, j : WaitsAt(s, j)' <=> WaitsAt(s, j)
          /\ pc' = [pc EXCEPT ![t] = "run"] /\ index' = [index EXCEPT ![t] = 1]
          /\ UNCHANGED queueArray /\ \A s \in Reports : pc[s] # "run"
      BY <1>3, HandleEffect
    <2>3. NotYet(t, k)'
      <3>1. pc'[t] = "run" /\ index'[t] = 1 /\ 1 <= k
        BY <1>0, <2>2 DEF BaseInv, TypeOK
      <3>2. QED
        BY <3>1 DEF NotYet
    <2>4. ASSUME NEW r \in owed[c]
          PROVE  r \in ToSet(Got(c)') \/ NotYet(r, k)'
      <3>1. PICK m \in DOMAIN queueArray :
                queueArray[m] = c /\ (r \in ToSet(Got(c)) \/ NotYet(r, m))
        BY <2>4 DEF OwedInv
      <3>2. m = k
        BY <2>1, <3>1 DEF PlaceInv, IsInjective
      <3>3. r \in Reports
        BY <1>0
      <3>4. NotYet(r, k) => NotYet(r, k)'
        BY <2>2, <3>3 DEF NotYet
      <3>5. QED
        BY <1>1, <3>1, <3>2, <3>4
    <2>5. QED
      BY <1>3, <2>1, <2>2, <2>3, <2>4
  <1>4. QED
    BY <1>2, <1>3, OwedFacts DEF BaseInv

\* A step that changes nothing overwrites and skips nothing.
LEMMA StutterUndisturbed ==
    ASSUME TypeOK, UNCHANGED vars
    PROVE  Undisturbed
  <1>1. UNCHANGED <<pc, queueArray>>
    BY DEF vars, threadVars
  <1>2. \A r \in Reports : ~HandleReport(r)
    BY <1>1 DEF HandleReport, TypeOK
  <1>3. ASSUME NEW c \in Clients, DisposeQueue(c)
        PROVE  FALSE
    <2>1. PICK i \in DOMAIN queueArray : queueArray' = RemoveAt(queueArray, i)
      BY <1>3 DEF DisposeQueue
    <2>2. Len(queueArray') = Len(queueArray) - 1 /\ Len(queueArray) \in Nat
      BY <2>1, RemoveAtFacts DEF TypeOK
    <2>3. QED
      BY <1>1, <2>2
  <1>4. QED
    BY <1>2, <1>3 DEF Undisturbed, ElementsKept, NoneSkipped

\* Every step that disturbs nothing keeps the order of delivery.
LEMMA DeliverStep ==
    ASSUME BaseInv, WakeInv, EnabledInv, DeliverInv, [Next]_vars, Undisturbed
    PROVE  DeliverInv'
  <1> USE DEF Undisturbed, DeliverInv
  <1>1. BeginInv'
    BY BeginStep
  <1>2. PlaceInv' /\ LateInv' /\ OrderInv'
    BY PlaceStep, LateStep, OrderStep
  <1>3. GotInv' /\ OwedInv' /\ Ordered'
    BY GotStep, OwedStep, OrderedStep
  <1>4. QED
    BY <1>1, <1>2, <1>3

\* At the start nothing is owed and nothing delivered.
LEMMA DeliverInit == Init => DeliverInv
  <1> SUFFICES ASSUME Init
               PROVE  DeliverInv
    OBVIOUS
  <1>1. \A c \in Clients : Got(c) = <<>> /\ ToSet(Got(c)) = {} /\ ToSet(fBlockedReports[c]) = {}
    BY DEF Init, Got, ToSet
  <1>2. BeginInv
    BY DEF Init, BeginInv
  <1>3. PlaceInv /\ LateInv
    <2>1. \A c \in Clients : fBlockedReports[c] = <<>>
      BY DEF Init
    <2>2. IsInjective(queueArray)
      BY ClientsAssumption DEF Init
    <2>3. QED
      BY <1>1, <2>1, <2>2 DEF PlaceInv, LateInv
  <1>4. OrderInv
    BY DEF Init, OrderInv
  <1>5. GotInv
    <2>1. \A k \in DOMAIN queueArray : queueArray[k] \in Clients
      BY ClientsAssumption DEF Init
    <2>2. QED
      BY <1>1, <2>1 DEF GotInv
  <1>6. OwedInv
    BY DEF Init, OwedInv
  <1>7. Ordered
    BY <1>1 DEF Ordered
  <1>8. QED
    BY <1>2, <1>3, <1>4, <1>5, <1>6, <1>7 DEF DeliverInv

\* What a client has got is in order, and what it is owed of the reports that
\* are done it has got.
LEMMA DeliveredIfInv ==
    ASSUME BaseInv, DeliverInv
    PROVE  DeliveredInOrder
  <1>1. ASSUME NEW c \in Clients, NEW r \in owed[c], pc[r] = "done"
        PROVE  Contains(Got(c), r)
    <2>1. r \in Reports
      BY DEF BaseInv, TypeOK
    <2>2. PICK k \in DOMAIN queueArray : r \in ToSet(Got(c)) \/ NotYet(r, k)
      BY DEF DeliverInv, OwedInv
    <2>3. ~NotYet(r, k)
      BY <1>1, <2>1, WaitsFacts DEF NotYet, Blocked, DeliverInv
    <2>4. Got(c) \in Seq(Reports)
      BY StoreFacts DEF BaseInv, TypeOK, Got
    <2>5. QED
      BY <2>2, <2>3, <2>4 DEF ToSet, Contains
  <1>2. \A c \in Clients : \A i, j \in DOMAIN Got(c) :
          i < j => Got(c)[i] < Got(c)[j] \/ Got(c)[j] \in late \ {Got(c)[i]}
    BY DEF DeliverInv, Ordered
  <1>3. QED
    BY <1>1, <1>2 DEF DeliveredInOrder, Got

\* Any number of clients gets the reports in order, each that keeps its
\* reports gets all, as long as no element is overwritten under a thread that
\* sleeps and no queue is skipped.
THEOREM DeliveredUndisturbed == Spec /\ [][Undisturbed]_vars => []DeliveredInOrder
  <1>1. Init => DeliverInv
    BY DeliverInit
  <1>2. BaseInv /\ WakeInv /\ EnabledInv /\ DeliverInv /\ [Next]_vars /\ [Undisturbed]_vars
          => DeliverInv'
    BY StutterUndisturbed, DeliverStep DEF BaseInv
  <1>3. BaseInv /\ DeliverInv => DeliveredInOrder
    BY DeliveredIfInv
  <1>4. QED
    BY <1>1, <1>2, <1>3, BaseHolds, WakeHolds, EnabledHolds, PTL DEF Spec
==============================================================================
