------------------------ MODULE HIDDeviceCommits_proofs ------------------------
(***************************************************************************)
(* What holds of HIDDeviceCommits for any requests with any numbers of     *)
(* reports.                                                                *)
(***************************************************************************)
EXTENDS HIDDeviceCommits, FiniteSetTheorems, TLAPS

Listing == {"unlocked", "calling", "accepted", "failed"}

(* The calls made that are not in the list but not completed either: the   *)
(* extra one, unless the call that is in the list has not been counted.    *)
Gap(q) == IF pc[q] \in {"new", "unlocked", "posted"} THEN 0 ELSE 1

CountsAgree(q) ==
  pc[q] # "refused" =>
    made[q] = completed[q] + Cardinality(Of(commitCalls, q)) + Gap(q)

(* Timer and termination have left the thread of q alone at its calls.     *)
Calm(q) == q \notin overtaken

(* How far the thread is.                                                  *)
ThreadAt(q) ==
  /\ pc[q] \in {"new", "refused", "allocated"} => index[q] = 0
  /\ pc[q] = "new" => context[q] = "none" /\ made[q] = 0
  /\ pc[q] = "allocated" => context[q] = "live" /\ made[q] = 1
  /\ pc[q] \in Listing => index[q] >= 1 /\ made[q] = index[q] + Gap(q)
  /\ pc[q] \in Listing \ {"accepted"} =>
       /\ <<q, index[q]>> \notin atDevice
       /\ Calm(q) => <<q, index[q]>> \in commitCalls
  /\ index[q] <= Reports[q] /\ made[q] <= Reports[q] + 1

(* How long the context lives, and how often the client is called back.    *)
ContextKept(q) ==
  /\ pc[q] \in Listing => context[q] = "live"
  /\ pc[q] = "posted" =>
       context[q] = IF Of(commitCalls, q) = {} THEN "freed" ELSE "live"
  /\ completions[q] = IF pc[q] = "posted" /\ Of(commitCalls, q) = {} THEN 1 ELSE 0

(* What the client is told.                                                *)
ClientTold(q) ==
  /\ status[q] = "success" => \A i \in 1..index[q] : <<q, i>> \in commitCalls \cup given
  /\ status[q] = "success" /\ pc[q] = "posted" => index[q] = Reports[q]
  /\ told[q] = "success" => /\ pc[q] = "posted" /\ index[q] = Reports[q]
                            /\ \A i \in 1..index[q] : <<q, i>> \in given

(* All that holds of one request: what the timer or the termination        *)
(* completes is no success, and the status never returns to it.            *)
KeptOf(q) == /\ CountsAgree(q) /\ ThreadAt(q) /\ ClientTold(q)
             /\ Calm(q) => ContextKept(q)
             /\ status[q] = "success" => Calm(q)

CommitInv ==
  /\ TypeOK
  /\ IsFiniteSet(commitCalls)
  /\ \A c \in commitCalls \cup atDevice : c[2] \in 1..index[c[1]]
  /\ \A q \in Requests : KeptOf(q)
  /\ touched \subseteq overtaken

------------------------------------------------------------------------------
(* Counting the calls of one request.                                      *)

Number(S, q) == Cardinality(Of(S, q))

LEMMA NumberType ==
  ASSUME NEW S, IsFiniteSet(S), NEW q
  PROVE  IsFiniteSet(Of(S, q)) /\ Number(S, q) \in Nat /\ (Number(S, q) = 0 <=> Of(S, q) = {})
<1>1. Of(S, q) \subseteq S
  BY DEF Of
<1>2. IsFiniteSet(Of(S, q))
  BY <1>1, FS_Subset
<1> QED BY <1>2, FS_CardinalityType, FS_EmptySet DEF Number

(* Calls apart from each other are counted apart.                          *)
LEMMA NumberUnion ==
  ASSUME NEW S, NEW T, IsFiniteSet(S), IsFiniteSet(T), S \cap T = {}, NEW q
  PROVE  Number(S \cup T, q) = Number(S, q) + Number(T, q)
<1>1. Of(S \cup T, q) = Of(S, q) \cup Of(T, q) /\ Of(S, q) \cap Of(T, q) = {}
  BY DEF Of
<1>2. IsFiniteSet(Of(S, q)) /\ IsFiniteSet(Of(T, q))
  BY NumberType
<1>3. Cardinality(Of(S, q) \cup Of(T, q)) =
        Cardinality(Of(S, q)) + Cardinality(Of(T, q)) - Cardinality(Of(S, q) \cap Of(T, q))
  BY <1>2, FS_Union
<1>4. Cardinality(Of(S, q) \cap Of(T, q)) = 0
  BY <1>1, FS_EmptySet
<1>5. Number(S, q) \in Nat /\ Number(T, q) \in Nat
  BY NumberType
<1>6. Number(S \cup T, q) = Number(S, q) + Number(T, q) - 0
  BY <1>1, <1>3, <1>4 DEF Number
<1> QED BY <1>5, <1>6

LEMMA NumberOne ==
  ASSUME NEW q, NEW r, NEW i
  PROVE  /\ IsFiniteSet({<<r, i>>})
         /\ Number({<<r, i>>}, q) = IF q = r THEN 1 ELSE 0
<1>1. CASE q = r
  <2>1. Of({<<r, i>>}, q) = {<<r, i>>}
    BY <1>1 DEF Of
  <2> QED BY <1>1, <2>1, FS_Singleton DEF Number
<1>2. CASE q # r
  <2>1. Of({<<r, i>>}, q) = {}
    BY <1>2 DEF Of
  <2> QED BY <1>2, <2>1, FS_Singleton, FS_EmptySet DEF Number
<1> QED BY <1>1, <1>2

(* What CommitComplete does to request q, with m of its calls completed    *)
(* or in the list: the late ones leave it, and the last one ends it.       *)
Ended(q, cs, L, n) ==
  /\ n[q] + Number(cs, q) + Number(L, q) = made[q]
  /\ Of(cs \cup L, q) # {} /\ Of(commitCalls', q) = {}

Effect(q, cs, s, L, n) ==
  /\ completed'[q] = n[q] + Number(cs, q) + Number(L, q) - Number(commitCalls', q)
  /\ completions'[q] = IF Ended(q, cs, L, n) THEN completions[q] + 1 ELSE completions[q]
  /\ context'[q] = IF Ended(q, cs, L, n) THEN "freed" ELSE context[q]
  /\ status'[q] = "success" => /\ status[q] = "success"
                               /\ Of(cs, q) # {} => s = "success"
                               /\ Of(commitCalls', q) = Of(L, q)
  /\ told'[q] = "success" => IF Ended(q, cs, L, n) THEN status'[q] = "success"
                                                   ELSE told[q] = "success"

LEMMA CommitEffect ==
  ASSUME TypeOK, NEW cs \in SUBSET Calls, NEW L \in SUBSET Calls, IsFiniteSet(cs),
         IsFiniteSet(L), cs \cap L = {}, NEW s \in Statuses, NEW n \in [Requests -> Nat],
         CommitComplete(cs, s, L, n),
         \A q \in Requests : n[q] + Number(cs, q) + Number(L, q) <= made[q]
  PROVE  /\ commitCalls' \subseteq L /\ IsFiniteSet(commitCalls')
         /\ touched' \subseteq touched \cup {q \in Requests : Of(cs \cup L, q) # {} /\ context[q] = "freed"}
         /\ \A q \in Requests : Effect(q, cs, s, L, n)
         /\ completed' \in [Requests -> Nat] /\ completions' \in [Requests -> Nat]
         /\ context' \in [Requests -> {"none", "live", "freed"}]
         /\ status' \in [Requests -> Statuses] /\ told' \in [Requests -> Statuses \cup {"none"}]
<1> DEFINE late == Swept(L)
           S == late \cup cs
           all == {q \in Requests : AllDone(q, S, n)}
<1>1. /\ commitCalls' = L \ late
      /\ completed' = [q \in Requests |-> n[q] + Number(S, q)]
      /\ status' = [q \in Requests |-> StatusAfter(q, late, cs, s)]
      /\ told' = [q \in Requests |-> IF q \notin all THEN told[q]
                                     ELSE IF AllDone(q, late, n) THEN "timeout"
                                     ELSE status'[q]]
      /\ completions' = [q \in Requests |-> completions[q] + (IF q \in all THEN 1 ELSE 0)]
      /\ context' = [q \in Requests |-> IF q \in all THEN "freed" ELSE context[q]]
      /\ touched' = touched \cup {q \in Used(L, cs) : context[q] = "freed"}
                            \cup {q \in all : completed'[q] > made[q]}
  BY DEF CommitComplete, Number
<1>2. late \subseteq L
  BY DEF Swept
<1>3. IsFiniteSet(late) /\ IsFiniteSet(L \ late) /\ IsFiniteSet(S)
  BY <1>2, FS_Subset, FS_Union
<1>4. ASSUME NEW q \in Requests
      PROVE  /\ Number(S, q) = Number(late, q) + Number(cs, q)
             /\ Number(L, q) = Number(late, q) + Number(L \ late, q)
             /\ Number(S, q) \in Nat /\ Number(late, q) \in Nat /\ Number(cs, q) \in Nat
             /\ Number(L, q) \in Nat /\ Number(L \ late, q) \in Nat
             /\ n[q] \in Nat /\ made[q] \in Nat /\ completions[q] \in Nat
             /\ n[q] + Number(cs, q) + Number(L, q) <= made[q]
  <2>1. late \cap cs = {} /\ late \cap (L \ late) = {} /\ late \cup (L \ late) = L
    BY <1>2
  <2>2. Number(S, q) = Number(late, q) + Number(cs, q)
    BY <1>3, <2>1, NumberUnion
  <2>3. Number(L, q) = Number(late, q) + Number(L \ late, q)
    BY <1>3, <2>1, NumberUnion
  <2> HIDE DEF S, late
  <2>4. /\ Number(S, q) \in Nat /\ Number(late, q) \in Nat /\ Number(cs, q) \in Nat
        /\ Number(L, q) \in Nat /\ Number(L \ late, q) \in Nat
    BY <1>3, NumberType
  <2>5. n[q] \in Nat /\ made[q] \in Nat /\ completions[q] \in Nat
    BY DEF TypeOK
  <2> QED BY <2>2, <2>3, <2>4, <2>5
<1>5. ASSUME NEW q \in Requests PROVE q \in all <=> Ended(q, cs, L, n)
  <2>1. q \in all <=> \E k \in 1..Number(S, q) : n[q] + k = made[q]
    BY DEF AllDone, Number
  <2>2. Of(commitCalls', q) = {} <=> Number(L \ late, q) = 0
    BY <1>1, <1>3, NumberType
  <2>3. Of(cs \cup L, q) = {} <=> Number(cs, q) = 0 /\ Number(L, q) = 0
    <3>1. Of(cs \cup L, q) = {} <=> Of(cs, q) = {} /\ Of(L, q) = {}
      BY DEF Of
    <3> QED BY <3>1, NumberType
  <2> DEFINE x == Number(S, q)
             y == Number(L \ late, q)
             z == Number(late, q)
             u == Number(cs, q)
             v == Number(L, q)
  <2>4. /\ x = z + u /\ v = z + y /\ x \in Nat /\ y \in Nat /\ z \in Nat /\ u \in Nat
        /\ v \in Nat /\ n[q] \in Nat /\ made[q] \in Nat /\ n[q] + u + v <= made[q]
    BY <1>4
  <2>5. (\E k \in 1..x : n[q] + k = made[q]) <=> n[q] + u + v = made[q] /\ ~(u = 0 /\ v = 0) /\ y = 0
    <3> HIDE DEF x, y, z, u, v
    <3>1. ASSUME NEW k \in 1..x, n[q] + k = made[q]
          PROVE  n[q] + u + v = made[q] /\ ~(u = 0 /\ v = 0) /\ y = 0
      BY <2>4, <3>1
    <3>2. ASSUME n[q] + u + v = made[q], ~(u = 0 /\ v = 0), y = 0
          PROVE  x \in 1..x /\ n[q] + x = made[q]
      BY <2>4, <3>2
    <3> QED BY <3>1, <3>2
  <2> QED BY <2>1, <2>2, <2>3, <2>5 DEF Ended
<1>6. commitCalls' \subseteq L /\ IsFiniteSet(commitCalls')
  BY <1>1, <1>2, <1>3
<1>7. touched' \subseteq touched \cup {q \in Requests : Of(cs \cup L, q) # {} /\ context[q] = "freed"}
  <2>1. ASSUME NEW q \in Used(L, cs) PROVE q \in Requests /\ Of(cs \cup L, q) # {}
    <3>1. PICK c \in cs \cup L : c[1] = q
      BY <2>1 DEF Used
    <3> QED BY <3>1 DEF Of, Calls
  <2>2. ASSUME NEW q \in all PROVE ~(completed'[q] > made[q])
    <3>1. q \in Requests
      OBVIOUS
    <3>2. completed'[q] = n[q] + Number(S, q)
      BY <1>1, <3>1
    <3> HIDE DEF S, late, all
    <3> QED BY <1>4, <3>1, <3>2
  <2> QED BY <1>1, <2>1, <2>2
<1>8. ASSUME NEW q \in Requests PROVE Effect(q, cs, s, L, n)
  <2>1. completed'[q] = n[q] + Number(cs, q) + Number(L, q) - Number(commitCalls', q)
    <3>1. completed'[q] = n[q] + Number(S, q)
      BY <1>1
    <3>2. Number(commitCalls', q) = Number(L \ late, q)
      BY <1>1
    <3> DEFINE x == Number(S, q)
               y == Number(L \ late, q)
               z == Number(late, q)
               u == Number(cs, q)
               v == Number(L, q)
    <3>3. /\ x = z + u /\ v = z + y /\ x \in Nat /\ y \in Nat /\ z \in Nat /\ u \in Nat
          /\ v \in Nat /\ n[q] \in Nat
      BY <1>4
    <3>4. n[q] + x = n[q] + u + v - y
      <4> HIDE DEF x, y, z, u, v
      <4> QED BY <3>3
    <3> QED BY <3>1, <3>2, <3>4
  <2>2. completions'[q] = IF Ended(q, cs, L, n) THEN completions[q] + 1 ELSE completions[q]
    <3>1. completions'[q] = completions[q] + (IF q \in all THEN 1 ELSE 0)
      BY <1>1
    <3>2. completions[q] \in Nat
      BY <1>4
    <3> HIDE DEF S, late, all
    <3>3. CASE q \in all
      BY <1>5, <3>1, <3>2, <3>3
    <3>4. CASE q \notin all
      BY <1>5, <3>1, <3>2, <3>4
    <3> QED BY <3>3, <3>4
  <2>3. context'[q] = IF Ended(q, cs, L, n) THEN "freed" ELSE context[q]
    BY <1>1, <1>5
  <2>4. status'[q] = "success" => /\ status[q] = "success"
                                  /\ Of(cs, q) # {} => s = "success"
                                  /\ Of(commitCalls', q) = Of(L, q)
    <3>1. status'[q] = StatusAfter(q, late, cs, s)
      BY <1>1
    <3>2. Of(late, q) = {} => Of(L \ late, q) = Of(L, q)
      BY DEF Of
    <3> HIDE DEF late
    <3> QED BY <1>1, <3>1, <3>2 DEF StatusAfter
  <2>5. told'[q] = "success" => IF Ended(q, cs, L, n) THEN status'[q] = "success"
                                                      ELSE told[q] = "success"
    BY <1>1, <1>5
  <2> QED BY <2>1, <2>2, <2>3, <2>4, <2>5 DEF Effect
<1>9. completed' \in [Requests -> Nat] /\ completions' \in [Requests -> Nat]
  <2>1. \A q \in Requests : n[q] + Number(S, q) \in Nat
    <3> HIDE DEF S, late, all
    <3> QED BY <1>4
  <2>2. \A q \in Requests : completions[q] + (IF q \in all THEN 1 ELSE 0) \in Nat
    BY DEF TypeOK
  <2> QED BY <1>1, <2>1, <2>2
<1>10. context' \in [Requests -> {"none", "live", "freed"}]
  BY <1>1 DEF TypeOK
<1>11. status' \in [Requests -> Statuses]
  BY <1>1 DEF StatusAfter, Statuses, TypeOK
<1>12. told' \in [Requests -> Statuses \cup {"none"}]
  BY <1>1, <1>11 DEF Statuses, TypeOK
<1> QED BY <1>6, <1>7, <1>8, <1>9, <1>10, <1>11, <1>12

------------------------------------------------------------------------------
(* What is overtaken, in a step that completes the calls cs with status s  *)
(* and lets late ones of the list L go: it is no success for anybody.      *)

OvertakenOf(cs, s, L) ==
  /\ overtaken \subseteq overtaken' /\ overtaken' \subseteq Requests
  /\ \A c \in L \ commitCalls' : BeingMade(c) => c[1] \in overtaken'
  /\ \A q \in overtaken' \ overtaken :
       Of(L \ commitCalls', q) # {} \/ (Of(cs, q) # {} /\ s # "success")

LEMMA OvertakeLate ==
  ASSUME TypeOK, NEW cs, NEW s, NEW L \in SUBSET Calls, NEW n, CommitComplete(cs, s, L, n),
         Overtake(Swept(L))
  PROVE  OvertakenOf(cs, s, L)
<1>1. L \ commitCalls' = Swept(L)
  BY DEF CommitComplete, Swept
<1>2. \A c \in Swept(L) : c[1] \in Requests
  BY DEF Swept, Calls
<1>3. overtaken' = overtaken \cup {c[1] : c \in {d \in Swept(L) : BeingMade(d)}}
  BY DEF Overtake
<1>4. overtaken' \subseteq Requests
  BY <1>2, <1>3 DEF TypeOK
<1>5. ASSUME NEW q \in overtaken' \ overtaken PROVE Of(Swept(L), q) # {}
  BY <1>3 DEF Of
<1> QED BY <1>1, <1>3, <1>4, <1>5 DEF OvertakenOf

(* A request of which something is overtaken is not told success.          *)
LEMMA NoSuccess ==
  ASSUME NEW cs, NEW s, NEW L, NEW n, NEW q, Effect(q, cs, s, L, n), OvertakenOf(cs, s, L),
         status[q] = "success" => Calm(q)
  PROVE  (Calm(q)' => Calm(q)) /\ (status'[q] = "success" => Calm(q)')
<1>0. Calm(q)' => Calm(q)
  BY DEF Calm, OvertakenOf
<1> SUFFICES ASSUME status'[q] = "success", q \in overtaken' PROVE FALSE
  BY <1>0 DEF Calm
<1>1. /\ q \in overtaken' \ overtaken /\ Of(commitCalls', q) = Of(L, q)
      /\ Of(cs, q) # {} => s = "success"
  BY DEF Effect, Calm
<1>2. Of(L \ commitCalls', q) # {}
  BY <1>1 DEF OvertakenOf
<1> QED BY <1>1, <1>2 DEF Of

------------------------------------------------------------------------------
(* The inductive step, request by request.                                 *)

(* A request has calls in the list only once its thread is at them.        *)
LEMMA ListedAt ==
  ASSUME CommitInv, NEW q \in Requests, pc[q] \in {"new", "refused", "allocated"}
  PROVE  Of(commitCalls, q) = {}
<1>1. index[q] = 0
  BY DEF CommitInv, KeptOf, ThreadAt
<1> QED BY <1>1 DEF CommitInv, Of

(* A request whose thread does not move, when calls leave the list.        *)
LEMMA OthersKept ==
  ASSUME CommitInv, NEW q \in Requests, NEW cs, NEW s, NEW L, NEW n,
         IsFiniteSet(cs), IsFiniteSet(L), cs \cap L = {}, Effect(q, cs, s, L, n),
         IsFiniteSet(commitCalls'), commitCalls' \subseteq L,
         OvertakenOf(cs, s, L),
         n[q] = completed[q], Of(cs \cup L, q) = Of(commitCalls, q),
         pc'[q] = pc[q], index'[q] = index[q], made'[q] = made[q],
         given \subseteq given', s = "success" => Of(cs, q) \subseteq given',
         atDevice' \subseteq atDevice,
         pc[q] \in Listing \ {"accepted"} /\ Calm(q)' => <<q, index[q]>> \notin cs
  PROVE  KeptOf(q)'
<1>0. /\ CountsAgree(q) /\ ThreadAt(q) /\ ClientTold(q)
      /\ completed[q] \in Nat /\ made[q] \in Nat /\ index[q] \in Nat
      /\ completions[q] \in Nat /\ pc[q] \in Locations
      /\ Calm(q) => ContextKept(q)
      /\ status[q] = "success" => Calm(q)
  BY DEF CommitInv, KeptOf, TypeOK
<1>1. /\ Number(cs, q) + Number(L, q) = Number(commitCalls, q)
      /\ Number(cs, q) \in Nat /\ Number(L, q) \in Nat /\ Number(commitCalls', q) \in Nat
      /\ (Number(commitCalls', q) = 0 <=> Of(commitCalls', q) = {})
  <2>1. Number(cs \cup L, q) = Number(cs, q) + Number(L, q)
    BY NumberUnion
  <2>2. Number(cs \cup L, q) = Number(commitCalls, q)
    BY DEF Number
  <2> QED BY <2>1, <2>2, NumberType
<1>2. Gap(q)' = Gap(q) /\ Gap(q) \in {0, 1}
  BY DEF Gap
<1>3. pc[q] # "refused" =>
        n[q] + Number(cs, q) + Number(L, q) + Gap(q) = made[q]
  BY <1>0, <1>1, <1>2 DEF CountsAgree, Number
<1>4. CountsAgree(q)'
  <2> SUFFICES ASSUME pc[q] # "refused"
               PROVE  made[q] = completed'[q] + Number(commitCalls', q) + Gap(q)
    BY <1>2 DEF CountsAgree, Number
  <2>1. completed'[q] = n[q] + Number(cs, q) + Number(L, q) - Number(commitCalls', q)
    BY DEF Effect
  <2> QED BY <1>0, <1>1, <1>2, <1>3, <2>1
<1>c. (Calm(q)' => Calm(q)) /\ (status'[q] = "success" => Calm(q)')
  BY <1>0, NoSuccess
<1>5. ASSUME pc[q] \in Listing \ {"accepted"}
      PROVE  /\ <<q, index[q]>> \notin atDevice'
             /\ Calm(q)' => <<q, index[q]>> \in commitCalls'
  <2> DEFINE c == <<q, index[q]>>
  <2>1. c \notin atDevice /\ (Calm(q) => c \in commitCalls)
    BY <1>0, <1>5 DEF ThreadAt
  <2> SUFFICES ASSUME Calm(q)' PROVE c \in commitCalls'
    BY <2>1
  <2>2. c \in L
    <3>1. c \in Of(commitCalls, q)
      BY <1>c, <2>1 DEF Of
    <3> QED BY <1>5, <3>1 DEF Of
  <2>3. BeingMade(c)
    BY <1>5 DEF BeingMade, Listing
  <2>4. c[1] = q
    OBVIOUS
  <2> QED BY <2>2, <2>3, <2>4 DEF OvertakenOf, Calm
<1>6. ASSUME Calm(q)'
      PROVE  Ended(q, cs, L, n) <=> /\ pc[q] = "posted"
                                    /\ Of(commitCalls, q) # {} /\ Of(commitCalls', q) = {}
  <2>1. CASE pc[q] = "posted"
    <3>1. Gap(q) = 0
      BY <2>1 DEF Gap
    <3>2. n[q] + Number(cs, q) + Number(L, q) = made[q]
      BY <1>0, <1>1, <1>3, <2>1, <3>1
    <3> QED BY <2>1, <3>2 DEF Ended
  <2>2. CASE pc[q] = "unlocked"
    <3>1. Of(commitCalls', q) # {}
      BY <1>5, <1>6, <2>2 DEF Listing, Of
    <3> QED BY <2>2, <3>1 DEF Ended
  <2>3. CASE pc[q] \in {"new", "refused", "allocated"}
    BY <2>3, ListedAt DEF Ended
  <2>4. CASE pc[q] \in {"calling", "accepted", "failed"}
    <3>1. Gap(q) = 1
      BY <2>4 DEF Gap
    <3>2. n[q] + Number(cs, q) + Number(L, q) # made[q]
      BY <1>0, <1>1, <1>3, <2>4, <3>1
    <3> QED BY <2>4, <3>2 DEF Ended
  <2> QED BY <1>0, <2>1, <2>2, <2>3, <2>4 DEF Locations
<1>e. pc[q] \in {"new", "refused", "allocated"} => ~Ended(q, cs, L, n)
  BY ListedAt DEF Ended
<1>7. Of(commitCalls', q) \subseteq Of(commitCalls, q)
  BY DEF Of
<1>8. ThreadAt(q)'
  <2>1. pc[q] \in {"new", "allocated"} => context'[q] = context[q]
    BY <1>e DEF Effect
  <2> QED BY <1>0, <1>2, <1>5, <2>1 DEF ThreadAt
<1>8a. ASSUME Calm(q)' PROVE ContextKept(q)'
  <2>1. /\ context'[q] = IF Ended(q, cs, L, n) THEN "freed" ELSE context[q]
        /\ completions'[q] = IF Ended(q, cs, L, n) THEN completions[q] + 1 ELSE completions[q]
    BY DEF Effect
  <2>2. Ended(q, cs, L, n) <=> /\ pc[q] = "posted"
                               /\ Of(commitCalls, q) # {} /\ Of(commitCalls', q) = {}
    BY <1>6, <1>8a
  <2>3. ContextKept(q) /\ "posted" \notin Listing
    BY <1>0, <1>8a, <1>c DEF Listing
  <2>4. pc[q] = "posted" => context'[q] = IF Of(commitCalls', q) = {} THEN "freed" ELSE "live"
    BY <1>7, <2>1, <2>2, <2>3 DEF ContextKept
  <2>5. completions'[q] = IF pc[q] = "posted" /\ Of(commitCalls', q) = {} THEN 1 ELSE 0
    <3>1. completions[q] = IF pc[q] = "posted" /\ Of(commitCalls, q) = {} THEN 1 ELSE 0
      BY <2>3 DEF ContextKept
    <3> QED BY <1>7, <2>1, <2>2, <3>1
  <2> QED BY <2>1, <2>2, <2>3, <2>4, <2>5 DEF ContextKept
<1>9. status'[q] = "success" => \A i \in 1..index[q] : <<q, i>> \in commitCalls' \cup given'
  <2> SUFFICES ASSUME status'[q] = "success", NEW i \in 1..index[q]
               PROVE  <<q, i>> \in commitCalls' \cup given'
    OBVIOUS
  <2>1. /\ status[q] = "success"
        /\ Of(cs, q) # {} => s = "success"
        /\ Of(commitCalls', q) = Of(L, q)
    BY DEF Effect
  <2>2. <<q, i>> \in commitCalls \cup given
    BY <1>0, <2>1 DEF ClientTold
  <2>3. CASE <<q, i>> \in cs
    BY <2>1, <2>3 DEF Of
  <2>4. CASE <<q, i>> \in L
    BY <2>1, <2>4 DEF Of
  <2>5. <<q, i>> \in commitCalls => <<q, i>> \in cs \cup L
    BY DEF Of
  <2> QED BY <2>2, <2>3, <2>4, <2>5
<1>10. ClientTold(q)'
  <2>3. status'[q] = "success" /\ pc[q] = "posted" => index[q] = Reports[q]
    BY <1>0 DEF ClientTold, Effect
  <2>4. told'[q] = "success" => /\ pc[q] = "posted" /\ index[q] = Reports[q]
                                /\ \A i \in 1..index[q] : <<q, i>> \in given'
    <3>1. CASE Ended(q, cs, L, n)
      <4> SUFFICES ASSUME told'[q] = "success"
                   PROVE  /\ pc[q] = "posted" /\ index[q] = Reports[q]
                          /\ \A i \in 1..index[q] : <<q, i>> \in given'
        OBVIOUS
      <4>1. status'[q] = "success"
        BY <3>1 DEF Effect
      <4>2. pc[q] = "posted" /\ Of(commitCalls', q) = {}
        BY <1>6, <1>c, <3>1, <4>1
      <4>3. \A i \in 1..index[q] : <<q, i>> \notin commitCalls'
        BY <4>2 DEF Of
      <4> QED BY <1>9, <2>3, <4>1, <4>2, <4>3
    <3>2. CASE ~Ended(q, cs, L, n)
      BY <1>0, <3>2 DEF Effect, ClientTold
    <3> QED BY <3>1, <3>2
  <2> QED BY <1>9, <2>3, <2>4 DEF ClientTold
<1> QED BY <1>4, <1>8, <1>8a, <1>10, <1>c DEF KeptOf

(* The thread of q says its last word: its extra call is completed.        *)
LEMMA SignalKept ==
  ASSUME CommitInv, NEW q \in Requests, pc[q] \in {"allocated", "accepted", "failed"},
         NEW i, NEW s, NEW L, NEW n, L = commitCalls \ {<<q, i>>},
         Effect(q, {<<q, i>>}, s, L, n),
         IsFiniteSet(commitCalls'), commitCalls' \subseteq L, OvertakenOf({<<q, i>>}, s, L),
         n[q] \in Nat, n[q] + Number({<<q, i>>}, q) + Number(L, q) = made[q],
         pc'[q] = "posted", index'[q] = index[q], made'[q] = made[q],
         given \subseteq given',
         s = "success" => index[q] = Reports[q] /\ i = Final
  PROVE  KeptOf(q)'
<1> DEFINE cs == {<<q, i>>}
<1>0. /\ CountsAgree(q) /\ ThreadAt(q) /\ ClientTold(q)
      /\ completed[q] \in Nat /\ made[q] \in Nat /\ index[q] \in Nat
      /\ completions[q] \in Nat /\ IsFiniteSet(commitCalls)
      /\ Calm(q) => ContextKept(q)
      /\ status[q] = "success" => Calm(q)
  BY DEF CommitInv, KeptOf, TypeOK
<1>c. (Calm(q)' => Calm(q)) /\ (status'[q] = "success" => Calm(q)')
  BY <1>0, NoSuccess
<1>1. IsFiniteSet(L) /\ IsFiniteSet(cs)
  BY <1>0, FS_Subset, NumberOne
<1>2. Number(cs, q) \in Nat /\ Number(L, q) \in Nat /\ Number(commitCalls', q) \in Nat
  BY <1>1, NumberType
<1>3. status'[q] = "success" => Of(commitCalls', q) = Of(L, q)
  BY DEF Effect
<1>a. Of(cs, q) # {}
  <2>1. <<q, i>>[1] = q /\ <<q, i>> \in cs
    OBVIOUS
  <2> QED BY <2>1, Zenon DEF Of
<1>4. Ended(q, cs, L, n) <=> Of(commitCalls', q) = {}
  <2>1. Of(cs \cup L, q) # {}
    BY <1>a DEF Of
  <2>2. n[q] + Number(cs, q) + Number(L, q) = made[q]
    OBVIOUS
  <2> QED BY <2>1, <2>2 DEF Ended
<1>5. CountsAgree(q)'
  <2>1. completed'[q] = n[q] + Number(cs, q) + Number(L, q) - Number(commitCalls', q)
    BY DEF Effect
  <2>2. Gap(q)' = 0
    BY DEF Gap
  <2>3. made[q] = completed'[q] + Number(commitCalls', q) + 0
    BY <1>0, <1>2, <2>1
  <2> QED BY <2>2, <2>3 DEF CountsAgree, Number
<1>6. ThreadAt(q)'
  <2>1. "posted" \notin Listing
    BY DEF Listing
  <2> QED BY <1>0, <2>1 DEF ThreadAt
<1>6a. ASSUME Calm(q)' PROVE ContextKept(q)'
  <2>1. /\ context'[q] = IF Of(commitCalls', q) = {} THEN "freed" ELSE context[q]
        /\ completions'[q] = IF Of(commitCalls', q) = {} THEN completions[q] + 1 ELSE completions[q]
    BY <1>4 DEF Effect
  <2>2. context[q] = "live" /\ completions[q] = 0
    BY <1>0, <1>6a, <1>c DEF ContextKept, ThreadAt, Listing
  <2>3. "posted" \notin Listing
    BY DEF Listing
  <2> QED BY <2>1, <2>2, <2>3 DEF ContextKept
<1>7. status'[q] = "success" => /\ index[q] = Reports[q]
                                /\ \A j \in 1..index[q] : <<q, j>> \in commitCalls' \cup given'
  <2> SUFFICES ASSUME status'[q] = "success"
               PROVE  /\ index[q] = Reports[q]
                      /\ \A j \in 1..index[q] : <<q, j>> \in commitCalls' \cup given'
    OBVIOUS
  <2>1. status[q] = "success" /\ s = "success"
    BY <1>a DEF Effect
  <2>2. ASSUME NEW j \in 1..index[q] PROVE <<q, j>> \in commitCalls' \cup given'
    <3>1. <<q, j>> \in commitCalls \cup given
      BY <1>0, <2>1 DEF ClientTold
    <3>2. j # i
      BY <2>1 DEF Final
    <3>3. <<q, j>> \in commitCalls => <<q, j>> \in Of(L, q)
      BY <3>2 DEF Of
    <3>4. Of(commitCalls', q) \subseteq commitCalls'
      BY DEF Of
    <3> QED BY <1>3, <3>1, <3>3, <3>4
  <2> QED BY <2>1, <2>2
<1>8. ClientTold(q)'
  <2>2. told'[q] = "success" => /\ index[q] = Reports[q]
                                /\ \A j \in 1..index[q] : <<q, j>> \in given'
    <3> SUFFICES ASSUME told'[q] = "success"
                 PROVE  /\ index[q] = Reports[q]
                        /\ \A j \in 1..index[q] : <<q, j>> \in given'
      OBVIOUS
    <3>1. told[q] # "success"
      BY <1>0 DEF ClientTold
    <3>2. Of(commitCalls', q) = {} /\ status'[q] = "success"
      BY <1>4, <3>1 DEF Effect
    <3>3. \A j : <<q, j>> \notin commitCalls'
      BY <3>2 DEF Of
    <3> QED BY <1>7, <3>2, <3>3
  <2> QED BY <1>7, <2>2 DEF ClientTold
<1> QED BY <1>5, <1>6, <1>6a, <1>8, <1>c DEF KeptOf

(* The thread of q puts its next call into the list.                       *)
LEMMA InsertKept ==
  ASSUME CommitInv, NEW q \in Requests, pc[q] \in {"allocated", "accepted"},
         index[q] < Reports[q], NEW s, NEW L, NEW i, i = index[q] + 1,
         L = commitCalls \cup {<<q, i>>},
         Effect(q, {}, s, L, completed),
         IsFiniteSet(commitCalls'), commitCalls' \subseteq L, OvertakenOf({}, s, L),
         pc'[q] = "unlocked", index'[q] = i, made'[q] = made[q],
         given \subseteq given', atDevice' = atDevice
  PROVE  KeptOf(q)'
<1> DEFINE c == <<q, i>>
<1>0. /\ CountsAgree(q) /\ ThreadAt(q) /\ ClientTold(q)
      /\ completed[q] \in Nat /\ made[q] \in Nat /\ index[q] \in Nat
      /\ completions[q] \in Nat /\ IsFiniteSet(commitCalls) /\ Reports[q] \in Nat
      /\ Calm(q) => ContextKept(q)
      /\ status[q] = "success" => Calm(q)
  BY CommitAssumption DEF CommitInv, KeptOf, TypeOK
<1>c. (Calm(q)' => Calm(q)) /\ (status'[q] = "success" => Calm(q)')
  BY <1>0, NoSuccess
<1>1. c \notin commitCalls /\ c \notin atDevice
  <2>1. \A d \in commitCalls \cup atDevice : d[2] \in 1..index[d[1]]
    BY DEF CommitInv
  <2>2. c[1] = q /\ c[2] = i /\ i \notin 1..index[q]
    BY <1>0
  <2> QED BY <2>1, <2>2
<1>2. /\ Number(L, q) = Number(commitCalls, q) + 1 /\ IsFiniteSet(L)
      /\ Number(commitCalls, q) \in Nat /\ Number({}, q) = 0 /\ Number(commitCalls', q) \in Nat
  <2>1. IsFiniteSet({c}) /\ Number({c}, q) = 1
    BY NumberOne
  <2>2. Number(L, q) = Number(commitCalls, q) + Number({c}, q)
    BY <1>0, <1>1, <2>1, NumberUnion
  <2>3. IsFiniteSet(L)
    BY <1>0, <2>1, FS_Union
  <2>4. Number({}, q) = 0
    BY NumberType, FS_EmptySet DEF Of
  <2> QED BY <1>0, <2>1, <2>2, <2>3, <2>4, NumberType
<1>3. Calm(q)' => c \in commitCalls' /\ ~Ended(q, {}, L, completed)
  <2>1. c[1] = q /\ c[2] = i /\ c \in L /\ i > index[q]
    BY <1>0
  <2>2. Calm(q)' => c \in commitCalls'
    BY <2>1 DEF BeingMade, OvertakenOf, Calm
  <2> QED BY <2>1, <2>2 DEF Ended, Of
<1>5. CountsAgree(q)'
  <2>1. completed'[q] = completed[q] + 0 + Number(L, q) - Number(commitCalls', q)
    BY <1>2 DEF Effect
  <2>2. Gap(q) = 1 /\ Gap(q)' = 0
    BY DEF Gap
  <2>3. made[q] = completed[q] + Number(commitCalls, q) + 1
    BY <1>0, <2>2 DEF CountsAgree, Number
  <2>4. made[q] = completed'[q] + Number(commitCalls', q) + 0
    BY <1>0, <1>2, <2>1, <2>3
  <2> QED BY <2>2, <2>4 DEF CountsAgree, Number
<1>6. ThreadAt(q)'
  <2>2. made[q] = i + 0
    <3>1. pc[q] = "allocated" => made[q] = 1 /\ index[q] = 0
      BY <1>0 DEF ThreadAt
    <3>2. pc[q] = "accepted" => made[q] = index[q] + 1
      BY <1>0 DEF ThreadAt, Listing, Gap
    <3> QED BY <1>0, <3>1, <3>2
  <2>3. Gap(q)' = 0
    BY DEF Gap
  <2> QED BY <1>0, <1>1, <1>3, <2>2, <2>3 DEF ThreadAt
<1>6a. ASSUME Calm(q)' PROVE ContextKept(q)'
  <2>1. ~Ended(q, {}, L, completed)
    BY <1>3, <1>6a
  <2>2. context[q] = "live" /\ completions[q] = 0
    BY <1>0, <1>6a, <1>c DEF ContextKept, ThreadAt, Listing
  <2> QED BY <2>1, <2>2 DEF ContextKept, Effect
<1>7. ClientTold(q)'
  <2>1. told'[q] # "success"
    BY <1>0, <1>3, <1>c DEF Effect, ClientTold
  <2>2. ASSUME status'[q] = "success", NEW j \in 1..i PROVE <<q, j>> \in commitCalls' \cup given'
    <3>0. Of(commitCalls', q) = Of(L, q) /\ c \in commitCalls'
      BY <1>3, <1>c, <2>2 DEF Effect
    <3>1. CASE j = i
      BY <3>0, <3>1
    <3>2. CASE j # i
      <4>1. j \in 1..index[q]
        BY <1>0, <3>2
      <4>2. <<q, j>> \in commitCalls \cup given
        BY <1>0, <2>2, <4>1 DEF Effect, ClientTold
      <4>3. <<q, j>> \in commitCalls => <<q, j>> \in Of(L, q)
        BY DEF Of
      <4>4. Of(commitCalls', q) \subseteq commitCalls'
        BY DEF Of
      <4> QED BY <3>0, <4>2, <4>3, <4>4
    <3> QED BY <3>1, <3>2
  <2> QED BY <2>1, <2>2 DEF ClientTold
<1> QED BY <1>5, <1>6, <1>6a, <1>7, <1>c DEF KeptOf

(* The calls of a request in the list are not more than it has made; and   *)
(* it has its context, if it is calm.                                      *)
LEMMA Room ==
  ASSUME CommitInv, NEW q \in Requests
  PROVE  /\ completed[q] + Number(commitCalls, q) <= made[q]
         /\ Calm(q) /\ Of(commitCalls, q) # {} => context[q] = "live"
<1>0. /\ CountsAgree(q) /\ ThreadAt(q) /\ IsFiniteSet(commitCalls) /\ pc[q] \in Locations
      /\ completed[q] \in Nat /\ made[q] \in Nat /\ completed[q] <= made[q]
      /\ Calm(q) => ContextKept(q)
  BY DEF CommitInv, KeptOf, TypeOK
<1>1. Number(commitCalls, q) \in Nat /\ (Of(commitCalls, q) = {} => Number(commitCalls, q) = 0)
  BY <1>0, NumberType
<1>2. completed[q] + Number(commitCalls, q) <= made[q]
  <2>1. CASE pc[q] = "refused"
    <3>1. Number(commitCalls, q) = 0
      BY <1>1, <2>1, ListedAt
    <3> QED BY <1>0, <3>1
  <2>2. CASE pc[q] # "refused"
    <3>1. made[q] = completed[q] + Number(commitCalls, q) + Gap(q)
      BY <1>0, <2>2 DEF CountsAgree, Number
    <3>2. Gap(q) \in {0, 1}
      BY DEF Gap
    <3> QED BY <1>0, <1>1, <3>1, <3>2
  <2> QED BY <2>1, <2>2
<1>3. Calm(q) /\ Of(commitCalls, q) # {} => context[q] = "live"
  <2> SUFFICES ASSUME Calm(q), Of(commitCalls, q) # {} PROVE context[q] = "live"
    OBVIOUS
  <2>1. pc[q] \in Listing \cup {"posted"}
    BY <1>0, ListedAt DEF Locations, Listing
  <2> QED BY <1>0, <2>1 DEF ContextKept
<1> QED BY <1>2, <1>3

(* One use of CommitComplete: the threads of the movers move, which is     *)
(* shown apart to keep what is said of their requests.                     *)
Completing(movers, cs, s, L, n) ==
  /\ movers \in SUBSET Requests
  /\ cs \in SUBSET Calls /\ L \in SUBSET Calls /\ s \in Statuses /\ n \in [Requests -> Nat]
  /\ IsFiniteSet(cs) /\ IsFiniteSet(L) /\ cs \cap L = {} /\ CommitComplete(cs, s, L, n)
  /\ OvertakenOf(cs, s, L)
  /\ UNCHANGED <<made, expired>> /\ atDevice' \subseteq atDevice
  /\ given \subseteq given' /\ given' \subseteq Calls
  /\ pc' \in [Requests -> Locations] /\ index' \in [Requests -> Nat]
  /\ inactive' \in BOOLEAN /\ aborted' \in BOOLEAN
  /\ \A q \in Requests \ movers :
       /\ n[q] = completed[q] /\ Of(cs \cup L, q) = Of(commitCalls, q)
       /\ pc'[q] = pc[q] /\ index'[q] = index[q]
       /\ s = "success" => Of(cs, q) \subseteq given'
       /\ pc[q] \in Listing \ {"accepted"} /\ Calm(q)' => <<q, index[q]>> \notin cs
  /\ \A q \in movers :
       /\ Calm(q) => context[q] = "live"
       /\ n[q] + Number(cs, q) + Number(L, q) <= made[q]
  /\ \A c \in L \cup atDevice : c[2] \in 1..index'[c[1]]
  /\ \A q \in movers :
       /\ Effect(q, cs, s, L, n)
       /\ IsFiniteSet(commitCalls') /\ commitCalls' \subseteq L
       => KeptOf(q)'

LEMMA CompleteStep ==
  ASSUME CommitInv, NEW movers, NEW cs, NEW s, NEW L, NEW n, Completing(movers, cs, s, L, n)
  PROVE  CommitInv'
<1> USE DEF Completing
<1>0. TypeOK
  BY DEF CommitInv
<1>1. ASSUME NEW q \in Requests
      PROVE  /\ n[q] + Number(cs, q) + Number(L, q) <= made[q]
             /\ Calm(q) /\ Of(cs \cup L, q) # {} => context[q] # "freed"
  <2>1. CASE q \in movers
    BY <2>1
  <2>2. CASE q \notin movers
    <3>1. Number(cs, q) + Number(L, q) = Number(cs \cup L, q)
      BY NumberUnion
    <3>2. Number(cs \cup L, q) = Number(commitCalls, q)
      BY <2>2 DEF Number
    <3>3. n[q] \in Nat /\ Number(cs, q) \in Nat /\ Number(L, q) \in Nat /\ n[q] = completed[q]
      BY <2>2, NumberType
    <3>4. completed[q] + Number(commitCalls, q) <= made[q] /\ made[q] \in Nat
      BY <1>0, Room DEF TypeOK
    <3>5. n[q] + Number(cs, q) + Number(L, q) <= made[q]
      BY <3>1, <3>2, <3>3, <3>4
    <3>6. Calm(q) /\ Of(cs \cup L, q) # {} => context[q] # "freed"
      BY <2>2, Room
    <3> QED BY <3>5, <3>6
  <2> QED BY <2>1, <2>2
<1>2. /\ commitCalls' \subseteq L /\ IsFiniteSet(commitCalls')
      /\ touched' \subseteq touched \cup {q \in Requests : Of(cs \cup L, q) # {} /\ context[q] = "freed"}
      /\ \A q \in Requests : Effect(q, cs, s, L, n)
      /\ completed' \in [Requests -> Nat] /\ completions' \in [Requests -> Nat]
      /\ context' \in [Requests -> {"none", "live", "freed"}]
      /\ status' \in [Requests -> Statuses] /\ told' \in [Requests -> Statuses \cup {"none"}]
  <2>1. \A q \in Requests : n[q] + Number(cs, q) + Number(L, q) <= made[q]
    BY <1>1
  <2>3. /\ cs \in SUBSET Calls /\ L \in SUBSET Calls /\ s \in Statuses /\ n \in [Requests -> Nat]
        /\ IsFiniteSet(cs) /\ IsFiniteSet(L) /\ cs \cap L = {} /\ CommitComplete(cs, s, L, n)
    OBVIOUS
  <2> HIDE DEF Completing
  <2> QED BY <1>0, <2>1, <2>3, CommitEffect
<1>3. ASSUME NEW q \in Requests PROVE KeptOf(q)'
  <2>1. CASE q \in movers
    BY <1>2, <2>1
  <2>2. CASE q \notin movers
    BY <1>2, <2>2, OthersKept
  <2> QED BY <2>1, <2>2
<1>4. ASSUME NEW q \in Requests PROVE completed'[q] <= made'[q]
  <2>1. completed'[q] = n[q] + Number(cs, q) + Number(L, q) - Number(commitCalls', q)
    BY <1>2 DEF Effect
  <2>2. /\ Number(cs, q) \in Nat /\ Number(L, q) \in Nat /\ Number(commitCalls', q) \in Nat
        /\ n[q] \in Nat /\ made[q] \in Nat
    BY <1>0, <1>2, NumberType DEF TypeOK
  <2> QED BY <1>1, <2>1, <2>2
<1>5. TypeOK'
  BY <1>0, <1>2, <1>4 DEF TypeOK, OvertakenOf
<1>6. \A c \in commitCalls' \cup atDevice' : c[2] \in 1..index'[c[1]]
  BY <1>2
<1>7. touched' \subseteq overtaken'
  BY <1>1, <1>2 DEF CommitInv, OvertakenOf, Calm
<1> QED BY <1>2, <1>3, <1>5, <1>6, <1>7 DEF CommitInv

LEMMA CallType ==
  ASSUME NEW q \in Requests, NEW i \in 0..Reports[q]
  PROVE  <<q, i>> \in Calls /\ <<q, i>>[1] = q /\ <<q, i>>[2] = i
<1>1. Reports[q] \in Nat
  BY CommitAssumption
<1> QED BY <1>1 DEF Calls

LEMMA CommitInit == Init => CommitInv
<1> SUFFICES ASSUME Init PROVE CommitInv
  OBVIOUS
<1>1. TypeOK
  <2>1. /\ commitCalls \subseteq Calls /\ atDevice \subseteq Calls /\ given \subseteq Calls
        /\ expired \subseteq Requests /\ touched \subseteq Requests /\ overtaken \subseteq Requests
        /\ inactive \in BOOLEAN /\ aborted \in BOOLEAN
    BY DEF Init
  <2>2. /\ context \in [Requests -> {"none", "live", "freed"}]
        /\ status \in [Requests -> Statuses] /\ pc \in [Requests -> Locations]
        /\ told \in [Requests -> Statuses \cup {"none"}]
    BY DEF Init, Statuses, Locations
  <2>3. /\ made \in [Requests -> Nat] /\ completed \in [Requests -> Nat]
        /\ index \in [Requests -> Nat] /\ completions \in [Requests -> Nat]
    BY DEF Init
  <2>4. \A q \in Requests : made[q] <= Reports[q] + 1 /\ completed[q] <= made[q]
    BY CommitAssumption DEF Init
  <2> QED BY <2>1, <2>2, <2>3, <2>4 DEF TypeOK
<1>2. ASSUME NEW q \in Requests
      PROVE  KeptOf(q)
  <2>1. Of(commitCalls, q) = {} /\ Cardinality(Of(commitCalls, q)) = 0
    BY FS_EmptySet DEF Init, Of
  <2>2. /\ pc[q] = "new" /\ made[q] = 0 /\ completed[q] = 0 /\ index[q] = 0
        /\ context[q] = "none" /\ completions[q] = 0 /\ told[q] = "none"
        /\ Reports[q] \in Nat /\ q \notin overtaken
    BY CommitAssumption DEF Init
  <2> QED BY <2>1, <2>2 DEF KeptOf, Calm, CountsAgree, ThreadAt, ClientTold, ContextKept, Gap, Listing
<1>3. IsFiniteSet(commitCalls)
  BY FS_EmptySet DEF Init
<1> QED BY <1>1, <1>2, <1>3 DEF Init, CommitInv

(* A thread in the gate with i reports accepted goes on.                   *)
LEMMA GoOnKept ==
  ASSUME CommitInv, NEW q \in Requests, pc[q] \in {"allocated", "accepted"},
         NEW i, i = index[q], GoOn(q, i),
         UNCHANGED <<made, atDevice, given, expired, termVars>>
  PROVE  CommitInv'
<1>0. /\ TypeOK /\ IsFiniteSet(commitCalls) /\ commitCalls \subseteq Calls
      /\ CountsAgree(q) /\ ThreadAt(q)
      /\ completed \in [Requests -> Nat] /\ made[q] \in Nat /\ index[q] \in Nat
      /\ Reports[q] \in Nat /\ index[q] <= Reports[q]
      /\ inactive' \in BOOLEAN /\ aborted' \in BOOLEAN
  BY CommitAssumption DEF CommitInv, KeptOf, TypeOK, ThreadAt, termVars
<1>1. /\ Calm(q) => context[q] = "live"
      /\ made[q] = completed[q] + Number(commitCalls, q) + 1
      /\ Number(commitCalls, q) \in Nat
  <2>1. Gap(q) = 1
    BY DEF Gap
  <2>2. Calm(q) => context[q] = "live"
    BY <1>0 DEF CommitInv, KeptOf, ThreadAt, ContextKept, Listing
  <2> QED BY <1>0, <2>1, <2>2, NumberType DEF CountsAgree, Number
<1>2. \A c \in commitCalls \cup atDevice : c[2] \in 1..index[c[1]]
  BY DEF CommitInv
<1>3. CASE InsertNext(q, i)
  <2> DEFINE c == <<q, i + 1>>
             L == commitCalls \cup {c}
  <2>1. /\ i < Reports[q] /\ CommitComplete({}, "success", L, completed)
        /\ index' = [index EXCEPT ![q] = i + 1] /\ pc' = [pc EXCEPT ![q] = "unlocked"]
        /\ Overtake(Swept(L))
    BY <1>3 DEF InsertNext, Goto
  <2>2. /\ pc' \in [Requests -> Locations] /\ index' \in [Requests -> Nat]
        /\ index'[q] = i + 1 /\ pc'[q] = "unlocked"
        /\ \A p \in Requests : p # q => pc'[p] = pc[p] /\ index'[p] = index[p]
    BY <1>0, <2>1 DEF TypeOK, Locations
  <2>3. c \in Calls /\ c[1] = q /\ c[2] = i + 1
    <3>1. i + 1 \in 0..Reports[q]
      BY <1>0, <2>1
    <3> QED BY <3>1, CallType
  <2>4. IsFiniteSet({}) /\ IsFiniteSet(L) /\ L \in SUBSET Calls
    <3>1. IsFiniteSet({c})
      BY NumberOne
    <3> QED BY <1>0, <2>3, <3>1, FS_Union, FS_EmptySet
  <2>5. Number({}, q) = 0 /\ Number(L, q) <= Number(commitCalls, q) + 1 /\ Number(L, q) \in Nat
    <3>1. IsFiniteSet({c}) /\ Number({c}, q) = 1
      BY NumberOne
    <3>2. c \notin commitCalls
      BY <1>0, <1>2, <2>3
    <3>3. Number(L, q) = Number(commitCalls, q) + Number({c}, q)
      BY <1>0, <3>1, <3>2, NumberUnion
    <3>4. Number({}, q) = 0
      BY NumberType, FS_EmptySet DEF Of
    <3> QED BY <1>1, <3>1, <3>3, <3>4
  <2>6. completed[q] + Number({}, q) + Number(L, q) <= made[q]
    BY <1>0, <1>1, <2>5
  <2>7. \A p \in Requests \ {q} : Of({} \cup L, p) = Of(commitCalls, p) /\ Of({}, p) = {}
    BY <2>3 DEF Of
  <2>8. \A d \in L \cup atDevice : d[2] \in 1..index'[d[1]]
    <3> SUFFICES ASSUME NEW d \in L \cup atDevice PROVE d[2] \in 1..index'[d[1]]
      OBVIOUS
    <3>1. CASE d = c
      BY <1>0, <2>2, <2>3, <3>1
    <3>2. CASE d # c
      <4>1. d \in commitCalls \cup atDevice /\ d[1] \in Requests /\ d[2] \in 1..index[d[1]]
        BY <1>0, <1>2, <3>2 DEF TypeOK, Calls
      <4>2. d[1] = q \/ index'[d[1]] = index[d[1]]
        BY <2>2, <4>1
      <4> QED BY <1>0, <2>2, <4>1, <4>2
    <3> QED BY <3>1, <3>2
  <2>o. OvertakenOf({}, "success", L)
    BY <1>0, <2>1, <2>4, OvertakeLate
  <2>9. ASSUME Effect(q, {}, "success", L, completed),
               IsFiniteSet(commitCalls'), commitCalls' \subseteq L
        PROVE  KeptOf(q)'
    <3>1. i + 1 = index[q] + 1 /\ index[q] < Reports[q] /\ made'[q] = made[q]
      BY <2>1
    <3> HIDE DEF KeptOf
    <3> QED BY <2>2, <2>9, <2>o, <3>1, InsertKept
  <2>10. given' \subseteq Calls /\ "success" \in Statuses /\ {} \in SUBSET Calls
         /\ {} \cap L = {}
    BY <1>0 DEF TypeOK, Statuses
  <2>11. \A p \in Requests \ {q} :
           /\ completed[p] = completed[p] /\ Of({} \cup L, p) = Of(commitCalls, p)
           /\ pc'[p] = pc[p] /\ index'[p] = index[p]
           /\ "success" = "success" => Of({}, p) \subseteq given'
           /\ pc[p] \in Listing \ {"accepted"} /\ Calm(p)' => <<p, index[p]>> \notin {}
    BY <2>2, <2>7
  <2> HIDE DEF L, c, KeptOf
  <2>12. \A p \in {q} :
           /\ Calm(p) => context[p] = "live"
           /\ completed[p] + Number({}, p) + Number(L, p) <= made[p]
    BY <1>1, <2>6
  <2>13. \A p \in {q} :
           /\ Effect(p, {}, "success", L, completed)
           /\ IsFiniteSet(commitCalls') /\ commitCalls' \subseteq L
           => KeptOf(p)'
    BY <2>9
  <2>14. Completing({q}, {}, "success", L, completed)
    <3>1. {q} \in SUBSET Requests /\ atDevice' \subseteq atDevice /\ given \subseteq given'
      OBVIOUS
    <3> QED BY <1>0, <2>1, <2>2, <2>4, <2>8, <2>10, <2>11, <2>12, <2>13, <2>o, <3>1 DEF Completing
  <2> QED BY <2>14, CompleteStep
<1>4. ASSUME NEW s \in Statuses, Signal(q, Final, s, completed), UNCHANGED index,
             s = "success" => i = Reports[q]
      PROVE  CommitInv'
  <2> DEFINE c == <<q, Final>>
             L == commitCalls \ {c}
  <2>1. /\ CommitComplete({c}, s, L, completed) /\ pc' = [pc EXCEPT ![q] = "posted"]
        /\ Overtake(Swept(L))
    BY <1>4 DEF Signal, Goto
  <2>2. /\ pc' \in [Requests -> Locations] /\ index' \in [Requests -> Nat]
        /\ pc'[q] = "posted"
        /\ \A p \in Requests : p # q => pc'[p] = pc[p]
    BY <1>0, <1>4, <2>1 DEF TypeOK, Locations
  <2>3. c \in Calls /\ c[1] = q /\ c[2] = 0
    <3>1. 0 \in 0..Reports[q]
      BY <1>0
    <3> QED BY <3>1, CallType DEF Final
  <2>4. L = commitCalls
    BY <1>0, <1>2, <2>3
  <2>5. IsFiniteSet({c}) /\ Number({c}, q) = 1
    BY NumberOne
  <2>6. completed[q] + Number({c}, q) + Number(L, q) = made[q]
    <3>1. Number(L, q) = Number(commitCalls, q)
      BY <2>4
    <3> HIDE DEF L
    <3>2. completed[q] \in Nat
      BY <1>0
    <3> QED BY <1>1, <2>5, <3>1, <3>2
  <2>7. \A p \in Requests \ {q} : Of({c} \cup L, p) = Of(commitCalls, p) /\ Of({c}, p) = {}
    BY <2>3, <2>4 DEF Of
  <2>8. \A d \in L \cup atDevice : d[2] \in 1..index'[d[1]]
    BY <1>2, <1>4, <2>4
  <2>o. OvertakenOf({c}, s, L)
    BY <1>0, <2>1, <2>4, OvertakeLate
  <2>9. ASSUME Effect(q, {c}, s, L, completed),
               IsFiniteSet(commitCalls'), commitCalls' \subseteq L
        PROVE  KeptOf(q)'
    <3>1. pc[q] \in {"allocated", "accepted", "failed"} /\ completed[q] \in Nat
          /\ index'[q] = index[q] /\ made'[q] = made[q] /\ given \subseteq given'
      BY <1>0, <1>4
    <3>2. s = "success" => index[q] = Reports[q] /\ Final = Final
      BY <1>4
    <3> HIDE DEF KeptOf
    <3> QED BY <2>2, <2>6, <2>9, <2>o, <3>1, <3>2, SignalKept
  <2>10. given' \subseteq Calls /\ {c} \in SUBSET Calls /\ L \in SUBSET Calls /\ IsFiniteSet(L)
         /\ {c} \cap L = {} /\ completed[q] + Number({c}, q) + Number(L, q) <= made[q]
    <3>1. given' = given /\ c \notin L
      BY <1>0
    <3>2. completed[q] + Number({c}, q) + Number(L, q) <= made[q]
      <4> HIDE DEF L, c
      <4> QED BY <1>0, <2>6
    <3> HIDE DEF c
    <3> QED BY <1>0, <2>3, <2>4, <3>1, <3>2 DEF TypeOK
  <2>11. \A p \in Requests \ {q} :
           /\ completed[p] = completed[p] /\ Of({c} \cup L, p) = Of(commitCalls, p)
           /\ pc'[p] = pc[p] /\ index'[p] = index[p]
           /\ s = "success" => Of({c}, p) \subseteq given'
           /\ pc[p] \in Listing \ {"accepted"} /\ Calm(p)' => <<p, index[p]>> \notin {c}
    BY <1>4, <2>2, <2>3, <2>7
  <2> HIDE DEF L, c, KeptOf
  <2>12. \A p \in {q} :
           /\ Calm(p) => context[p] = "live"
           /\ completed[p] + Number({c}, p) + Number(L, p) <= made[p]
    BY <1>1, <2>10
  <2>13. \A p \in {q} :
           /\ Effect(p, {c}, s, L, completed)
           /\ IsFiniteSet(commitCalls') /\ commitCalls' \subseteq L
           => KeptOf(p)'
    BY <2>9
  <2>14. Completing({q}, {c}, s, L, completed)
    <3>1. {q} \in SUBSET Requests /\ atDevice' \subseteq atDevice /\ given \subseteq given'
      OBVIOUS
    <3> QED BY <1>0, <2>1, <2>2, <2>5, <2>8, <2>10, <2>11, <2>12, <2>13, <2>o, <3>1 DEF Completing
  <2> QED BY <2>14, CompleteStep
<1>5. CASE NoMemory(q, i)
  <2>1. "nomemory" \in Statuses
    BY DEF Statuses
  <2> QED BY <1>4, <1>5, <2>1 DEF NoMemory
<1>6. CASE NoMore(q, i)
  <2>1. "error" \in Statuses /\ "success" \in Statuses
    BY DEF Statuses
  <2>2. CASE i = 0
    BY <1>4, <1>6, <2>1, <2>2 DEF NoMore
  <2>3. CASE i # 0
    BY <1>4, <1>6, <2>1, <2>3 DEF NoMore
  <2> QED BY <2>2, <2>3
<1> QED BY <1>3, <1>5, <1>6 DEF GoOn

(* A request about which nothing changes, but for answers of the device.   *)
LEMMA SameKept ==
  ASSUME CommitInv, NEW q \in Requests, commitCalls' = commitCalls,
         completed'[q] = completed[q], status'[q] = status[q],
         completions'[q] = completions[q], told'[q] = told[q], context'[q] = context[q],
         pc'[q] = pc[q], index'[q] = index[q], made'[q] = made[q],
         given \subseteq given', Of(atDevice', q) \subseteq Of(atDevice, q),
         overtaken' = overtaken
  PROVE  KeptOf(q)'
<1>1. /\ CountsAgree(q) /\ ThreadAt(q) /\ ClientTold(q) /\ (Calm(q) => ContextKept(q))
      /\ status[q] = "success" => Calm(q)
  BY DEF CommitInv, KeptOf
<1>2. CountsAgree(q)'
  BY <1>1 DEF CountsAgree, Gap
<1>3. \A i : <<q, i>> \in atDevice' => <<q, i>> \in atDevice
  BY DEF Of
<1>4. Gap(q)' = Gap(q)
  BY DEF Gap
<1>5. ThreadAt(q)'
  BY <1>1, <1>3, <1>4 DEF ThreadAt, Calm
<1>6. ClientTold(q)'
  BY <1>1 DEF ClientTold
<1>7. (Calm(q)' => ContextKept(q)') /\ (status'[q] = "success" => Calm(q)')
  BY <1>1 DEF ContextKept, Calm
<1> QED BY <1>2, <1>5, <1>6, <1>7 DEF KeptOf

LEMMA CommitNext == CommitInv /\ [Next]_vars => CommitInv'
<1> SUFFICES ASSUME CommitInv, [Next]_vars PROVE CommitInv'
  OBVIOUS
<1> USE DEF countVars, threadVars, termVars
<1>0. /\ TypeOK /\ IsFiniteSet(commitCalls) /\ commitCalls \subseteq Calls /\ given \subseteq Calls
      /\ completed \in [Requests -> Nat]
      /\ \A c \in commitCalls \cup atDevice : c[2] \in 1..index[c[1]]
      /\ \A q \in Requests : /\ CountsAgree(q) /\ ThreadAt(q) /\ ClientTold(q)
                             /\ Calm(q) => ContextKept(q)
                             /\ status[q] = "success" => Calm(q)
      /\ touched \subseteq overtaken
  BY DEF CommitInv, KeptOf, TypeOK
<1>1. ASSUME NEW q \in Requests, NEW l, l # "posted" \/ pc[q] # "posted", pc[q] # "posted",
             pc' = [pc EXCEPT ![q] = l], TypeOK',
             UNCHANGED <<commitCalls, completed, status, completions, told, index, given, expired,
                         overtaken>>,
             touched' \subseteq overtaken,
             atDevice' \subseteq atDevice \cup {<<q, index[q]>>},
             atDevice' # atDevice => index[q] >= 1,
             \A p \in Requests \ {q} : context'[p] = context[p] /\ made'[p] = made[p],
             KeptOf(q)'
      PROVE  CommitInv'
  <2>1. ASSUME NEW p \in Requests PROVE KeptOf(p)'
    <3>1. CASE p = q
      BY <1>1, <3>1
    <3>2. CASE p # q
      <4>1. Of(atDevice', p) \subseteq Of(atDevice, p)
        BY <1>1, <3>2 DEF Of
      <4>2. pc'[p] = pc[p]
        BY <1>0, <1>1, <3>2 DEF TypeOK
      <4> QED BY <1>1, <3>2, <4>1, <4>2, SameKept
    <3> QED BY <3>1, <3>2
  <2>2. \A c \in commitCalls' \cup atDevice' : c[2] \in 1..index'[c[1]]
    <3>1. index[q] \in Nat
      BY <1>0 DEF TypeOK
    <3>2. ASSUME NEW c \in atDevice' \ atDevice PROVE c[2] \in 1..index[c[1]]
      <4>1. c = <<q, index[q]>> /\ index[q] >= 1
        BY <1>1, <3>2
      <4>2. c[1] = q /\ c[2] = index[q]
        BY <4>1
      <4> QED BY <3>1, <4>1, <4>2
    <3> QED BY <1>0, <1>1, <3>2
  <2> HIDE DEF KeptOf
  <2> QED BY <1>0, <1>1, <2>1, <2>2 DEF CommitInv
<1>2. ASSUME NEW q \in Requests, Allocate(q) \/ AllocateFails(q) \/ Refuse(q) PROVE CommitInv'
  <2>1. /\ pc[q] \in {"new", "allocated"} /\ pc'[q] \in {"allocated", "refused"}
        /\ pc' = [pc EXCEPT ![q] = pc'[q]]
        /\ UNCHANGED <<commitCalls, completed, status, completions, told, index, given, expired,
                       overtaken, touched, atDevice>>
        /\ \A p \in Requests \ {q} : context'[p] = context[p] /\ made'[p] = made[p]
    BY <1>0, <1>2 DEF Allocate, AllocateFails, Refuse, Goto, TypeOK
  <2>2. \/ pc'[q] = "allocated" /\ pc[q] = "new" /\ context'[q] = "live" /\ made'[q] = 1
        \/ pc'[q] = "refused" /\ made' = made
    BY <1>0, <1>2 DEF Allocate, AllocateFails, Refuse, Goto, TypeOK, Extra
  <2>3. Reports[q] \in Nat /\ completed[q] \in Nat /\ made[q] \in Nat
    BY <1>0, CommitAssumption DEF TypeOK
  <2>4. TypeOK'
    <3>1. pc' \in [Requests -> Locations] /\ context' \in [Requests -> {"none", "live", "freed"}]
          /\ made' \in [Requests -> Nat]
      BY <1>0, <1>2 DEF Allocate, AllocateFails, Refuse, Goto, TypeOK, Locations, Extra
    <3>2. pc[q] = "new" => made[q] = 0
      BY <1>0 DEF ThreadAt
    <3>3. \A p \in Requests : made'[p] <= Reports[p] + 1 /\ completed'[p] <= made'[p]
      BY <1>0, <2>1, <2>2, <2>3, <3>2 DEF TypeOK
    <3>4. UNCHANGED termVars
      BY <1>2 DEF Allocate, AllocateFails, Refuse
    <3> QED BY <1>0, <2>1, <3>1, <3>3, <3>4 DEF TypeOK
  <2>5. KeptOf(q)'
    <3>1. Of(commitCalls, q) = {} /\ index[q] = 0
      BY <1>0, <2>1, ListedAt DEF ThreadAt
    <3>2. Number(commitCalls, q) = 0
      BY <1>0, <3>1, NumberType
    <3>3. pc[q] = "new" => completed[q] = 0
      <4>1. pc[q] = "new" => made[q] = 0 /\ Gap(q) = 0
        BY <1>0 DEF ThreadAt, Gap
      <4> QED BY <1>0, <2>3, <3>2, <4>1 DEF CountsAgree, Number
    <3>4. CountsAgree(q)'
      <4>1. pc'[q] = "allocated" => Gap(q)' = 1
        BY DEF Gap
      <4> QED BY <2>1, <2>2, <3>2, <3>3, <4>1 DEF CountsAgree, Number
    <3>5. ThreadAt(q)'
      <4>1. pc'[q] \notin Listing /\ pc'[q] # "posted" /\ pc'[q] # "new"
        BY <2>1 DEF Listing
      <4>2. made'[q] <= Reports[q] + 1
        BY <2>4 DEF TypeOK
      <4> QED BY <2>1, <2>2, <2>3, <3>1, <4>1, <4>2 DEF ThreadAt
    <3>6. ClientTold(q)' /\ (status'[q] = "success" => Calm(q)')
      BY <1>0, <2>1, <3>1 DEF ClientTold, Calm
    <3>7. Calm(q)' => ContextKept(q)'
      <4>1. pc'[q] \notin Listing /\ pc'[q] # "posted" /\ pc[q] # "posted"
        BY <2>1 DEF Listing
      <4> QED BY <1>0, <2>1, <4>1 DEF ContextKept, Calm
    <3> QED BY <3>4, <3>5, <3>6, <3>7 DEF KeptOf
  <2> HIDE DEF KeptOf
  <2> QED BY <1>0, <1>1, <2>1, <2>4, <2>5
<1>3. ASSUME NEW q \in Requests, Start(q) PROVE CommitInv'
  <2>1. index[q] = 0
    BY <1>0, <1>3 DEF Start, ThreadAt
  <2> QED BY <1>3, <2>1, GoOnKept DEF Start
<1>4. ASSUME NEW q \in Requests, Return(q) PROVE CommitInv'
  BY <1>4, GoOnKept DEF Return
<1>5. ASSUME NEW q \in Requests, Count(q) \/ Accepted(q) \/ NotAccepted(q) PROVE CommitInv'
  <2>1. /\ pc[q] \in {"unlocked", "calling"} /\ pc'[q] \in {"calling", "accepted", "failed"}
        /\ pc[q] = "unlocked" => pc'[q] = "calling" /\ made'[q] = made[q] + 1
        /\ pc[q] = "calling" => pc'[q] # "calling" /\ made'[q] = made[q]
        /\ pc' = [pc EXCEPT ![q] = pc'[q]]
        /\ UNCHANGED <<commitCalls, completed, status, completions, told, index, given, expired,
                       overtaken, context>>
        /\ \A p \in Requests \ {q} : context'[p] = context[p] /\ made'[p] = made[p]
    BY <1>0, <1>5 DEF Count, Accepted, NotAccepted, Goto, TypeOK
  <2>2. /\ <<q, index[q]>> \notin atDevice /\ index[q] >= 1
        /\ Calm(q) => <<q, index[q]>> \in commitCalls
        /\ Calm(q) => context[q] = "live"
        /\ made[q] = index[q] + Gap(q) /\ index[q] <= Reports[q]
        /\ made[q] \in Nat /\ index[q] \in Nat /\ Reports[q] \in Nat /\ completed[q] \in Nat
        /\ completed[q] <= made[q]
    BY <1>0, <2>1, CommitAssumption DEF ThreadAt, ContextKept, Listing, TypeOK
  <2>3. touched' \subseteq Requests /\ touched' \subseteq overtaken
    BY <1>0, <1>5, <2>2 DEF Count, Accepted, NotAccepted, Touching, Lost, Calm, TypeOK
  <2>4. /\ atDevice' \subseteq atDevice \cup {<<q, index[q]>>}
        /\ pc'[q] # "accepted" => atDevice' = atDevice
    BY <1>0, <1>5 DEF Count, Accepted, NotAccepted, Goto, TypeOK
  <2>5. Gap(q)' = 1 /\ (pc[q] = "unlocked" => Gap(q) = 0) /\ (pc[q] = "calling" => Gap(q) = 1)
    BY <2>1 DEF Gap
  <2>6. made'[q] = index[q] + 1
    BY <2>1, <2>2, <2>5
  <2>7. TypeOK'
    <3>1. pc' \in [Requests -> Locations] /\ made' \in [Requests -> Nat]
      BY <1>0, <1>5 DEF Count, Accepted, NotAccepted, Goto, TypeOK, Locations
    <3>2. \A p \in Requests : made'[p] <= Reports[p] + 1 /\ completed'[p] <= made'[p]
      <4>1. made'[q] <= Reports[q] + 1 /\ completed[q] <= made'[q]
        BY <2>1, <2>2, <2>6
      <4> QED BY <1>0, <2>1, <4>1 DEF TypeOK
    <3>3. atDevice' \subseteq Calls
      <4>1. index[q] \in 0..Reports[q]
        BY <2>2
      <4>2. <<q, index[q]>> \in Calls
        BY <4>1, CallType
      <4> QED BY <1>0, <2>4, <4>2 DEF TypeOK
    <3>4. UNCHANGED termVars
      BY <1>5 DEF Count, Accepted, NotAccepted
    <3> QED BY <1>0, <2>1, <2>3, <3>1, <3>2, <3>3, <3>4 DEF TypeOK
  <2>8. KeptOf(q)'
    <3>1. CountsAgree(q)'
      <4>1. made[q] = completed[q] + Number(commitCalls, q) + Gap(q)
        BY <1>0, <2>1 DEF CountsAgree, Number
      <4>2. Number(commitCalls, q) \in Nat
        BY <1>0, NumberType
      <4>3. made'[q] = completed[q] + Number(commitCalls, q) + 1
        BY <2>1, <2>2, <2>5, <4>1, <4>2
      <4> QED BY <2>1, <2>5, <4>3 DEF CountsAgree, Number
    <3>2. ThreadAt(q)'
      <4>1. /\ pc'[q] \in Listing \ {"accepted"} => <<q, index[q]>> \notin atDevice'
            /\ Calm(q)' => <<q, index[q]>> \in commitCalls'
        BY <2>1, <2>2, <2>4 DEF Calm
      <4>2. pc'[q] \notin {"new", "refused", "allocated", "posted"}
        BY <2>1
      <4>3. made'[q] <= Reports[q] + 1
        BY <2>7 DEF TypeOK
      <4> QED BY <2>1, <2>2, <2>5, <2>6, <4>1, <4>2, <4>3 DEF ThreadAt
    <3>3. ClientTold(q)' /\ (status'[q] = "success" => Calm(q)')
      BY <1>0, <2>1 DEF ClientTold, Calm
    <3>4. Calm(q)' => ContextKept(q)'
      <4>1. pc[q] \in Listing /\ pc'[q] # "posted" /\ pc[q] # "posted"
        BY <2>1 DEF Listing
      <4> QED BY <1>0, <2>1, <4>1 DEF ContextKept, Calm
    <3> QED BY <3>1, <3>2, <3>3, <3>4 DEF KeptOf
  <2> HIDE DEF KeptOf
  <2> QED BY <1>1, <2>1, <2>2, <2>3, <2>4, <2>7, <2>8
<1>6. ASSUME NEW q \in Requests, Fail(q), Listed(<<q, index[q]>>) PROVE CommitInv'
  <2> DEFINE c == <<q, index[q]>>
             L == commitCalls \ {c}
  <2>1. /\ c \in commitCalls /\ index[q] >= 1
        /\ Calm(q) => context[q] = "live"
        /\ made[q] = completed[q] + Number(commitCalls, q) + 1
    <3>1. pc[q] = "failed" /\ Gap(q) = 1
      BY <1>6 DEF Fail, Gap
    <3> QED BY <1>0, <1>6, <3>1 DEF ThreadAt, ContextKept, Listing, Listed, CountsAgree, Number
  <2>2. /\ pc[q] = "failed" /\ CommitComplete({c}, "error", L, Natural(q))
        /\ pc' = [pc EXCEPT ![q] = "posted"]
        /\ UNCHANGED <<index, made, atDevice, given, expired, termVars>>
        /\ Overtake(Swept(L))
    BY <1>6, <2>1 DEF Fail, Listed, Signal, Goto
  <2>3. /\ pc' \in [Requests -> Locations] /\ index' \in [Requests -> Nat]
        /\ pc'[q] = "posted" /\ index[q] \in Nat /\ made[q] \in Nat /\ completed[q] \in Nat
        /\ \A p \in Requests : p # q => pc'[p] = pc[p]
    BY <1>0, <2>2 DEF TypeOK, Locations
  <2>4. /\ Natural(q) \in [Requests -> Nat] /\ Natural(q)[q] = completed[q] + 1
        /\ \A p \in Requests : p # q => Natural(q)[p] = completed[p]
    BY <1>0 DEF Natural
  <2>5. /\ IsFiniteSet({c}) /\ Number({c}, q) = 1 /\ IsFiniteSet(L) /\ {c} \cap L = {}
        /\ {c} \in SUBSET Calls /\ L \in SUBSET Calls /\ {c} \cup L = commitCalls
    BY <1>0, <2>1, NumberOne, FS_Subset
  <2>6. Natural(q)[q] + Number({c}, q) + Number(L, q) = made[q]
    <3>1. Number(commitCalls, q) = Number({c}, q) + Number(L, q)
      BY <2>5, NumberUnion
    <3>2. Number(L, q) \in Nat
      BY <2>5, NumberType
    <3> HIDE DEF L, c
    <3> QED BY <2>1, <2>3, <2>4, <2>5, <3>1, <3>2
  <2>7. \A p \in Requests \ {q} : Of({c} \cup L, p) = Of(commitCalls, p) /\ Of({c}, p) = {}
    BY <2>5 DEF Of
  <2>o. OvertakenOf({c}, "error", L)
    BY <1>0, <2>2, <2>5, OvertakeLate
  <2>8. ASSUME Effect(q, {c}, "error", L, Natural(q)),
               IsFiniteSet(commitCalls'), commitCalls' \subseteq L
        PROVE  KeptOf(q)'
    <3>1. pc[q] \in {"allocated", "accepted", "failed"} /\ Natural(q)[q] \in Nat
          /\ index'[q] = index[q] /\ made'[q] = made[q] /\ given \subseteq given'
      BY <2>2, <2>3, <2>4
    <3>2. "error" = "success" => index[q] = Reports[q] /\ index[q] = Final
      OBVIOUS
    <3> HIDE DEF KeptOf
    <3> QED BY <2>3, <2>6, <2>8, <2>o, <3>1, <3>2, SignalKept
  <2>9. \A p \in Requests \ {q} :
           /\ Natural(q)[p] = completed[p] /\ Of({c} \cup L, p) = Of(commitCalls, p)
           /\ pc'[p] = pc[p] /\ index'[p] = index[p]
           /\ "error" = "success" => Of({c}, p) \subseteq given'
           /\ pc[p] \in Listing \ {"accepted"} /\ Calm(p)' => <<p, index[p]>> \notin {c}
    BY <2>2, <2>3, <2>4, <2>7
  <2>10. \A d \in L \cup atDevice : d[2] \in 1..index'[d[1]]
    BY <1>0, <2>2
  <2> HIDE DEF L, c, KeptOf
  <2>11. \A p \in {q} :
           /\ Calm(p) => context[p] = "live"
           /\ Natural(q)[p] + Number({c}, p) + Number(L, p) <= made[p]
    BY <2>1, <2>3, <2>6
  <2>12. \A p \in {q} :
           /\ Effect(p, {c}, "error", L, Natural(q))
           /\ IsFiniteSet(commitCalls') /\ commitCalls' \subseteq L
           => KeptOf(p)'
    BY <2>8
  <2>13. Completing({q}, {c}, "error", L, Natural(q))
    <3>1. /\ {q} \in SUBSET Requests /\ atDevice' \subseteq atDevice /\ given \subseteq given'
          /\ "error" \in Statuses /\ inactive' \in BOOLEAN /\ aborted' \in BOOLEAN
          /\ UNCHANGED <<made, expired>> /\ given' \subseteq Calls
      BY <1>0, <2>2 DEF Statuses, TypeOK
    <3> QED BY <2>2, <2>3, <2>4, <2>5, <2>9, <2>10, <2>11, <2>12, <2>o, <3>1 DEF Completing
  <2> QED BY <2>13, CompleteStep
(* A failed call that was completed meanwhile: only the counting is left.  *)
<1>6a. ASSUME NEW q \in Requests, Fail(q), ~Listed(<<q, index[q]>>) PROVE CommitInv'
  <2>1. /\ pc[q] = "failed" /\ ~Calm(q) /\ status[q] # "success"
        /\ told[q] # "success" /\ Gap(q) = 1
    <3>1. pc[q] = "failed" /\ Gap(q) = 1
      BY <1>6a DEF Fail, Gap
    <3>2. ~Calm(q)
      BY <1>0, <1>6a, <3>1 DEF ThreadAt, Listing, Listed
    <3> QED BY <1>0, <3>1, <3>2 DEF ClientTold
  <2>2. /\ completed' = Natural(q) /\ Touching(q) /\ pc' = [pc EXCEPT ![q] = "posted"]
        /\ UNCHANGED <<commitCalls, status, told, completions, overtaken, context>>
        /\ UNCHANGED <<index, made, atDevice, given, expired, termVars>>
    BY <1>6a DEF Fail, Goto
  <2>3. /\ pc' \in [Requests -> Locations] /\ completed' \in [Requests -> Nat]
        /\ touched' \subseteq Requests /\ touched' \subseteq overtaken' /\ pc'[q] = "posted" /\ completed'[q] = completed[q] + 1
        /\ \A p \in Requests : p # q => pc'[p] = pc[p] /\ completed'[p] = completed[p]
    BY <1>0, <2>1, <2>2 DEF TypeOK, Natural, Touching, Locations, Calm
  <2>4. /\ made[q] = completed[q] + Number(commitCalls, q) + 1
        /\ made[q] \in Nat /\ completed[q] \in Nat /\ Number(commitCalls, q) \in Nat
    BY <1>0, <2>1, NumberType DEF CountsAgree, Number, TypeOK
  <2>5. made'[q] = completed'[q] + Number(commitCalls', q) + 0 /\ completed'[q] <= made'[q]
    BY <2>2, <2>3, <2>4
  <2>6. TypeOK'
    <3>1. \A p \in Requests : made'[p] <= Reports[p] + 1 /\ completed'[p] <= made'[p]
      BY <1>0, <2>2, <2>3, <2>5 DEF TypeOK
    <3> QED BY <1>0, <2>2, <2>3, <3>1 DEF TypeOK
  <2>7. KeptOf(q)'
    <3>1. CountsAgree(q)'
      BY <2>3, <2>5 DEF CountsAgree, Gap, Number
    <3>2. ThreadAt(q)'
      <4>1. pc'[q] \notin Listing
        BY <2>3 DEF Listing
      <4> QED BY <1>0, <2>2, <2>3, <4>1 DEF ThreadAt
    <3>3. ClientTold(q)'
      BY <2>1, <2>2 DEF ClientTold
    <3> QED BY <2>1, <2>2, <3>1, <3>2, <3>3 DEF KeptOf, Calm
  <2>8. ASSUME NEW p \in Requests PROVE KeptOf(p)'
    <3>1. CASE p = q
      BY <2>7, <3>1
    <3>2. CASE p # q
      <4> HIDE DEF KeptOf
      <4> QED BY <2>2, <2>3, <3>2, SameKept
    <3> QED BY <3>1, <3>2
  <2> HIDE DEF KeptOf
  <2> QED BY <1>0, <2>2, <2>3, <2>6, <2>8 DEF CommitInv
(* The calls that complete when no thread moves: the device's answer, the  *)
(* late ones, and those that are aborted.                                  *)
<1>7. ASSUME NEW cs \in SUBSET commitCalls, NEW s \in Statuses,
             CommitComplete(cs, s, commitCalls \ cs, completed),
             UNCHANGED <<threadVars, expired>>, atDevice' \subseteq atDevice,
             given \subseteq given', given' \subseteq Calls, s = "success" => cs \subseteq given',
             inactive' \in BOOLEAN, aborted' \in BOOLEAN, OvertakenOf(cs, s, commitCalls \ cs),
             \A q \in Requests :
               pc[q] \in Listing \ {"accepted"} /\ Calm(q)' => <<q, index[q]>> \notin cs
      PROVE  CommitInv'
  <2> DEFINE L == commitCalls \ cs
  <2>1. /\ IsFiniteSet(cs) /\ IsFiniteSet(L) /\ cs \cap L = {} /\ cs \cup L = commitCalls
        /\ cs \in SUBSET Calls /\ L \in SUBSET Calls
    BY <1>0, FS_Subset
  <2>2. \A q \in Requests \ {} :
           /\ completed[q] = completed[q] /\ Of(cs \cup L, q) = Of(commitCalls, q)
           /\ pc'[q] = pc[q] /\ index'[q] = index[q]
           /\ s = "success" => Of(cs, q) \subseteq given'
           /\ pc[q] \in Listing \ {"accepted"} /\ Calm(q)' => <<q, index[q]>> \notin cs
    <3>1. \A q : Of(cs, q) \subseteq cs
      BY DEF Of
    <3> QED BY <1>7, <2>1, <3>1
  <2>3. \A d \in L \cup atDevice : d[2] \in 1..index'[d[1]]
    BY <1>0, <1>7
  <2>4. pc' \in [Requests -> Locations] /\ index' \in [Requests -> Nat]
        /\ UNCHANGED <<made, expired>> /\ CommitComplete(cs, s, L, completed)
        /\ OvertakenOf(cs, s, L)
    BY <1>0, <1>7 DEF TypeOK
  <2> HIDE DEF L
  <2>5. Completing({}, cs, s, L, completed)
    BY <1>0, <1>7, <2>1, <2>2, <2>3, <2>4 DEF Completing
  <2> QED BY <2>5, CompleteStep
<1>8. ASSUME NEW c \in atDevice, DeviceAnswers(c) PROVE CommitInv'
  <2>1. PICK s \in {"success", "error", "timeout", "aborted"} :
          /\ IF Listed(c)
             THEN CommitComplete({c}, s, commitCalls \ {c}, completed)
                  /\ Overtake(Swept(commitCalls \ {c}))
             ELSE UNCHANGED <<countVars, context, touched>>
          /\ given' = IF s = "success" THEN given \cup {c} ELSE given
    BY <1>8 DEF DeviceAnswers
  <2>2. atDevice' = atDevice \ {c} /\ UNCHANGED <<threadVars, expired, termVars>>
    BY <1>8 DEF DeviceAnswers
  <2>3. /\ given \subseteq given' /\ given' \subseteq Calls /\ s \in Statuses
        /\ s = "success" => {c} \subseteq given'
        /\ inactive' \in BOOLEAN /\ aborted' \in BOOLEAN
    BY <1>0, <2>1, <2>2 DEF TypeOK, Statuses
  <2>4. CASE Listed(c)
    <3>1. {c} \in SUBSET commitCalls /\ CommitComplete({c}, s, commitCalls \ {c}, completed)
      BY <2>1, <2>4 DEF Listed
    <3>2. \A q \in Requests : pc[q] \in Listing \ {"accepted"} => <<q, index[q]>> \notin {c}
      BY <1>0 DEF ThreadAt
    <3>3. OvertakenOf({c}, s, commitCalls \ {c})
      <4>1. commitCalls \ {c} \in SUBSET Calls /\ Overtake(Swept(commitCalls \ {c}))
        BY <1>0, <2>1, <2>4
      <4> QED BY <1>0, <3>1, <4>1, OvertakeLate
    <3> QED BY <1>7, <2>2, <2>3, <3>1, <3>2, <3>3
  <2>5. CASE ~Listed(c)
    <3>1. UNCHANGED <<countVars, context, touched, threadVars, expired, termVars>>
      BY <2>1, <2>2, <2>5
    <3>2. ASSUME NEW q \in Requests PROVE KeptOf(q)'
      <4>1. Of(atDevice', q) \subseteq Of(atDevice, q)
        BY <2>2 DEF Of
      <4> QED BY <2>3, <3>1, <4>1, SameKept
    <3>3. TypeOK'
      BY <1>0, <2>2, <2>3, <3>1 DEF TypeOK
    <3> HIDE DEF KeptOf
    <3> QED BY <1>0, <2>2, <3>1, <3>2, <3>3 DEF CommitInv
  <2> QED BY <2>4, <2>5
<1>9. CASE TimerFires
  <2>1. /\ {} \in SUBSET commitCalls /\ "success" \in Statuses /\ commitCalls \ {} = commitCalls
        /\ CommitComplete({}, "success", commitCalls \ {}, completed)
        /\ Overtake(Swept(commitCalls \ {}))
        /\ UNCHANGED <<threadVars, atDevice, given, expired, termVars>>
    BY <1>9 DEF TimerFires, Statuses
  <2>2. inactive' \in BOOLEAN /\ aborted' \in BOOLEAN
    BY <1>0, <2>1 DEF TypeOK
  <2>3. OvertakenOf({}, "success", commitCalls \ {})
    BY <1>0, <2>1, OvertakeLate
  <2> QED BY <1>0, <1>7, <2>1, <2>2, <2>3
<1>10. CASE WillTerminate
  <2>1. /\ Overtake(commitCalls)
        /\ commitCalls \in SUBSET commitCalls /\ "aborted" \in Statuses
        /\ CommitComplete(commitCalls, "aborted", commitCalls \ commitCalls, completed)
        /\ UNCHANGED <<threadVars, atDevice, given, expired, inactive>> /\ aborted' = TRUE
    BY <1>10 DEF WillTerminate, Outstanding, Statuses
  <2>2. OvertakenOf(commitCalls, "aborted", commitCalls \ commitCalls)
    <3>1. overtaken' = overtaken \cup {c[1] : c \in {d \in commitCalls : BeingMade(d)}}
      BY <2>1 DEF Overtake
    <3>2. \A c \in commitCalls : c[1] \in Requests
      BY <1>0 DEF Calls
    <3>3. overtaken' \subseteq Requests
      BY <1>0, <3>1, <3>2 DEF TypeOK
    <3> QED BY <3>1, <3>3 DEF OvertakenOf, Of
  <2>3. inactive' \in BOOLEAN /\ aborted' \in BOOLEAN
    BY <1>0, <2>1 DEF TypeOK
  <2>4. ASSUME NEW q \in Requests, pc[q] \in Listing \ {"accepted"}, Calm(q)'
        PROVE  <<q, index[q]>> \notin commitCalls
    <3> DEFINE c == <<q, index[q]>>
    <3>1. BeingMade(c) /\ c[1] = q
      BY <2>4 DEF BeingMade, Listing
    <3>2. c \in commitCalls => q \in overtaken'
      BY <2>1, <3>1 DEF Overtake
    <3> QED BY <2>4, <3>2 DEF Calm
  <2> QED BY <1>0, <1>7, <2>1, <2>2, <2>3, <2>4
<1>11. ASSUME SetInactive \/ (\E q \in Requests : Expire(q)) \/ UNCHANGED vars PROVE CommitInv'
  <2>1. UNCHANGED <<countVars, context, touched, threadVars, atDevice, given>>
    BY <1>11 DEF SetInactive, Expire, vars
  <2>3. expired' \subseteq Requests /\ inactive' \in BOOLEAN /\ aborted' \in BOOLEAN
    BY <1>0, <1>11 DEF SetInactive, Expire, vars, TypeOK
  <2>4. TypeOK'
    BY <1>0, <2>1, <2>3 DEF TypeOK
  <2>5. ASSUME NEW q \in Requests PROVE KeptOf(q)'
    BY <2>1, SameKept
  <2> HIDE DEF KeptOf
  <2> QED BY <1>0, <2>1, <2>4, <2>5 DEF CommitInv
<1> QED BY <1>2, <1>3, <1>4, <1>5, <1>6, <1>6a, <1>8, <1>9, <1>10, <1>11 DEF Next, Post

------------------------------------------------------------------------------
LEMMA CommitInvHolds == Spec => []CommitInv
BY CommitInit, CommitNext, PTL DEF Spec

(* The variables keep their types; in particular no more calls of a        *)
(* request are completed than it has made, and no more are made than it    *)
(* has reports, and one.                                                   *)
THEOREM TypeCorrect == Spec => []TypeOK
<1>1. CommitInv => TypeOK
  BY DEF CommitInv
<1> QED BY <1>1, CommitInvHolds, PTL

(* The extra call holds the completion back: the client is told once, when *)
(* the thread has made its calls and the last answer has come, and nobody  *)
(* uses the context after that; but for the requests of which the timer or *)
(* the termination completed a call that the device had not yet accepted,  *)
(* and these take no other with them.                                      *)
THEOREM ToldOnceAtTheEnd == Spec => []Completions
<1>1. ASSUME CommitInv, NEW q \in Requests, Calm(q) PROVE OnceAtTheEnd(q) /\ ToldWhenDone(q)
  <2>1. ContextKept(q)
    BY <1>1 DEF CommitInv, KeptOf
  <2> QED BY <2>1 DEF ContextKept, OnceAtTheEnd, ToldWhenDone
<1>2. CommitInv => Completions
  BY <1>1 DEF CommitInv, Completions, Calm
<1> QED BY <1>2, CommitInvHolds, PTL

(* A client that is told success has had every report answered with        *)
(* success, whatever the timer and the termination did meanwhile.          *)
THEOREM SuccessEarned == Spec => []SuccessMeansAll
<1>1. CommitInv => SuccessMeansAll
  BY DEF CommitInv, KeptOf, ClientTold, SuccessMeansAll
<1> QED BY <1>1, CommitInvHolds, PTL

================================================================================
