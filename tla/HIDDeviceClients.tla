--------------------------- MODULE HIDDeviceClients ---------------------------
(***************************************************************************)
(* The library clients of one IOHIDDevice: open, seize and close, and the  *)
(* input reports that go to the queue of each client in turn.  A client    *)
(* that asked for kIOHIDOptionsPrivateTypeNoDroppedReports holds back the  *)
(* threads whose reports its full queue cannot take: they sleep in         *)
(* fBlockedReports, without the gate, until its process has emptied the    *)
(* queue and resumes them, or the client is closed or seized.              *)
(*                                                                         *)
(* Everything in the kernel runs under the device's gate, one step of a    *)
(* report's thread for each queue; processes read their rings without it.  *)
(* Queues count as started; who has stopped one takes no reports.          *)
(* A report's thread is named by the report.  They are numbered in the     *)
(* order in which they get the gate.                                       *)
(***************************************************************************)
EXTENDS Integers, Sequences, FiniteSets, SequencesExt

CONSTANTS
  Clients,     \* the library clients of the device
  Nobody,      \* no client; a gate that is free
  QueueArray,  \* the clients in the order in which their queues were added
  Options,     \* Options[c]: the sets of options, "seize" and "keep", that c
               \* may open with
  Leavers,     \* the clients that dispose of their queue once they are closed
  MaxReports,  \* BOUND: input reports
  Cookie,      \* Cookie[r]: the element that reports with r's ID are handled by
  Cap,         \* entries that fit into a queue
  MaxOpens     \* BOUND: MaxOpens[c]: opens of c

Reports == 1..MaxReports
Cookies == {Cookie[r] : r \in Reports}

ASSUME ClientsAssumption ==
  /\ Nobody \notin Clients \cup Reports
  /\ QueueArray \in Seq(Clients) /\ IsInjective(QueueArray)  \* addEventQueue adds none twice
  /\ Leavers \subseteq Clients
  /\ Options \in [Clients -> SUBSET SUBSET {"seize", "keep"}]
  /\ MaxReports \in Nat /\ DOMAIN Cookie = Reports
  /\ Cap \in Nat \ {0} /\ MaxOpens \in [Clients -> Nat]

VARIABLES
  gate,             \* the report whose thread holds the gate, or Nobody
  seizedClient,     \* _seizedClient of the device
  opened,           \* fClientOpened of each client
  seized,           \* fClientSeized
  valid,            \* fValid: the client's queue is enabled
  bits,             \* fCachedOptionBits
  closer,           \* its close(): "no", "asleep", "woken"
  opens,            \* how often it was opened
  queueArray,       \* _queueArray of the report handlers
  ring,             \* the client's queue in shared memory
  status,           \* kIOHIDQueueStatusBlocked in the queue's header
  fBlockedReports,  \* the reports that wait for room
  message,          \* a notification lies in the port of the client's process
  app,              \* its run loop: "idle", "reading", "empty", "resuming"
  received,         \* what it read
  pc,               \* the report's thread: "new", "run", "asleep", "woken", "done"
  index,            \* its place in the queue array
  elementValue,     \* the report that each handler's element holds
  owed,             \* history: reports a client must get, as it has been open,
                    \* unseized and keeping its reports since they came
  late,             \* history: reports that were blocked for a client when it
                    \* was closed or seized, or no longer kept its reports:
                    \* later ones no longer queue up behind them
  misled            \* history: clients that a seizing, or its end, has passed
                    \* by, as they had opened with the same options, or that
                    \* took the close of a refused client for its end

deviceVars == <<seizedClient, opened, seized, valid, bits>>
callVars == <<closer, opens>>
queueVars == <<ring, status, fBlockedReports, message>>
appVars == <<app, received>>
threadVars == <<gate, pc, index, elementValue>>
historyVars == <<owed, late, misled>>
vars == <<deviceVars, callVars, queueArray, queueVars, appVars, threadVars, historyVars>>

TypeOK ==
  /\ gate \in Reports \cup {Nobody} /\ seizedClient \in Clients \cup {Nobody}
  /\ opened \in [Clients -> BOOLEAN] /\ seized \in [Clients -> BOOLEAN]
  /\ valid \in [Clients -> BOOLEAN] /\ status \in [Clients -> BOOLEAN]
  /\ message \in [Clients -> BOOLEAN]
  /\ bits \in [Clients -> SUBSET {"seize", "keep"}]
  /\ closer \in [Clients -> {"no", "asleep", "woken"}]
  /\ opens \in [Clients -> Nat] /\ \A c \in Clients : opens[c] <= MaxOpens[c]
  /\ queueArray \in Seq(Clients)
  /\ app \in [Clients -> {"idle", "reading", "empty", "resuming"}]
  /\ ring \in [Clients -> Seq(Reports)] /\ received \in [Clients -> Seq(Reports)]
  /\ fBlockedReports \in [Clients -> Seq(Reports)]
  /\ \A c \in Clients : /\ Len(ring[c]) <= Cap
                        /\ status[c] <=> fBlockedReports[c] # <<>>
  /\ owed \in [Clients -> SUBSET Reports] /\ late \subseteq Reports
  /\ misled \subseteq Clients
  /\ pc \in [Reports -> {"new", "run", "asleep", "woken", "done"}]
  /\ gate # Nobody <=> \E r \in Reports : pc[r] = "run"
  /\ index \in [Reports -> Nat]
  /\ elementValue \in [Cookies -> Reports \cup {Nobody}]

Init ==
  /\ gate = Nobody /\ seizedClient = Nobody
  /\ opened = [c \in Clients |-> FALSE] /\ seized = [c \in Clients |-> FALSE]
  /\ valid = [c \in Clients |-> FALSE] /\ bits = [c \in Clients |-> {}]
  /\ closer = [c \in Clients |-> "no"] /\ opens = [c \in Clients |-> 0]
  /\ queueArray = QueueArray
  /\ ring = [c \in Clients |-> <<>>] /\ status = [c \in Clients |-> FALSE]
  /\ fBlockedReports = [c \in Clients |-> <<>>]
  /\ message = [c \in Clients |-> FALSE]
  /\ app = [c \in Clients |-> "idle"] /\ received = [c \in Clients |-> <<>>]
  /\ pc = [r \in Reports |-> "new"] /\ index = [r \in Reports |-> 0]
  /\ elementValue = [e \in Cookies |-> Nobody]
  /\ owed = [c \in Clients |-> {}] /\ late = {} /\ misled = {}

------------------------------------------------------------------------------
(* Who gets the reports that come, and waits for room rather than lose one.*)
CanDropReport(c) == "keep" \notin bits[c]
Waits(c) == ~CanDropReport(c) /\ opened[c] /\ ~seized[c]

(* A client that no longer waits is owed nothing; those that are blocked   *)
(* for it are late.                                                        *)
NoLongerWait ==
  /\ owed' = [c \in Clients |-> IF Waits(c)' THEN owed[c] ELSE {}]
  /\ late' = late \cup UNION {ToSet(fBlockedReports[c]) : c \in {d \in Clients : ~Waits(d)'}}

(* messageGated: who heeds a message about an open or close with o.        *)
Heeds(d, o) == "seize" \in o /\ o # bits[d]

(* Opening with o.  IOHIDDevice::handleOpen takes the client into its set  *)
(* even if another has seized the device, and refuses; who is in the set   *)
(* already does not seize.                                                 *)
Accepts(c) == seizedClient \in {Nobody, c}
Seizes(c, o) == "seize" \in o /\ seizedClient = Nobody /\ ~opened[c]

(* open(): the seized clients lose their queues, the new one gets its own  *)
(* as resourceNotificationGated finds it privileged.                       *)
RequestingClose(c, o) == {d \in Clients \ {c} : Seizes(c, o) /\ Heeds(d, o)}

MisledByOpen(c, o) ==
  IF Seizes(c, o) THEN {d \in Clients \ {c} : opened[d] /\ ~Heeds(d, o)}
  ELSE {d \in misled : d = c => opened[c]}

Open(c, o) ==
  /\ gate = Nobody /\ closer[c] = "no" /\ opens[c] < MaxOpens[c]
  /\ seizedClient' = IF Seizes(c, o) THEN c ELSE seizedClient
  /\ opened' = [opened EXCEPT ![c] = TRUE]
  /\ bits' = [bits EXCEPT ![c] = o]
  /\ seized' = [d \in Clients |-> IF d = c THEN ~Accepts(c)
                                  ELSE seized[d] \/ d \in RequestingClose(c, o)]
  /\ valid' = [d \in Clients |-> IF d = c /\ Accepts(c) THEN TRUE
                                 ELSE valid[d] /\ d \notin RequestingClose(c, o)]
  /\ opens' = [opens EXCEPT ![c] = @ + 1]
  /\ NoLongerWait /\ misled' = MisledByOpen(c, o)
  /\ UNCHANGED <<closer, queueArray, queueVars, appVars, threadVars>>

(* Closing.  The clients that heed the message are no longer seized.       *)
BugStaysSeized(c) == seizedClient
AfterClose(c) == IF seizedClient = c THEN Nobody ELSE seizedClient

WasClosed(c) == {d \in Clients \ {c} : Heeds(d, bits[c])}

MisledByClose(c) ==
  IF Accepts(c)
  THEN {d \in Clients \ {c} : d \notin WasClosed(c) /\ (seizedClient = c \/ d \in misled)}
  ELSE (misled \cup WasClosed(c)) \ {c, seizedClient}

(* Waking the first of the list, as every waker does.                      *)
Woken(q) == IF q # <<>> /\ pc[Head(q)] = "asleep"
            THEN [pc EXCEPT ![Head(q)] = "woken"] ELSE pc

Close(c) ==
  /\ gate = Nobody /\ opened[c] /\ closer[c] = "no"
  /\ seizedClient' = AfterClose(c)
  /\ opened' = [opened EXCEPT ![c] = FALSE]
  /\ bits' = [bits EXCEPT ![c] = {}]
  /\ seized' = [d \in Clients |-> seized[d] /\ d # c /\ d \notin WasClosed(c)]
  /\ valid' = [d \in Clients |->
                 d # c /\ (valid[d] \/ (opened[d] /\ d \in WasClosed(c)))]
  /\ pc' = Woken(fBlockedReports[c])
  /\ closer' = [closer EXCEPT ![c] = IF fBlockedReports[c] = <<>> THEN @ ELSE "asleep"]
  /\ NoLongerWait /\ misled' = MisledByClose(c)
  /\ UNCHANGED <<opens, queueArray, queueVars, appVars, gate, index, elementValue>>

CloseReturns(c) ==
  /\ gate = Nobody /\ closer[c] = "woken"
  /\ closer' = [closer EXCEPT ![c] = "no"]
  /\ UNCHANGED <<deviceVars, opens, queueArray, queueVars, appVars, threadVars, historyVars>>

DisposeQueue(c) ==
  /\ gate = Nobody /\ c \in Leavers /\ ~opened[c] /\ opens[c] > 0
  /\ closer[c] = "no"
  /\ \E i \in DOMAIN queueArray :
       queueArray[i] = c /\ queueArray' = RemoveAt(queueArray, i)
  /\ UNCHANGED <<deviceVars, callVars, queueVars, appVars, threadVars, historyVars>>

------------------------------------------------------------------------------
(* Input reports.                                                          *)

(* The report is read into its element, which later ones overwrite.        *)
HandleReport(r) ==
  /\ gate = Nobody /\ pc[r] = "new" /\ \A s \in 1..(r - 1) : pc[s] # "new"
  /\ gate' = r
  /\ pc' = [pc EXCEPT ![r] = "run"] /\ index' = [index EXCEPT ![r] = 1]
  /\ elementValue' = [elementValue EXCEPT ![Cookie[r]] = r]
  /\ owed' = [c \in Clients |->
                IF Waits(c) /\ Contains(queueArray, c) THEN owed[c] \cup {r} ELSE owed[c]]
  /\ UNCHANGED <<late, misled, deviceVars, callVars, queueArray, queueVars, appVars>>

(* IOHIDEventQueue::enqueue into c's queue: a disabled queue swallows the  *)
(* entry; the process is told if the queue was empty, and if it is full.   *)
BugOneMore(c) == Len(ring[c]) <= Cap
Room(c) == Len(ring[c]) < Cap

Stored(c, r) ==
  /\ IF valid[c]
     THEN /\ Room(c)
          /\ ring' = [ring EXCEPT ![c] = Append(@, elementValue[Cookie[r]])]
          /\ message' = [message EXCEPT ![c] = @ \/ ring[c] = <<>>]
     ELSE UNCHANGED <<ring, message>>
Fails(c) == valid[c] /\ ~Room(c)

(* The queue that r's thread has come to; it goes on to the next.          *)
At(r, c) == gate = r /\ index[r] \in DOMAIN queueArray /\ queueArray[index[r]] = c
GoesOn(r) == index' = [index EXCEPT ![r] = @ + 1]

BugOvertakes(c) == Fails(c)
MustWait(c) == status[c] \/ Fails(c)

Enqueue(r, c) ==
  /\ At(r, c) /\ ~MustWait(c)
  /\ Stored(c, r) /\ GoesOn(r)
  /\ UNCHANGED <<deviceVars, callVars, queueArray, status, fBlockedReports, appVars,
                 gate, pc, elementValue, historyVars>>

Drop(r, c) ==
  /\ At(r, c) /\ MustWait(c) /\ ~Waits(c)
  /\ message' = [message EXCEPT ![c] = @ \/ ~status[c]]
  /\ GoesOn(r)
  /\ UNCHANGED <<deviceVars, callVars, queueArray, ring, status, fBlockedReports,
                 appVars, gate, pc, elementValue, historyVars>>

Block(r, c) ==
  /\ At(r, c) /\ MustWait(c) /\ Waits(c)
  /\ status' = [status EXCEPT ![c] = TRUE]
  /\ message' = [message EXCEPT ![c] = TRUE]
  /\ fBlockedReports' = [fBlockedReports EXCEPT ![c] = Append(@, r)]
  /\ pc' = [pc EXCEPT ![r] = "asleep"]
  /\ gate' = Nobody
  /\ UNCHANGED <<deviceVars, callVars, queueArray, ring, appVars, index, elementValue,
                 historyVars>>

(* The woken thread leaves the list and wakes the next, or, as the last,   *)
(* the thread that is closing the client.                                  *)
BugWakesNobody(q) == pc
NextWoken(q) == Woken(q)
BugForgetsCloser(c) == FALSE
WakesCloser(c) == ~opened[c]

Leave(r, c) ==
  LET left == Tail(fBlockedReports[c]) IN
    /\ fBlockedReports' = [fBlockedReports EXCEPT ![c] = left]
    /\ status' = [status EXCEPT ![c] = left # <<>>]
    /\ pc' = [NextWoken(left) EXCEPT ![r] = "run"]
    /\ closer' = [closer EXCEPT ![c] =
                    IF left = <<>> /\ WakesCloser(c) /\ @ = "asleep" THEN "woken" ELSE @]
    /\ gate' = r /\ GoesOn(r)
    /\ UNCHANGED <<deviceVars, opens, queueArray, appVars, elementValue, historyVars>>

GetsGate(r, c) ==
  /\ gate = Nobody /\ pc[r] = "woken"
  /\ fBlockedReports[c] # <<>> /\ Head(fBlockedReports[c]) = r

Retry(r, c) == GetsGate(r, c) /\ Waits(c) /\ Stored(c, r) /\ Leave(r, c)
GiveUp(r, c) ==
  GetsGate(r, c) /\ ~Waits(c) /\ Leave(r, c) /\ UNCHANGED <<ring, message>>
SleepAgain(r, c) ==
  /\ GetsGate(r, c) /\ Waits(c) /\ Fails(c)
  /\ message' = [message EXCEPT ![c] = TRUE]
  /\ pc' = [pc EXCEPT ![r] = "asleep"]
  /\ UNCHANGED <<deviceVars, callVars, queueArray, ring, status, fBlockedReports, appVars,
                 gate, index, elementValue, historyVars>>

ReportHandled(r) ==
  /\ gate = r /\ index[r] \notin DOMAIN queueArray
  /\ gate' = Nobody /\ pc' = [pc EXCEPT ![r] = "done"]
  /\ UNCHANGED <<deviceVars, callVars, queueArray, queueVars, appVars, index,
                 elementValue, historyVars>>

------------------------------------------------------------------------------
(* The client's process: it is told, reads until the queue is empty, looks *)
(* at the status and resumes the blocked reports.                          *)
ValueAvailable(c) ==
  /\ message[c] /\ app[c] = "idle"
  /\ message' = [message EXCEPT ![c] = FALSE]
  /\ app' = [app EXCEPT ![c] = "reading"]
  /\ UNCHANGED <<deviceVars, callVars, queueArray, ring, status, fBlockedReports,
                 received, threadVars, historyVars>>

CopyNextValue(c) ==
  /\ app[c] = "reading"
  /\ IF ring[c] # <<>>
     THEN /\ received' = [received EXCEPT ![c] = Append(@, Head(ring[c]))]
          /\ ring' = [ring EXCEPT ![c] = Tail(@)]
          /\ UNCHANGED app
     ELSE app' = [app EXCEPT ![c] = "empty"] /\ UNCHANGED <<received, ring>>
  /\ UNCHANGED <<deviceVars, callVars, queueArray, status, fBlockedReports, message,
                 threadVars, historyVars>>

SignalQueueEmpty(c) ==
  /\ app[c] = "empty"
  /\ app' = [app EXCEPT ![c] = IF status[c] THEN "resuming" ELSE "idle"]
  /\ UNCHANGED <<deviceVars, callVars, queueArray, queueVars, received, threadVars, historyVars>>

ResumeReports(c) ==
  /\ app[c] = "resuming" /\ gate = Nobody
  /\ pc' = Woken(fBlockedReports[c])
  /\ app' = [app EXCEPT ![c] = "idle"]
  /\ UNCHANGED <<deviceVars, callVars, queueArray, queueVars, received, gate, index,
                 elementValue, historyVars>>

------------------------------------------------------------------------------
Call(c) == (\E o \in Options[c] : Open(c, o)) \/ Close(c) \/ DisposeQueue(c)
Run(r) == \/ ReportHandled(r)
          \/ \E c \in Clients : Enqueue(r, c) \/ Drop(r, c) \/ Block(r, c)
WokenRuns(r) == \E c \in Clients : Retry(r, c) \/ GiveUp(r, c) \/ SleepAgain(r, c)
Read(c) == \/ ValueAvailable(c) \/ CopyNextValue(c)
           \/ SignalQueueEmpty(c) \/ ResumeReports(c)

Next == \/ \E c \in Clients : Call(c) \/ CloseReturns(c) \/ Read(c)
        \/ \E r \in Reports : HandleReport(r) \/ Run(r) \/ WokenRuns(r)

Spec == Init /\ [][Next]_vars

(* Threads that can have the gate get it, and processes read their queues. *)
FairSpec ==
  /\ Spec
  /\ \A r \in Reports : WF_vars(Run(r)) /\ WF_vars(WokenRuns(r))
  /\ \A c \in Clients : WF_vars(CloseReturns(c)) /\ WF_vars(Read(c))

------------------------------------------------------------------------------
(* Properties.                                                             *)

(* HIDDevice.h: NoDroppedReports is "used to prevent reports from getting  *)
(* dropped when the report queue is full".  A client gets the reports in   *)
(* the order in which they came, none twice, and one that keeps its        *)
(* reports gets every one that came while it was open, unseized and kept   *)
(* them.  Only a report that was blocked for another client, when that one *)
(* was closed or seized or opened otherwise, can come after a report that  *)
(* it preceded.                                                            *)
DeliveredInOrder ==
  \A c \in Clients :
    LET got == received[c] \o ring[c] IN
      /\ \A i, j \in DOMAIN got : i < j => got[i] < got[j] \/ got[j] \in late \ {got[i]}
      /\ \A r \in owed[c] : pc[r] = "done" => Contains(got, r)

(* IOHIDDeviceClass.m: "Device is seized, reports will be dropped until    *)
(* the seizing client closes": an open client's queue is shut exactly      *)
(* while another client has seized the device, unless a message about that *)
(* has misled it.                                                          *)
SeizeAgrees ==
  \A c \in Clients \ misled :
    opened[c] => /\ seized[c] <=> seizedClient \notin {Nobody, c}
                 /\ valid[c] <=> ~seized[c]

(* No wake-up is lost: the first of the blocked reports is awake, or the   *)
(* client's process is about to resume it; and who closes the client waits *)
(* only while a report that was woken has not left.                        *)
WaitersAreWoken ==
  \A c \in Clients :
    /\ fBlockedReports[c] # <<>> =>
         \/ pc[Head(fBlockedReports[c])] = "woken"
         \/ message[c] \/ app[c] # "idle"
    /\ closer[c] = "asleep" =>
         /\ ~opened[c] /\ fBlockedReports[c] # <<>>
         /\ pc[Head(fBlockedReports[c])] = "woken"

(* Threads of reports and of close() do not sleep for ever.                *)
ThreadsReturn ==
  /\ \A r \in Reports : pc[r] = "asleep" ~> pc[r] = "done"
  /\ \A c \in Clients : closer[c] = "asleep" ~> closer[c] = "no"

(* Who sleeps always has its wake-up to come, and returns.                 *)
NobodyStranded == [](WaitersAreWoken /\ ThreadsReturn)
==============================================================================
