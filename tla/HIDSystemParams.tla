---------------------------- MODULE HIDSystemParams ----------------------------
(***************************************************************************)
(* IOHIDSystem::setParamProperties: the settings of the user, sent to every *)
(* device that is attached and saved for those that come later.            *)
(*                                                                          *)
(* A set enters the command gate to announce itself and to take the list of *)
(* devices (Pre), tells the devices one by one outside the gate, and enters *)
(* the gate again to save what it set (Post).  Between the two anything     *)
(* else may happen: other sets queue up behind the flag, devices come and   *)
(* go on the notification thread, and a process gives one device settings   *)
(* of its own.                                                              *)
(*                                                                          *)
(* It is the same object as that of HIDSystem, with other variables: names  *)
(* that both would have begin with "Params" here.                           *)
(***************************************************************************)
EXTENDS Naturals

CONSTANTS
    Setters,     \* the threads that set parameters
    Devices,
    Filtered,    \* the devices whose own settings hide the global ones
    Keys,
    Values,
    Requests,    \* what each thread sets: a dictionary, and whether it is temporary
    OwnSettings, \* the dictionaries given to one device
    MaxSets      \* how many sets each thread makes

Settings == UNION {[ks -> Values] : ks \in SUBSET Keys}

\* One dictionary over another.
Merge(f, g) == [k \in DOMAIN f \cup DOMAIN g |-> IF k \in DOMAIN f THEN f[k] ELSE g[k]]

\* A set: its dictionary, whether it is temporary, the devices still to be
\* told, and what is being told to the device in hand.
Sets == [dict : Settings, temporary : BOOLEAN, tell : SUBSET Devices,
         hand : SUBSET Devices, valid : Settings]

ASSUME ParamsAssumption ==
    /\ Filtered \subseteq Devices
    /\ Requests \in [Setters -> SUBSET [dict : Settings, temporary : BOOLEAN]]
    /\ OwnSettings \subseteq Settings
    /\ MaxSets \in Nat

VARIABLES
    savedParameters,
    inProgress,      \* setParamPropertiesInProgress
    setter,          \* what each thread is doing
    set,             \* the set each thread makes
    sets,            \* how many each thread has made
    state,           \* how far each device has come
    own,             \* the settings given to the device itself
    effective,       \* the settings the device works with
    last             \* the last set that began, and the devices it found registered

device     == <<state, own, effective>>
threads    == <<setter, set, sets>>
paramsVars == <<savedParameters, inProgress, threads, device, last>>

Empty == [k \in {} |-> CHOOSE v \in Values : TRUE]

NoSet == [dict |-> Empty, temporary |-> FALSE, tell |-> {}, hand |-> {}, valid |-> Empty]

ParamsInit ==
    /\ savedParameters = Empty
    /\ inProgress = FALSE
    /\ setter = [c \in Setters |-> "idle"]
    /\ set = [c \in Setters |-> NoSet]
    /\ sets = [c \in Setters |-> 0]
    /\ state = [d \in Devices |-> "absent"]
    /\ own = [d \in Devices |-> Empty]
    /\ effective = [d \in Devices |-> Empty]
    /\ last = [dict |-> Empty, temporary |-> FALSE, told |-> {}]

Attached == {d \in Devices : state[d] \in {"attached", "registered"}}

(***************************************************************************)
(* Setting parameters.                                                     *)
(***************************************************************************)

\* The rest of setParamPropertiesPreGated: raise the flag and take the list
\* of providers, in which a device is from the moment it is attached.
Begin(c, r) ==
    /\ inProgress' = TRUE
    /\ setter' = [setter EXCEPT ![c] = "telling"]
    /\ set' = [set EXCEPT ![c] = [NoSet EXCEPT !.dict = r.dict, !.temporary = r.temporary,
                                              !.tell = Attached]]
    /\ last' = [dict |-> r.dict, temporary |-> r.temporary,
                told |-> {d \in Devices : state[d] = "registered"}]

\* The loop that it starts with: sleep while another set is in progress.
Pre(c, r) ==
    IF inProgress
    THEN /\ setter' = [setter EXCEPT ![c] = "asleep"]
         /\ set' = [set EXCEPT ![c] = [NoSet EXCEPT !.dict = r.dict, !.temporary = r.temporary]]
         /\ UNCHANGED <<inProgress, last>>
    ELSE Begin(c, r)

SetParamProperties(c) ==
    /\ setter[c] = "idle" /\ sets[c] < MaxSets
    /\ sets' = [sets EXCEPT ![c] = @ + 1]
    /\ \E r \in Requests[c] : Pre(c, r)
    /\ UNCHANGED <<savedParameters, device>>

\* commandSleep ends on a signal as well as on the wake-up.
AbortSet(c) ==
    /\ setter[c] = "asleep"
    /\ setter' = [setter EXCEPT ![c] = "awake"]
    /\ UNCHANGED <<savedParameters, inProgress, set, sets, device, last>>

Resume(c) ==
    /\ setter[c] = "awake"
    /\ Pre(c, set[c])
    /\ UNCHANGED <<savedParameters, sets, device>>

\* MUTANT: the keys the device has of its own are the ones it is told.
BugInverted(c, d) == [k \in DOMAIN set[c].dict \cap DOMAIN own[d] |-> set[c].dict[k]]

\* createFilteredParamPropertiesForService: what the device has set for
\* itself is not pushed down to it.
Valid(c, d) == [k \in DOMAIN set[c].dict \ DOMAIN own[d] |-> set[c].dict[k]]

\* The next device of the list; the shims of the older keyboards, pointing
\* devices and consumer controls, and the event services, take everything.
NextDevice(c, d) ==
    /\ setter[c] = "telling" /\ set[c].hand = {}
    /\ d \in set[c].tell
    /\ LET valid == IF d \in Filtered THEN Valid(c, d) ELSE set[c].dict
       IN  set' = [set EXCEPT ![c] = [set[c] EXCEPT !.tell = set[c].tell \ {d},
                                                   !.hand = {d}, !.valid = valid]]
    /\ UNCHANGED <<savedParameters, inProgress, setter, sets, device, last>>

\* The call into the device, which may have gone by now: what it tells a
\* device that is only kept by the list is of no use to anybody.
Tell(c) ==
    /\ setter[c] = "telling"
    /\ \E d \in set[c].hand :
          effective' = IF state[d] = "gone" THEN effective
                       ELSE [effective EXCEPT ![d] = Merge(set[c].valid, @)]
    /\ set' = [set EXCEPT ![c] = [@ EXCEPT !.hand = {}, !.valid = Empty]]
    /\ UNCHANGED <<savedParameters, inProgress, setter, sets, state, own, last>>

\* MUTANT: the sleepers are left asleep.
BugNoWakeup(c) == [setter EXCEPT ![c] = "idle"]

\* The threads after a set: every sleeper is woken.
Woken(c) ==
    [e \in Setters |-> CASE e = c                -> "idle"
                         [] setter[e] = "asleep" -> "awake"
                         [] OTHER                -> setter[e]]

\* setParamPropertiesPostGated; temporary parameters are not saved.
Post(c) ==
    /\ setter[c] = "telling" /\ set[c].tell = {} /\ set[c].hand = {}
    /\ savedParameters' = IF set[c].temporary THEN savedParameters
                          ELSE Merge(set[c].dict, savedParameters)
    /\ inProgress' = FALSE
    /\ setter' = Woken(c)
    /\ set' = [set EXCEPT ![c] = NoSet]
    /\ UNCHANGED <<sets, device, last>>

(***************************************************************************)
(* The devices.                                                            *)
(***************************************************************************)

\* handlePublishNotification attaches the system to the new device, ...
Attach(d) ==
    /\ state[d] = "absent"
    /\ state' = [state EXCEPT ![d] = "attached"]
    /\ UNCHANGED <<savedParameters, inProgress, threads, own, effective, last>>

\* ... and registerEventSource, which may open it first, gives it what has
\* been saved, in the gate (updateParamPropertiesGated).
RegisterEventSource(d) ==
    /\ state[d] = "attached"
    /\ state' = [state EXCEPT ![d] = "registered"]
    /\ effective' = [effective EXCEPT ![d] = Merge(savedParameters, @)]
    /\ UNCHANGED <<savedParameters, inProgress, threads, own, last>>

\* The device terminates, before or after it is registered: message() closes
\* it, and it is detached.
Terminate(d) ==
    /\ d \in Attached
    /\ state' = [state EXCEPT ![d] = "gone"]
    /\ own' = [own EXCEPT ![d] = Empty]
    /\ effective' = [effective EXCEPT ![d] = Empty]
    /\ last' = [last EXCEPT !.told = @ \ {d}]
    /\ UNCHANGED <<savedParameters, inProgress, threads>>

\* IOHIDevice::setProperties: a process gives this device settings of its own.
SetProperties(d) ==
    /\ d \in Filtered
    /\ state[d] \in {"attached", "registered"}
    /\ \E dict \in OwnSettings :
          /\ own' = [own EXCEPT ![d] = Merge(dict, @)]
          /\ effective' = [effective EXCEPT ![d] = Merge(dict, @)]
    /\ UNCHANGED <<savedParameters, inProgress, threads, state, last>>

\* What a set does once it has been called.
Step(c) == Resume(c) \/ Tell(c) \/ Post(c) \/ \E d \in Devices : NextDevice(c, d)

ParamsNext ==
    \/ \E c \in Setters : SetParamProperties(c) \/ AbortSet(c) \/ Step(c)
    \/ \E d \in Devices :
          Attach(d) \/ RegisterEventSource(d) \/ Terminate(d) \/ SetProperties(d)

\* The threads that set parameters keep running.
ParamsSpec == ParamsInit /\ [][ParamsNext]_paramsVars /\ \A c \in Setters : WF_paramsVars(Step(c))

(***************************************************************************)
(* Properties.                                                             *)
(***************************************************************************)

ParamsTypeOK ==
    /\ savedParameters \in Settings
    /\ inProgress \in BOOLEAN
    /\ setter \in [Setters -> {"idle", "asleep", "awake", "telling"}]
    /\ set \in [Setters -> Sets] /\ sets \in [Setters -> 0..MaxSets]
    /\ state \in [Devices -> {"absent", "attached", "registered", "gone"}]
    /\ own \in [Devices -> Settings] /\ effective \in [Devices -> Settings]
    /\ last \in [dict : Settings, temporary : BOOLEAN, told : SUBSET Devices]

\* One set at a time is between its two visits to the gate, the flag says so,
\* and nobody sleeps when it is down (setParamPropertiesPreGated and Post).
OneSetAtATime ==
    /\ \A c, e \in Setters : setter[c] = "telling" /\ setter[e] = "telling" => c = e
    /\ inProgress <=> \E c \in Setters : setter[c] = "telling"
    /\ ~inProgress => \A c \in Setters : setter[c] # "asleep"

\* When no set is in progress, the last one is in force everywhere: in every
\* device that was registered when it began and is still there, except where
\* the device has a setting of its own, and, unless it was temporary, in what
\* is saved for devices to come.
LastSetInForce ==
    ~inProgress =>
        \A k \in DOMAIN last.dict :
            /\ \A d \in last.told :
                  \/ k \in DOMAIN own[d]
                  \/ (k \in DOMAIN effective[d] /\ effective[d][k] = last.dict[k])
            /\ \/ last.temporary
               \/ (k \in DOMAIN savedParameters /\ savedParameters[k] = last.dict[k])

\* Every set returns, however many wait for the flag at once.
EverySetReturns == \A c \in Setters : setter[c] # "idle" ~> setter[c] = "idle"
================================================================================
