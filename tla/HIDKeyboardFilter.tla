--------------------------- MODULE HIDKeyboardFilter ---------------------------
(***************************************************************************)
(* IOHIDKeyboardFilter, the service filter every keyboard event of hidd    *)
(* passes: remapping, slow keys, the delays of caps lock, eject and lock,  *)
(* sticky keys, mouse keys by five presses of Option, and key repeat.      *)
(*                                                                         *)
(* The filter holds events back and gives them to the service again from   *)
(* timers and from blocks on its queue: they come to filter() a second     *)
(* time, inside the call that sends them.  A handler on the queue is one   *)
(* step, with all the events it sends, nested calls included.              *)
(*                                                                         *)
(* Keys are named for their usages.  Left out: the options' clamping to    *)
(* their minimum, events with the option "no key repeat", logging.         *)
(***************************************************************************)
EXTENDS Integers, Sequences, FiniteSets, FiniteSetsExt

CONSTANTS
  Keys,         \* the keys of the keyboard and those they are mapped to
  Physical,     \* the keys a user can press
  NoKey,        \* no key; a mapping's "no action"
  FnFunctionMap, FnMap, CtrlMap, NumLockMap,  \* the keyboard's own mappings
  UserMaps,     \* the mappings a client may set
  OptionSets,   \* the sets of options that may be on when the filter is opened
  Settable,     \* the options a client switches while keys are in use
  Restore,      \* caps lock was on when this keyboard was last seen
  MaxHeld,      \* BOUND: keys held at a time
  MaxBlocks     \* BOUND: blocks waiting on the queue

OptionNames == {"slow", "sticky", "disable", "toggle", "repeat", "caps", "eject",
                "lock", "mouse", "numlock", "fnmode", "unified"}

ASSUME KeyboardAssumption ==
  /\ Physical \subseteq Keys /\ NoKey \notin Keys
  /\ \A m \in {FnFunctionMap, FnMap, CtrlMap, NumLockMap} \cup UserMaps :
        DOMAIN m \subseteq Keys /\ \A k \in DOMAIN m : m[k] \in Keys \cup {NoKey}
  /\ OptionSets \subseteq SUBSET OptionNames /\ Settable \subseteq OptionNames
  /\ Restore \in BOOLEAN /\ MaxHeld \in Nat /\ MaxBlocks \in Nat

Shifts == {"lshift", "rshift"} \cap Keys
Alts == {"lalt", "ralt"} \cap Keys
Ctrls == {"lctrl", "rctrl"} \cap Keys
Sided == Shifts \cup Alts \cup Ctrls \cup ({"lgui", "rgui", "fn"} \cap Keys)
Modifiers == Sided \cup ({"caps"} \cap Keys)
Arrows == {"left", "right", "up", "down"}
FKeys == {"f1", "f5"}
NotRepeated == Modifiers \cup {"eject", "menu"}
LeftHanded(k) ==
  CASE k = "rshift" -> "lshift" [] k = "ralt" -> "lalt" [] k = "rctrl" -> "lctrl"
    [] k = "rgui" -> "lgui" [] OTHER -> k
Latches == {LeftHanded(k) : k \in Sided}
LatchStates == {"reset", "down", "locked", "down_locked", "down_unlocked"}
Delayable == {"caps", "eject", "lock"} \cap Keys
Timers == {"slow", "repeat", "shift", "mouse"} \cup Delayable

Event == [key : Keys, down : BOOLEAN, repeat : BOOLEAN,
          sticky : {"none", "down", "locked", "up"},
          slow : {"none", "start", "abort", "on"},
          delayed : BOOLEAN, asIs : BOOLEAN, modified : BOOLEAN]
KeyEvent(k, down) ==
  [key |-> k, down |-> down, repeat |-> FALSE, sticky |-> "none", slow |-> "none",
   delayed |-> FALSE, asIs |-> FALSE, modified |-> FALSE]
NoEvent == KeyEvent(NoKey, FALSE)
StickyUp(k) == [KeyEvent(k, FALSE) EXCEPT !.sticky = "up"]
Repeat(k) == [KeyEvent(k, TRUE) EXCEPT !.repeat = TRUE]

(* IOHIDEventCreateCopy copies the event's data, not its attachments.      *)
CopyOf(e) == [e EXCEPT !.delayed = FALSE, !.asIs = FALSE, !.modified = FALSE]

VARIABLES
  held,     \* the keys the user holds down
  filter,   \* the filter's fields, a record
  stale     \* history: keys were mapped anew, by a client or with Fn, while
            \* slow keys or a delay were at work on a key

vars == <<held, filter, stale>>

Blocks == {"start", "stop", "release", "reset", "clear"}
Fields ==
  [state : {"open", "scheduled", "unscheduled"},
   on : SUBSET OptionNames,         \* the options that are on
   maps : [{"modifiers", "user"} -> UserMaps],  \* _modifiersKeyMap, _userKeyMap
   active : [Keys -> {"up", "plain", "modified"}],  \* _activeKeys: the keys
                                    \* sessions see down; "modified" if remapped
   slowEvent : Event \cup {NoEvent},                \* _slowKeysSlowEvent
   repeat : Keys \cup {NoKey},                      \* the key of _keyRepeatEvent
   delayed : [Delayable -> Event \cup {NoEvent}],   \* _delayed...Event
   timers : SUBSET Timers,                          \* the timers that are armed
   latch : [Latches -> LatchStates],                \* _stickyKeyState
   shifts : 0..4, alts : 0..6,      \* _stickyKeysShiftKeyCount, _mouseKeyActivationCount
   caps : BOOLEAN,                  \* _capsLockState
   blocks : Seq(Blocks)]            \* the blocks waiting on _queue

--------------------------------------------------------------------------------
(* Which key an event stands for.                                          *)

Pressed(s) == {k \in Keys : s.active[k] # "up"}
Through(m, k) == IF k \in DOMAIN m THEN m[k] ELSE k
FnDown(s) == "fn" \in Pressed(s)
CtrlDown(s) == Ctrls \cap Pressed(s) # {}
FnKeys(s) == IF "unified" \in s.on
             THEN [k \in DOMAIN FnMap \ Arrows |-> FnMap[k]] ELSE FnMap

ByModifier(s, k) ==
  CASE CtrlDown(s) /\ "unified" \in s.on /\ k \in DOMAIN CtrlMap -> CtrlMap[k]
    [] FnDown(s) /\ k \in DOMAIN FnKeys(s) -> FnKeys(s)[k]
    [] OTHER -> k

RemapKey(s, k) ==
  IF k = "f5" /\ {"lgui", "rgui"} \cap Pressed(s) # {} THEN k
  ELSE LET function == IF FnDown(s) = ("fnmode" \in s.on) THEN Through(FnFunctionMap, k) ELSE k
           byModifier == ByModifier(s, function)
           numLock == IF "numlock" \in s.on THEN Through(NumLockMap, byModifier) ELSE byModifier
       IN  Through(s.maps["user"], Through(s.maps["modifiers"], numLock))

(* Events the filter made itself have been remapped before.                *)
Remapped(s, e) ==
  \/ s.repeat = e.key \/ e.asIs \/ e.repeat \/ e.delayed
  \/ e.sticky # "none" \/ e.slow # "none"

ProcessKeyMappings(s, e) ==
  IF Remapped(s, e) THEN e
  ELSE LET k == RemapKey(s, e.key) IN
       IF k = NoKey THEN NoEvent
       ELSE [e EXCEPT !.key = k, !.modified = @ \/ k # e.key]

--------------------------------------------------------------------------------
(* The stages of filter().  Each takes the fields and the event, and gives *)
(* back both; send[s, e] are the fields after the service has had e pass   *)
(* the filter.  NoEvent passes every stage.                                *)

Result(s, e) == [s |-> s, e |-> e]
SlowPhase(e) == e.slow \in {"start", "abort"}

(* Fn or Control is up: what it had changed goes up too.                   *)
BugOnlyMapped(s, k) == {l \in Pressed(s) : k = "fn" /\ l \in FKeys}
Lifted(s, k) ==
  {l \in Pressed(s) : \/ s.active[l] = "modified" /\ l \notin Sided
                      \/ k = "fn" /\ l \in FKeys}
ProcessModifiedKeyState(s, e, send) ==
  IF e = NoEvent \/ e.down \/ e.key \notin Ctrls \cup {"fn"} THEN s
  ELSE FoldSet(LAMBDA l, t : send[t, [KeyEvent(l, FALSE) EXCEPT !.asIs = TRUE]],
               s, Lifted(s, e.key))

Arm(s, t) == [s EXCEPT !.timers = @ \cup {t}]
Disarm(s, t) == [s EXCEPT !.timers = @ \ {t}]

SlowKeyDown(s, e) ==
  IF s.slowEvent # NoEvent /\ s.slowEvent.key # e.key
  THEN Result([Disarm(s, "slow") EXCEPT !.slowEvent = NoEvent], [e EXCEPT !.slow = "abort"])
  ELSE Result([Arm(s, "slow") EXCEPT !.slowEvent = CopyOf(e)], [e EXCEPT !.slow = "start"])
BugSlowGoesOn(s, e) == Result(s, IF s.slowEvent = NoEvent THEN e ELSE NoEvent)
SlowKeyUp(s, e) ==
  IF s.slowEvent = NoEvent \/ s.slowEvent.key # e.key THEN Result(s, e)
  ELSE Result([Disarm(s, "slow") EXCEPT !.slowEvent = NoEvent],
              IF s.slowEvent.repeat THEN e ELSE NoEvent)
ProcessSlowKeys(s, e) ==
  IF "slow" \notin s.on \/ e = NoEvent \/ e.slow = "on" \/ e.key = "menu" THEN Result(s, e)
  ELSE IF e.down THEN SlowKeyDown(s, e) ELSE SlowKeyUp(s, e)

IsModifiersPressed(s) == Pressed(s) \cap Modifiers # {}
Delays(s, k) ==
  /\ k \in s.on /\ "slow" \notin s.on
  /\ k = "caps" \/ ~IsModifiersPressed(s)
KeyDelay(s, e, k) ==
  IF e = NoEvent \/ e.key # k \/ ~Delays(s, k) THEN Result(s, e)
  ELSE IF e.delayed THEN Result(s, [e EXCEPT !.delayed = FALSE])
  ELSE IF e.down /\ (k = "caps" => ~s.caps)
  THEN Result([Arm(s, k) EXCEPT !.delayed[k] = [e EXCEPT !.delayed = TRUE]], NoEvent)
  ELSE IF s.delayed[k] # NoEvent
  THEN Result([Disarm(s, k) EXCEPT !.delayed[k] = NoEvent], NoEvent)
  ELSE Result(s, e)

ProcessKeyDelay(r, k) == KeyDelay(r.s, r.e, k)

(* Sticky keys.  A latched modifier stays down when it is released, until  *)
(* the next other key goes up; a locked one until it is pressed again.     *)
Post(s, b) == [s EXCEPT !.blocks = Append(@, b)]
ReleaseSticky(s, states, send) ==
  FoldSet(LAMBDA m, t : [send[t, StickyUp(m)] EXCEPT !.latch[m] = "reset"],
          s, {m \in Latches : s.latch[m] \in states})
StartSticky(s, send) ==
  FoldSet(LAMBDA m, t : send[t, StickyUp(m)], s, Pressed(s) \cap Modifiers)
StopSticky(s, send) == ReleaseSticky(s, {"down", "down_locked", "locked"}, send)
Unlock(s) ==
  [s EXCEPT !.latch = [m \in Latches |-> IF @[m] = "down_locked" THEN "down_unlocked" ELSE @[m]]]

ProcessShiftKey(s, send) ==
  IF "toggle" \notin s.on THEN s
  ELSE LET timed == IF s.shifts = 0 THEN Arm(s, "shift") ELSE s IN
       IF s.shifts < 4 THEN [timed EXCEPT !.shifts = @ + 1]
       ELSE IF "sticky" \in s.on
       THEN StopSticky([timed EXCEPT !.shifts = 0, !.on = @ \ {"sticky"}], send)
       ELSE StartSticky([timed EXCEPT !.shifts = 0, !.on = @ \cup {"sticky"}], send)

StickyDown(s, e) ==
  LET m == LeftHanded(e.key)
      Latched(phase, new) ==
        Result([s EXCEPT !.latch[m] = new], [e EXCEPT !.key = m, !.sticky = phase])
  IN  CASE s.latch[m] = "reset" -> Latched("down", "down_locked")
        [] s.latch[m] = "down" -> Latched("locked", "locked")
        [] s.latch[m] = "locked" -> Result([s EXCEPT !.latch[m] = "reset"], NoEvent)
        [] OTHER -> Result(s, NoEvent)
BugUnlockedStays(s, e) ==
  LET m == LeftHanded(e.key) IN
  CASE s.latch[m] = "reset" -> Result(s, [e EXCEPT !.key = m, !.sticky = "up"])
    [] s.latch[m] = "down_locked" -> Result([s EXCEPT !.latch[m] = "down"], NoEvent)
    [] OTHER -> Result(s, NoEvent)
StickyKeyUp(s, e) ==
  LET m == LeftHanded(e.key)
      up == [e EXCEPT !.key = m, !.sticky = "up"]
  IN  CASE s.latch[m] = "reset" -> Result(s, up)
        [] s.latch[m] = "down_unlocked" -> Result([s EXCEPT !.latch[m] = "reset"], up)
        [] s.latch[m] = "down_locked" -> Result([s EXCEPT !.latch[m] = "down"], NoEvent)
        [] OTHER -> Result(s, NoEvent)

Counted(s, e, send) ==
  IF e.key \notin Shifts THEN [s EXCEPT !.shifts = 0]
  ELSE IF e.down THEN s ELSE ProcessShiftKey(s, send)
Latch(s, e, wasOn) ==
  IF "sticky" \notin s.on \/ ~wasOn THEN Result(s, e)
  ELSE IF e.key \notin Sided
  THEN Result(Unlock(IF e.down THEN s ELSE Post(s, "release")), e)
  ELSE IF e.down THEN StickyDown(s, e) ELSE StickyKeyUp(s, e)
ProcessStickyKeys(r, send) ==
  IF "disable" \in r.s.on \/ r.e = NoEvent \/ r.e.sticky = "up" \/ SlowPhase(r.e) THEN r
  ELSE Latch(Counted(r.s, r.e, send), r.e, "sticky" \in r.s.on)

(* Caps lock changes on the press.                                         *)
ProcessCapsLockState(s, e) ==
  IF e = NoEvent \/ SlowPhase(e) \/ e.key # "caps" \/ ~e.down THEN s
  ELSE [s EXCEPT !.caps = ~@]

BugCountsOn(s, e) ==
  IF "mouse" \notin s.on \/ e = NoEvent \/ e.key \notin Alts \/ ~e.down THEN s
  ELSE [Arm(s, "mouse") EXCEPT !.alts = @ + 1]
ProcessMouseKeys(s, e) ==
  IF "mouse" \notin s.on \/ e = NoEvent \/ SlowPhase(e) THEN s
  ELSE IF e.key \notin Alts THEN [s EXCEPT !.alts = 0]
  ELSE LET timed == IF s.alts = 0 THEN Arm(s, "mouse") ELSE s IN
       IF e.down THEN [timed EXCEPT !.alts = @ + 1]
       ELSE [timed EXCEPT !.alts = IF @ >= 5 THEN 0 ELSE @]

BugRepeatsOn(s, e) ==
  IF "repeat" \notin s.on \/ e = NoEvent \/ e.key \in NotRepeated \/ ~e.down THEN s
  ELSE [Arm(s, "repeat") EXCEPT !.repeat = e.key]
ProcessKeyRepeats(s, e) ==
  IF "repeat" \notin s.on \/ e = NoEvent \/ SlowPhase(e) \/ e.key \in NotRepeated THEN s
  ELSE IF e.down THEN [Arm(s, "repeat") EXCEPT !.repeat = e.key]
  ELSE IF s.repeat = e.key THEN [Disarm(s, "repeat") EXCEPT !.repeat = NoKey]
  ELSE s

ProcessKeyState(s, e) ==
  IF e = NoEvent \/ SlowPhase(e) THEN s
  ELSE IF ~e.down THEN [s EXCEPT !.active[e.key] = "up"]
  ELSE [s EXCEPT !.active[e.key] =
          IF @ # "up" THEN @ ELSE IF e.modified THEN "modified" ELSE "plain"]

Record(s, e) ==
  ProcessKeyState(ProcessKeyRepeats(ProcessMouseKeys(ProcessCapsLockState(s, e), e), e), e)
Held(r) == ProcessKeyDelay(ProcessKeyDelay(ProcessKeyDelay(r, "caps"), "eject"), "lock")
Pass(s, e, send) ==
  LET r == ProcessStickyKeys(Held(ProcessSlowKeys(ProcessModifiedKeyState(s, e, send), e)), send)
  IN  Record(r.s, r.e)
FilterEvent(s, e, send) == Pass(s, ProcessKeyMappings(s, e), send)

(* The service gives an event it is sent to its filters at once, within    *)
(* the call that sends it.                                                 *)
Send[s \in Fields, e \in Event] == FilterEvent(s, e, Send)
Filter(s, e) == FilterEvent(s, e, Send)

--------------------------------------------------------------------------------
(* What happens on the filter's queue.                                     *)

Fresh(on) ==
  [state |-> "open", on |-> on, maps |-> [m \in {"modifiers", "user"} |-> <<>>],
   active |-> [k \in Keys |-> "up"], slowEvent |-> NoEvent, repeat |-> NoKey,
   delayed |-> [k \in Delayable |-> NoEvent], timers |-> {},
   latch |-> [m \in Latches |-> "reset"], shifts |-> 0, alts |-> 0,
   caps |-> FALSE, blocks |-> <<>>]

Init == held = {} /\ stale = FALSE /\ \E on \in OptionSets : filter = Fresh(on)

Scheduled == filter.state = "scheduled"

(* A restored caps lock is sent as a press, with no release.               *)
ScheduleWithDispatchQueue ==
  /\ filter.state = "open"
  /\ LET s == [filter EXCEPT !.state = "scheduled"] IN
     filter' = IF Restore THEN Filter(s, KeyEvent("caps", TRUE)) ELSE s
  /\ UNCHANGED <<held, stale>>

UnscheduleFromDispatchQueue ==
  /\ Scheduled
  /\ filter' = [Post(filter, "clear") EXCEPT !.state = "unscheduled", !.timers = {}]
  /\ UNCHANGED <<held, stale>>

(* A key that is held may have come, or may yet come, from a timer; Fn     *)
(* maps the keys anew.                                                     *)
Slowed(s) ==
  "slow" \in s.on \cup Settable \/ \E k \in Delayable : s.delayed[k] # NoEvent
Stale(k) == stale \/ (k = "fn" /\ held # {} /\ Slowed(filter))

Press(k) ==
  /\ Scheduled /\ k \notin held /\ Cardinality(held) < MaxHeld
  /\ Len(filter.blocks) < MaxBlocks
  /\ held' = held \cup {k}
  /\ filter' = Filter(filter, KeyEvent(k, TRUE))
  /\ stale' = Stale(k)

Release(k) ==
  /\ Scheduled /\ k \in held /\ Len(filter.blocks) < MaxBlocks
  /\ held' = held \ {k}
  /\ filter' = Filter(filter, KeyEvent(k, FALSE))
  /\ stale' = Stale(k)

(* A timer's handler disarms it and clears the field before it sends.      *)
DispatchSlowKey ==
  /\ "slow" \in filter.timers
  /\ LET s == [Disarm(filter, "slow") EXCEPT !.slowEvent = NoEvent] IN
     filter' = IF filter.slowEvent = NoEvent THEN s
               ELSE Filter(s, [filter.slowEvent EXCEPT !.slow = "on"])
  /\ UNCHANGED <<held, stale>>

DispatchKeyRepeat ==
  /\ "repeat" \in filter.timers
  /\ LET s == [Disarm(filter, "repeat") EXCEPT !.repeat = NoKey] IN
     filter' = IF filter.repeat = NoKey THEN s ELSE Filter(s, Repeat(filter.repeat))
  /\ UNCHANGED <<held, stale>>

DispatchDelayed(k) ==
  /\ k \in filter.timers
  /\ LET s == [Disarm(filter, k) EXCEPT !.delayed[k] = NoEvent] IN
     filter' = IF filter.delayed[k] = NoEvent THEN s ELSE Filter(s, filter.delayed[k])
  /\ UNCHANGED <<held, stale>>

ResetCount ==
  /\ \/ /\ "shift" \in filter.timers
        /\ filter' = [Disarm(filter, "shift") EXCEPT !.shifts = 0]
     \/ /\ "mouse" \in filter.timers
        /\ filter' = [Disarm(filter, "mouse") EXCEPT !.alts = 0]
  /\ UNCHANGED <<held, stale>>

ClearEvents(s) ==
  [s EXCEPT !.slowEvent = NoEvent, !.repeat = NoKey,
            !.delayed = [k \in Delayable |-> NoEvent]]
Perform(s, b) ==
  CASE b = "start" -> StartSticky(s, Send)
    [] b = "stop" -> StopSticky(s, Send)
    [] b = "release" -> ReleaseSticky(s, {"down"}, Send)
    [] b = "reset" -> [ReleaseSticky(Unlock(s), {"down"}, Send) EXCEPT !.alts = 0, !.shifts = 0]
    [] b = "clear" -> ClearEvents(StopSticky(s, Send))
RunBlock ==
  /\ filter.blocks # <<>>
  /\ filter' = Perform([filter EXCEPT !.blocks = Tail(@)], Head(filter.blocks))
  /\ UNCHANGED <<held, stale>>

(* Another keyboard has had a key released that ends sticky modifiers.     *)
StickyKeyNotification ==
  /\ Scheduled /\ Len(filter.blocks) < MaxBlocks
  /\ filter' = Post(filter, "reset")
  /\ UNCHANGED <<held, stale>>

--------------------------------------------------------------------------------
(* setPropertyForClient.                                                   *)

PostIfScheduled(s, b) == IF s.state = "open" THEN s ELSE Post(s, b)
TurnOn(s, o) ==
  LET t == [s EXCEPT !.on = @ \cup {o}] IN
  CASE o = "slow" ->
         [t EXCEPT !.delayed = [k \in Delayable |-> IF k = "lock" THEN @[k] ELSE NoEvent]]
    [] o = "sticky" -> PostIfScheduled(t, "start")
    [] o = "disable" /\ "sticky" \in s.on -> PostIfScheduled([t EXCEPT !.on = @ \ {"sticky"}], "stop")
    [] o = "toggle" -> [t EXCEPT !.shifts = 0]
    [] OTHER -> t
TurnOff(s, o) ==
  LET t == [s EXCEPT !.on = @ \ {o}] IN
  CASE o = "slow" -> [t EXCEPT !.slowEvent = NoEvent]
    [] o = "sticky" -> PostIfScheduled(t, "stop")
    [] o \in Delayable -> [t EXCEPT !.delayed[o] = NoEvent]
    [] o = "mouse" -> [Disarm(t, "mouse") EXCEPT !.alts = 0]
    [] o = "toggle" -> [t EXCEPT !.shifts = 0]
    [] OTHER -> t

(* What a new mapping would change is sent up first, through the old one.  *)
Up(s, ks) == FoldSet(LAMBDA k, t : Filter(t, KeyEvent(k, FALSE)), s, ks)
ResetModifiedKeyState(s, ks) ==
  LET t == Up(s, {k \in Keys : s.active[k] = "modified"}) IN Up(t, Pressed(t) \cap ks)
SetUnified(s) ==
  LET t == [s EXCEPT !.on = IF "unified" \in @ THEN @ \ {"unified"} ELSE @ \cup {"unified"}]
      reset == ResetModifiedKeyState(s, DOMAIN FnKeys(t) \cup
                 (IF "unified" \in t.on THEN DOMAIN CtrlMap ELSE {}))
  IN  [reset EXCEPT !.on = t.on]

SetOption(o) ==
  /\ filter.state # "unscheduled" /\ Len(filter.blocks) < MaxBlocks
  /\ filter' = IF o = "unified" THEN SetUnified(filter)
               ELSE IF o \in filter.on THEN TurnOff(filter, o) ELSE TurnOn(filter, o)
  /\ UNCHANGED <<held, stale>>

SetKeyMap(which, m) ==
  /\ filter.state # "unscheduled" /\ Len(filter.blocks) < MaxBlocks
  /\ LET s == [ResetModifiedKeyState(filter, DOMAIN m) EXCEPT !.maps[which] = m] IN
     filter' = IF which = "modifiers" /\ "caps" \in DOMAIN m THEN [s EXCEPT !.caps = FALSE] ELSE s
  /\ stale' = (stale \/ (held # {} /\ Slowed(filter)))
  /\ UNCHANGED held

Next ==
  \/ ScheduleWithDispatchQueue \/ UnscheduleFromDispatchQueue
  \/ \E k \in Physical : Press(k) \/ Release(k)
  \/ DispatchSlowKey \/ DispatchKeyRepeat \/ ResetCount \/ RunBlock
  \/ \E k \in Delayable : DispatchDelayed(k)
  \/ StickyKeyNotification
  \/ \E o \in Settable : SetOption(o)
  \/ \E w \in {"modifiers", "user"}, m \in UserMaps : SetKeyMap(w, m)

Spec == Init /\ [][Next]_vars

--------------------------------------------------------------------------------
TypeOK == held \subseteq Physical /\ filter \in Fields /\ stale \in BOOLEAN

(* The keys that one key of the keyboard can stand for.                    *)
Apply(m, ks) == ks \cup {Through(m, k) : k \in ks}
Meanings(k) ==
  LET maps == UserMaps \cup {FnFunctionMap, FnMap, CtrlMap, NumLockMap}
      once == UNION {Apply(m, {k}) : m \in maps}
  IN  {LeftHanded(l) : l \in once} \cup UNION {Apply(m, once) : m \in maps}

(* A key goes down, and caps lock changes, only while the user holds a key *)
(* that can mean it: what was held back by a timer and whose key is let go *)
(* in time is never sent, and no repeat comes after the release            *)
(* (IOHIDKeyboardFilter.mm:2150-2180, 2344-2393, 2224-2253).               *)
ReportedWhileHeld ==
  [][~stale =>
     /\ \A k \in Pressed(filter)' \ Pressed(filter) : \E p \in held' : k \in Meanings(p)
     /\ filter'.caps # filter.caps /\ filter'.maps = filter.maps => "caps" \in held']_vars

(* With no key held and no block waiting, nothing is down but modifiers    *)
(* that sticky keys keep down, and nothing is held back or repeated        *)
(* (the phases of sticky keys, :1747-1758; processKeyState, :2654).        *)
NothingStuck ==
  filter.state = "scheduled" /\ held = {} /\ filter.blocks = <<>> /\ ~stale =>
    /\ \A k \in Pressed(filter) : k \in Latches /\ filter.latch[k] \in {"down", "locked"}
    /\ filter.slowEvent = NoEvent /\ filter.repeat = NoKey
    /\ \A k \in Delayable : filter.delayed[k] = NoEvent

(* An event that is held back has its timer armed, and a key that repeats  *)
(* is one that sessions see down; when the filter has left its queue, the  *)
(* block that drops them has not run (:700-775).                           *)
HeldBackIsDue ==
  "clear" \notin {filter.blocks[i] : i \in DOMAIN filter.blocks} /\ filter.state # "open" =>
    /\ filter.slowEvent # NoEvent => "slow" \in filter.timers
    /\ filter.repeat # NoKey => "repeat" \in filter.timers /\ filter.repeat \in Pressed(filter)
    /\ \A k \in Delayable : filter.delayed[k] # NoEvent => k \in filter.timers

(* What is held back is due, and what is not is reported in time: no timer *)
(* outlives what it was armed for, and none is missing.                    *)
KeysAccounted == []HeldBackIsDue /\ ReportedWhileHeld

(* processEjectKeyDelay's comment: "if (ejectKeyDelayInProgress) abort     *)
(* ejectKey timer, kill the up event" (IOHIDKeyboardFilter.mm:2438-2446).  *)
AbortedByRelease == \A k \in Delayable : filter.delayed[k] # NoEvent => k \in held
================================================================================
