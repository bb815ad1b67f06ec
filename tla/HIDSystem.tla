------------------------------- MODULE HIDSystem -------------------------------
(***************************************************************************)
(* IOHIDSystem: the session a window server opens, the keyboard event queue *)
(* and the events posted to the event queues of its clients.                *)
(*                                                                          *)
(* Everything named ...Gated runs in one command gate, so it is one action  *)
(* here.  What happens outside the gate is kept apart: a keyboard stamps an *)
(* event, queues it and raises the interrupt in three steps, a process that *)
(* posts an event reads the clock before it asks for the gate, and a server *)
(* that finds the system open sleeps in the gate and lets others in.        *)
(***************************************************************************)
EXTENDS Naturals, Sequences, SequencesExt

CONSTANTS
    Keyboards,   \* the keyboards, each with a thread of its own
    Servers,     \* the connections of window servers (IOHIDUserClient)
    Posters,     \* the processes that post events (IOHIDParamUserClient)
    Pressed,     \* the kinds of elements that come from the keyboards
    MaxKeys,     \* how many elements the keyboard queues
    MaxPosts,    \* how many events each process posts
    MaxTime      \* the last value of the clock

ASSUME HIDSystemAssumption ==
    /\ Pressed \subseteq {"key", "power", "release", "special", "flags"}
    /\ MaxKeys \in Nat /\ MaxPosts \in Nat /\ MaxTime \in Nat \ {0}

VARIABLES
    evOpenCalled,   \* a server holds the session
    eventsOpen,     \* its shared memory is set up
    server,         \* what each connection is doing
    poster,         \* what each process is doing
    now,            \* the clock
    keyboard,       \* the element each keyboard's thread is handling
    gKeyboardEQ,    \* the elements waiting for the work loop
    enqueued,       \* every element queued so far
    interrupt,      \* the event source has been raised
    posted          \* what was posted, in order: what each element, and each
                    \* process, posted together

session == <<evOpenCalled, eventsOpen, server>>
keys    == <<keyboard, gKeyboardEQ, enqueued, interrupt>>
vars    == <<session, keys, poster, now, posted>>

\* A key, the power key pressed and released, another special key, and new
\* modifier flags.
Actions == {"key", "power", "release", "special", "flags"}

Elements == [action : Actions, ts : 0..MaxTime]

NoElement == [action |-> "flags", ts |-> 0]
Idle      == [state |-> "idle", element |-> NoElement]

NoTime == MaxTime + 1   \* no deadline: later than anything

Init ==
    /\ evOpenCalled = FALSE
    /\ eventsOpen = FALSE
    /\ server = [s \in Servers |-> "none"]
    /\ poster = [p \in Posters |-> [state |-> "none", ts |-> 0, posts |-> 0]]
    /\ now = 1
    /\ keyboard = [k \in Keyboards |-> Idle]
    /\ gKeyboardEQ = <<>>
    /\ enqueued = <<>>
    /\ interrupt = FALSE
    /\ posted = <<>>

(***************************************************************************)
(* The session.                                                            *)
(***************************************************************************)

\* MUTANT: the session is not looked at again after the sleep.
BugTakeIt(s) ==
    /\ server' = [server EXCEPT ![s] = "open"]
    /\ evOpenCalled' = TRUE

\* The second half of evOpenGated: whoever comes back to find the session
\* taken is refused, and its connection is thrown away.
TryOpen(s) ==
    /\ server' = [server EXCEPT ![s] = IF evOpenCalled THEN "gone" ELSE "open"]
    /\ evOpenCalled' = TRUE

\* newUserClientGated for a server starts it, and start() opens the session;
\* when the session is taken, commandSleep gives up the gate.
Connect(s) ==
    /\ server[s] = "none"
    /\ IF evOpenCalled
       THEN /\ server' = [server EXCEPT ![s] = "asleep"]
            /\ UNCHANGED evOpenCalled
       ELSE TryOpen(s)
    /\ UNCHANGED <<keys, eventsOpen, poster, now, posted>>

\* The sleep is THREAD_ABORTSAFE: a signal ends it.
Abort(s) ==
    /\ server[s] = "asleep"
    /\ server' = [server EXCEPT ![s] = "awake"]
    /\ UNCHANGED <<keys, evOpenCalled, eventsOpen, poster, now, posted>>

Retry(s) ==
    /\ server[s] = "awake"
    /\ TryOpen(s)
    /\ UNCHANGED <<keys, eventsOpen, poster, now, posted>>

\* createShmemGated looks at nothing; the connection's own lock (start() asks
\* for kIOUserClientDefaultLockingKey) keeps the call and its end apart.
CreateShmem(s) ==
    /\ server[s] = "open"
    /\ ~eventsOpen
    /\ eventsOpen' = TRUE
    /\ UNCHANGED <<keys, evOpenCalled, server, poster, now, posted>>

\* The connection's stop() closes it, and evCloseGated wakes every server that
\* waits for the session.
Disconnect(s) ==
    /\ server[s] = "open"
    /\ server' = [t \in Servers |-> CASE t = s                -> "gone"
                                      [] server[t] = "asleep" -> "awake"
                                      [] OTHER                -> server[t]]
    /\ evOpenCalled' = FALSE
    /\ eventsOpen' = FALSE
    /\ UNCHANGED <<keys, poster, now, posted>>

(***************************************************************************)
(* What one element of the keyboard queue does.                            *)
(***************************************************************************)

\* postEvent, for what is posted together; after is how many elements had
\* been queued by then.
Event(what, n, ts) == [what |-> what, n |-> n, ts |-> ts, after |-> Len(enqueued)]

\* MUTANT: new modifier flags are announced.
BugAnnounce(n) ==
    Event(<< IF eventsOpen THEN enqueued[n].action ELSE "console" >>, n, enqueued[n].ts)

\* What doKeyboardEvent, doKeyboardSpecialEvent and doUpdateEventFlags post:
\* the power key's press posts a second event, other special keys and new
\* modifier flags are silent, and outside a session a key goes to the console
\* instead.
Posts(n) ==
    LET e == enqueued[n]
        what == CASE e.action = "key"     -> << IF eventsOpen THEN "key" ELSE "console" >>
                  [] e.action = "power"   -> IF eventsOpen THEN << "key", "power" >> ELSE << >>
                  [] e.action = "release" -> IF eventsOpen THEN << "key" >> ELSE << >>
                  [] OTHER                -> << >>
    IN  Event(what, n, e.ts)

\* MUTANT: the caller's own events go first.
BugOwnFirst(deadline, events) ==
    \E run \in 0..Len(gKeyboardEQ) :
        /\ \A i \in 1..run : enqueued[gKeyboardEQ[i]].ts <= deadline
        /\ run < Len(gKeyboardEQ) => enqueued[gKeyboardEQ[run + 1]].ts > deadline
        /\ posted' = posted \o events \o [i \in 1..run |-> Posts(gKeyboardEQ[i])]
        /\ gKeyboardEQ' = SubSeq(gKeyboardEQ, run + 2, Len(gKeyboardEQ))

\* processKeyboardEQ, then what the caller posts itself.  The loop runs the
\* elements up to the first that is later than the deadline, which it has
\* dequeued by the time it finds that out.
ProcessThenPost(deadline, events) ==
    \E run \in 0..Len(gKeyboardEQ) :
        LET late(i) == enqueued[gKeyboardEQ[i]].ts > deadline
        IN  /\ \A i \in 1..run : ~late(i)
            /\ run < Len(gKeyboardEQ) => late(run + 1)
            /\ posted' = posted \o [i \in 1..run |-> Posts(gKeyboardEQ[i])] \o events
            /\ gKeyboardEQ' = SubSeq(gKeyboardEQ, run + 2, Len(gKeyboardEQ))

(***************************************************************************)
(* The keyboard.                                                           *)
(***************************************************************************)

\* A keyboard's thread makes an event; updateEventFlags leaves its time 0.
Stamp(k, action) ==
    /\ keyboard[k] = Idle
    /\ Len(enqueued) < MaxKeys
    /\ keyboard' = [keyboard EXCEPT ![k] =
                       [state   |-> "made",
                        element |-> [action |-> action, ts |-> IF action = "flags" THEN 0 ELSE now]]]
    /\ UNCHANGED <<session, gKeyboardEQ, enqueued, interrupt, poster, now, posted>>

\* keyboardEvent, keyboardSpecialEvent and updateEventFlags queue it under
\* the queue's own lock ...
Enqueue(k) ==
    /\ keyboard[k].state = "made"
    /\ gKeyboardEQ' = Append(gKeyboardEQ, Len(enqueued) + 1)
    /\ enqueued' = Append(enqueued, keyboard[k].element)
    /\ keyboard' = [keyboard EXCEPT ![k] = [state |-> "queued", element |-> NoElement]]
    /\ UNCHANGED <<session, interrupt, poster, now, posted>>

\* MUTANT: only the first element of a queue raises the interrupt.
BugRaiseForFirst(k) ==
    /\ keyboard[k].state = "queued"
    /\ keyboard' = [keyboard EXCEPT ![k] = Idle]
    /\ interrupt' = (interrupt \/ Len(gKeyboardEQ) = 1)
    /\ UNCHANGED <<session, gKeyboardEQ, enqueued, poster, now, posted>>

\* ... and raise the work loop's event source after the unlock.
InterruptOccurred(k) ==
    /\ keyboard[k].state = "queued"
    /\ keyboard' = [keyboard EXCEPT ![k] = Idle]
    /\ interrupt' = TRUE
    /\ UNCHANGED <<session, gKeyboardEQ, enqueued, poster, now, posted>>

DoProcessKeyboardEQ ==
    /\ interrupt
    /\ interrupt' = FALSE
    /\ ProcessThenPost(NoTime, << >>)
    /\ UNCHANGED <<session, keyboard, enqueued, poster, now>>

(***************************************************************************)
(* Events posted by processes.                                             *)
(***************************************************************************)

\* newUserClientGated makes a parameter client only while events are open.
NewPoster(p) ==
    /\ poster[p].state = "none"
    /\ eventsOpen
    /\ poster' = [poster EXCEPT ![p].state = "ready"]
    /\ UNCHANGED <<session, keys, now, posted>>

\* extPostEvent reads the clock before it asks for the gate.
ExtPostEvent(p) ==
    /\ poster[p].state = "ready"
    /\ poster[p].posts < MaxPosts
    /\ poster' = [poster EXCEPT ![p] = [state |-> "posting", ts |-> now, posts |-> @.posts + 1]]
    /\ UNCHANGED <<session, keys, now, posted>>

\* extPostEventGated; nothing is posted when another client has seized the
\* virtual device the event goes through.
ExtPostEventGated(p) ==
    /\ poster[p].state = "posting"
    /\ poster' = [poster EXCEPT ![p].state = "ready"]
    /\ \/ UNCHANGED <<gKeyboardEQ, posted>>
       \/ /\ eventsOpen
          /\ ProcessThenPost(poster[p].ts, << Event(<< "ext" >>, 0, poster[p].ts) >>)
    /\ UNCHANGED <<session, keyboard, enqueued, interrupt, now>>

\* setParamPropertiesPostGated announces new parameters, in a session or not.
ParametersModified(p) ==
    /\ poster[p].state = "ready"
    /\ poster[p].posts < MaxPosts
    /\ poster' = [poster EXCEPT ![p].posts = @ + 1]
    /\ ProcessThenPost(now, << Event(<< "ext" >>, 0, now) >>)
    /\ UNCHANGED <<session, keyboard, enqueued, interrupt, now>>

Tick ==
    /\ now < MaxTime
    /\ now' = now + 1
    /\ UNCHANGED <<session, keys, poster, posted>>

Next ==
    \/ \E s \in Servers : Connect(s) \/ Abort(s) \/ Retry(s) \/ CreateShmem(s) \/ Disconnect(s)
    \/ \E k \in Keyboards :
          \/ \E a \in Pressed : Stamp(k, a)
          \/ Enqueue(k)
          \/ InterruptOccurred(k)
    \/ DoProcessKeyboardEQ
    \/ \E p \in Posters :
          NewPoster(p) \/ ExtPostEvent(p) \/ ExtPostEventGated(p) \/ ParametersModified(p)
    \/ Tick

Spec == Init /\ [][Next]_vars

(***************************************************************************)
(* Properties.                                                             *)
(***************************************************************************)

\* What can be posted together.
Batches == {<< >>, << "key" >>, << "key", "power" >>, << "console" >>, << "ext" >>}

TypeOK ==
    /\ evOpenCalled \in BOOLEAN /\ eventsOpen \in BOOLEAN /\ interrupt \in BOOLEAN
    /\ server \in [Servers -> {"none", "asleep", "awake", "open", "gone"}]
    /\ poster \in [Posters -> [state : {"none", "ready", "posting"}, ts : 0..MaxTime,
                               posts : 0..MaxPosts]]
    /\ now \in 1..MaxTime
    /\ keyboard \in [Keyboards -> [state : {"idle", "made", "queued"}, element : Elements]]
    /\ enqueued \in Seq(Elements)
    /\ gKeyboardEQ \in Seq(1..Len(enqueued))
    /\ posted \in Seq([what : Batches, n : 0..Len(enqueued), ts : 0..MaxTime,
                       after : 0..Len(enqueued)])

\* The session belongs to one server at a time, events are open only in a
\* session, and no server sleeps while the session is free: of those that
\* were woken together one gets it, the others are refused (evOpenGated,
\* evCloseGated).
SingleOwner ==
    /\ evOpenCalled <=> \E s \in Servers : server[s] = "open"
    /\ \A s, t \in Servers : server[s] = "open" /\ server[t] = "open" => s = t
    /\ eventsOpen => evOpenCalled
    /\ ~evOpenCalled => \A s \in Servers : server[s] # "asleep"

FromKeyboard(i) == posted[i].what # << "ext" >>
Silent(i) == posted[i].what = << >>

\* Keys are posted in the order they were queued, each once, and an event a
\* process posts does not overtake a key that is no later than it, unless an
\* element queued ahead of that key is later than the event, which takes
\* keyboards whose events are queued out of order (processKeyboardEQ and the
\* promise on postEvent, "This should keep the events in order").
KeysInOrder ==
    \A j \in DOMAIN posted : FromKeyboard(j) /\ ~Silent(j) =>
        \A i \in 1..(j - 1) :
            IF FromKeyboard(i)
            THEN posted[i].n < posted[j].n
            ELSE \/ posted[j].n > posted[i].after
                 \/ posted[j].ts > posted[i].ts
                 \/ \E m \in 1..(posted[j].n - 1) : enqueued[m].ts > posted[i].ts

\* No element is left in the queue with nobody to handle it: the work loop has
\* been told, or the thread of a keyboard is about to tell it.  The element is
\* in the queue before the interrupt is raised, so a drain that just missed it
\* is followed by another (keyboardEvent, doProcessKeyboardEQ).
NoneStranded ==
    gKeyboardEQ # <<>> => interrupt \/ \E k \in Keyboards : keyboard[k].state = "queued"

\* The promise on postEvent taken at its word: a key that was queued is still
\* queued or has been posted, to the session or to the console.
NoKeyLost ==
    \A n \in DOMAIN enqueued : enqueued[n].action = "key" =>
        \/ n \in Range(gKeyboardEQ)
        \/ \E i \in DOMAIN posted : posted[i].n = n
================================================================================
