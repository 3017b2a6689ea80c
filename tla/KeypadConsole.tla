---------------------------- MODULE KeypadConsole ----------------------------
(***************************************************************************)
(* The console side of KeypadDxe: the timer that polls the keypad device,  *)
(* the readers of SIMPLE_TEXT_INPUT(_EX), and the notification functions   *)
(* that KeyNotifyProcessHandler calls.                                     *)
(*                                                                         *)
(* Everything but that handler runs inside one critical section at         *)
(* TPL_NOTIFY and is one step.  The handler runs at TPL_CALLBACK, like the *)
(* timer, and calls the functions outside the critical section (pc): while *)
(* it runs, the only others to act are the functions it calls.             *)
(*                                                                         *)
(* A poll brings at most one key; several keys in one poll are several     *)
(* polls in a row.  KeypadErr is never set by the code and is left out.    *)
(***************************************************************************)
EXTENDS KeyQueue, FiniteSets

CONSTANTS
    Keys,          \* keys of the device; "partial" has neither scan code nor character
    Shifts,        \* shift and toggle states; 0 in a registration means any
    Fns,           \* notification functions
    ToggleStates,  \* arguments of SetState
    CallbackMay,   \* what a notification function may call
    MaxStrokes,    \* bound: keys typed
    MaxHandles,    \* bound: registrations made
    MaxResets      \* bound: resets

ASSUME ConsoleAssumption ==
    /\ 0 \in Shifts
    /\ ToggleStates \subseteq SUBSET {"scroll", "num", "caps", "exposed"}
    /\ CallbackMay \subseteq {"read", "reset", "set", "register", "unregister"}
    /\ MaxStrokes \in Nat /\ MaxHandles \in Nat /\ MaxResets \in Nat

\* n is the serial number of the stroke, for the history only.
KeyDatas == [key : Keys, shift : Shifts, n : 1 .. MaxStrokes]

VARIABLES
    EfiKeyQueue, EfiKeyQueueForNotify,
    NotifyList,     \* registrations, in the order they were made
    Toggle,         \* ScrollLock, NumLock, CapsLock, IsSupportPartialKey
    signalled,      \* KeyNotifyProcessEvent waits to be dispatched
    pc, KeyData, Link,     \* KeyNotifyProcessHandler
    strokes, handles, resets,
    due             \* history: <<handle, stroke>> the handler owes a call

queues  == <<EfiKeyQueue, EfiKeyQueueForNotify>>
handler == <<pc, KeyData, Link>>
bounds  == <<strokes, handles, resets>>
vars == <<queues, NotifyList, Toggle, signalled, handler, bounds, due>>

Handles == 1 .. MaxHandles
Notifies == [handle : Handles, key : Keys, shift : Shifts, fn : Fns]
Nobody == 0                   \* Link when it has come back to the list head

\* The state is well-formed: ring indices stay in range and at most one of the
\* four toggles is on.
TypeOK ==
    /\ EfiKeyQueue \in Queues(KeyDatas) /\ EfiKeyQueueForNotify \in Queues(KeyDatas)
    /\ NotifyList \in Seq(Notifies)
    /\ Toggle \in {{}} \union {{t} : t \in {"scroll", "num", "caps", "exposed"}}
    /\ signalled \in BOOLEAN
    /\ pc \in {"idle", "pop", "walk", "call"}
    /\ KeyData \in KeyDatas \union {NoData}
    /\ Link \in Handles \union {Nobody}
    /\ strokes \in 0 .. MaxStrokes /\ handles \in 0 .. MaxHandles /\ resets \in 0 .. MaxResets
    /\ due \subseteq Handles \X (1 .. MaxStrokes)

Init ==
    /\ EfiKeyQueue = ZeroQueue /\ EfiKeyQueueForNotify = ZeroQueue
    /\ NotifyList = <<>> /\ Toggle = {} /\ signalled = FALSE
    /\ pc = "idle" /\ KeyData = NoData /\ Link = Nobody
    /\ strokes = 0 /\ handles = 0 /\ resets = 0
    /\ due = {}

-----------------------------------------------------------------------------
IsPartial(d) == d.key = "partial"

IsKeyRegistered(reg, d) == reg.key = d.key /\ (reg.shift # 0 => reg.shift = d.shift)

Matching(d) == {i \in 1 .. Len(NotifyList) : IsKeyRegistered(NotifyList[i], d)}

\* Strokes that are in a queue.
In(q) == {Contents(q)[i].n : i \in 1 .. Count(q)}

\* The key goes to the notify queue once for every registration it matches.
PushedForNotify(d) ==
    LET push[k \in 0 .. Len(NotifyList)] ==
          IF k = 0 THEN EfiKeyQueueForNotify ELSE PushEfikeyBufTail(push[k - 1], d)
    IN  push[Cardinality(Matching(d))]

\* The event is signalled with every push.
Signals(d) == signalled \/ Matching(d) # {}

\* KeypadTimerHandler finds no key to report.
NoKey ==
    UNCHANGED <<EfiKeyQueueForNotify, signalled, strokes, due>>

\* KeypadReturnApiPushEfikeyBufTail, up to the push to the readers' queue.
KeyFor(d) ==
    /\ d.n = strokes + 1
    /\ IsPartial(d) => "exposed" \in Toggle
    /\ strokes' = strokes + 1
    /\ EfiKeyQueueForNotify' = PushedForNotify(d)
    /\ signalled' = Signals(d)
    /\ due' = LET live == In(PushedForNotify(d)) \union (IF pc \in {"walk", "call"} THEN {KeyData.n} ELSE {})
              IN  {o \in due \union {<<NotifyList[i].handle, d.n>> : i \in Matching(d)} : o[2] \in live}

\* KeypadTimerHandler, after which the readers' queue would be q.
Poll(q) ==
    \/ NoKey /\ q = EfiKeyQueue
    \/ \E d \in KeyDatas : KeyFor(d) /\ q = PushEfikeyBufTail(EfiKeyQueue, d)

Polls == {EfiKeyQueue} \union {PushEfikeyBufTail(EfiKeyQueue, d) : d \in KeyDatas}

\* Who may call now: anyone while the handler does not run, otherwise the
\* notification function it is calling.
May(what) == pc = "idle" \/ (pc = "call" /\ what \in CallbackMay)

KeypadTimerHandler ==
    /\ pc = "idle"
    /\ \E d \in KeyDatas : KeyFor(d) /\ EfiKeyQueue' = PushEfikeyBufTail(EfiKeyQueue, d)
    /\ UNCHANGED <<NotifyList, Toggle, handler, handles, resets>>

\* KeypadReadKeyStrokeWorker: a poll, then the oldest key is taken.
\* ReadKeyStroke repeats it while it gets partial keys.
KeypadReadKeyStrokeWorker ==
    /\ May("read")
    /\ \E q \in Polls : Poll(q) /\ EfiKeyQueue' = PopEfikeyBufHead(q)
    /\ UNCHANGED <<NotifyList, Toggle, handler, handles, resets>>

\* The loop of KeypadWaitForKey drops the partial keys at the head.
SkipPartialAll(q) == IF \E i \in 1 .. Count(q) : IsPartial(Contents(q)[i]) THEN Cleared(q) ELSE q
SkipPartial(q) ==
    LET n == Count(q)
        full == {i \in 1 .. n : ~IsPartial(Contents(q)[i])}
        first == IF full = {} THEN n + 1 ELSE CHOOSE i \in full : \A j \in full : i <= j
    IN  [q EXCEPT !.Head = (@ + first - 1) % MaxCount]

\* KeypadWaitForKey, also for WaitForKeyEx: a poll; the event is signalled
\* if a key is left.
KeypadWaitForKey ==
    /\ May("read")
    /\ \E q \in Polls : Poll(q) /\ EfiKeyQueue' = SkipPartial(q)
    /\ UNCHANGED <<NotifyList, Toggle, handler, handles, resets>>

\* KeypadEfiReset with InitKeypad.
KeypadEfiReset ==
    /\ May("reset") /\ resets < MaxResets
    /\ EfiKeyQueue' = Cleared(EfiKeyQueue)
    /\ EfiKeyQueueForNotify' = Cleared(EfiKeyQueueForNotify)
    /\ Toggle' = {}
    /\ resets' = resets + 1
    /\ due' = {o \in due : pc = "call" /\ o[2] = KeyData.n}
    /\ UNCHANGED <<NotifyList, signalled, handler, strokes, handles>>

\* KeypadSetState: the first toggle found is the only one set.
Toggled(t) ==
    IF "scroll" \in t THEN {"scroll"}
    ELSE IF "num" \in t THEN {"num"}
    ELSE IF "caps" \in t THEN {"caps"}
    ELSE t \intersect {"exposed"}

KeypadSetState(t) ==
    /\ May("set")
    /\ Toggle' = Toggled(t)
    /\ UNCHANGED <<queues, NotifyList, signalled, handler, bounds, due>>

\* KeypadRegisterKeyNotify of a function that is not registered for the key yet.
KeypadRegisterKeyNotify(key, shift, fn) ==
    /\ May("register") /\ handles < MaxHandles
    /\ ~\E i \in 1 .. Len(NotifyList) :
          /\ IsKeyRegistered(NotifyList[i], [key |-> key, shift |-> shift])
          /\ NotifyList[i].fn = fn
    /\ handles' = handles + 1
    /\ NotifyList' = Append(NotifyList, [handle |-> handles + 1, key |-> key,
                                         shift |-> shift, fn |-> fn])
    /\ UNCHANGED <<queues, Toggle, signalled, handler, strokes, resets, due>>

\* The node of a handle, and the list when that node is taken out.
PositionOf(h) == CHOOSE i \in 1 .. Len(NotifyList) : NotifyList[i].handle = h
Without(h) ==
    [i \in 1 .. (Len(NotifyList) - 1) |->
        IF i < PositionOf(h) THEN NotifyList[i] ELSE NotifyList[i + 1]]

\* KeypadUnregisterKeyNotify.  A notification function does not unregister
\* itself: the node it runs on would be freed under the handler.
WithoutFirst(h) == Tail(NotifyList)
Unregistered(h) == Without(h)

KeypadUnregisterKeyNotify(h) ==
    /\ May("unregister")
    /\ \E i \in 1 .. Len(NotifyList) : NotifyList[i].handle = h
    /\ pc = "call" => h # Link
    /\ NotifyList' = Unregistered(h)
    /\ due' = {o \in due : o[1] # h}
    /\ UNCHANGED <<queues, Toggle, signalled, handler, bounds>>

-----------------------------------------------------------------------------
(* KeyNotifyProcessHandler.                                                 *)

Dispatch ==
    /\ pc = "idle" /\ signalled
    /\ signalled' = FALSE /\ pc' = "pop"
    /\ UNCHANGED <<queues, NotifyList, Toggle, KeyData, Link, bounds, due>>

FirstLink == IF NotifyList = <<>> THEN Nobody ELSE NotifyList[1].handle

NotifyPop ==
    /\ pc = "pop"
    /\ IF IsEfikeyBufEmpty(EfiKeyQueueForNotify)
       THEN pc' = "idle" /\ UNCHANGED <<EfiKeyQueueForNotify, KeyData, Link>>
       ELSE /\ KeyData' = HeadData(EfiKeyQueueForNotify)
            /\ EfiKeyQueueForNotify' = PopEfikeyBufHead(EfiKeyQueueForNotify)
            /\ pc' = "walk" /\ Link' = FirstLink
    /\ UNCHANGED <<EfiKeyQueue, NotifyList, Toggle, signalled, bounds, due>>

Position == PositionOf(Link)
NextLink == IF Position = Len(NotifyList) THEN Nobody ELSE NotifyList[Position + 1].handle
Matches  == IsKeyRegistered(NotifyList[Position], KeyData)

\* The end of the list: the loop takes the next key.
AfterWalkIdle == "idle"
AfterWalk == "pop"

WalkEnds ==
    /\ pc = "walk" /\ Link = Nobody
    /\ pc' = AfterWalk
    /\ UNCHANGED <<queues, NotifyList, Toggle, signalled, KeyData, Link, bounds, due>>

WalkPassesStays ==
    /\ pc = "walk" /\ Link # Nobody /\ ~Matches
    /\ UNCHANGED vars

WalkPasses ==
    /\ pc = "walk" /\ Link # Nobody /\ ~Matches
    /\ Link' = NextLink
    /\ UNCHANGED <<queues, NotifyList, Toggle, signalled, pc, KeyData, bounds, due>>

\* The function is called ...
WalkCalls ==
    /\ pc = "walk" /\ Link # Nobody /\ Matches
    /\ pc' = "call"
    /\ due' = due \ {<<Link, KeyData.n>>}
    /\ UNCHANGED <<queues, NotifyList, Toggle, signalled, KeyData, Link, bounds>>

\* ... and returns; the handler goes on from the node it stands on.
CallReturns ==
    /\ pc = "call"
    /\ pc' = "walk" /\ Link' = NextLink
    /\ UNCHANGED <<queues, NotifyList, Toggle, signalled, KeyData, bounds, due>>

Handler == Dispatch \/ NotifyPop \/ WalkEnds \/ WalkPasses \/ WalkCalls \/ CallReturns

Next ==
    \/ KeypadTimerHandler \/ KeypadReadKeyStrokeWorker \/ KeypadWaitForKey
    \/ KeypadEfiReset
    \/ \E t \in ToggleStates : KeypadSetState(t)
    \/ \E k \in Keys, s \in Shifts, f \in Fns : KeypadRegisterKeyNotify(k, s, f)
    \/ \E h \in Handles : KeypadUnregisterKeyNotify(h)
    \/ Handler

Spec == Init /\ [][Next]_vars
FairSpec == Spec /\ WF_vars(Handler)

-----------------------------------------------------------------------------
\* The readers' queue is a bounded FIFO that loses only its oldest keys.
Fifo == INSTANCE KeyFifo
            WITH Capacity <- MaxCount - 1, Partial <- IsPartial,
                 fifo <- Contents(EfiKeyQueue)
ReadersFifo == Fifo!Spec

\* No wake-up is lost: when the handler is idle and not signalled, every
\* registration that was in place when a key was typed has been called for it,
\* unless it was removed, or the key was lost to a reset or a full queue.
NotifiedAll == pc = "idle" /\ ~signalled => due = {}

\* The handler never stands on a freed node, though the functions it calls may
\* register and unregister others.
LinkIsLive ==
    pc \in {"walk", "call"} /\ Link # Nobody
        => \E i \in 1 .. Len(NotifyList) : NotifyList[i].handle = Link

\* A key that is owed to a registration is delivered or given up.
EventuallyNotified ==
    \A o \in Handles \X (1 .. MaxStrokes) : o \in due ~> o \notin due

=============================================================================
