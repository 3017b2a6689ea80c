------------------------ MODULE KeypadDevice_proofs ------------------------
(***************************************************************************)
(* TLAPS proofs about KeypadDevice for every choice of the three limits    *)
(* and of the times between polls.                                         *)
(***************************************************************************)
EXTENDS KeypadDevice, TLAPS

\* The place of a key in the order in which a poll visits the keys.
Turn(k) ==
    CASE k = "VolumeUp"   -> 1
      [] k = "VolumeDown" -> 2
      [] k = "Power"      -> 3

\* The poll under way has not come to key k yet.
Pending(k) == pos # 0 /\ pos <= Turn(k)

\* What the flags of a context say about the strokes of its press.
StrokesOf(c, p) ==
    /\ c.State = "RELEASED" => ~c.Repeat /\ ~c.Longpress
    /\ c.State = "PRESSED" /\ ~c.Longpress => ~c.Repeat /\ p.count = 0 /\ ~p.muted
    /\ c.State = "PRESSED" /\ c.Longpress /\ c.Repeat => p.count >= 1 /\ ~p.muted
    /\ c.State = "PRESSED" /\ c.Longpress /\ ~c.Repeat =>
          \/ p.count = 1 /\ ~p.muted
          \/ p.count = 0 /\ p.muted
    /\ c.State = "LONGPRESS_RELEASE" =>
          ~c.Repeat /\ ~c.Longpress /\ p.count = 1 /\ ~p.muted

\* The context's clock, t, is never ahead of the real time since the last
\* stroke while it can still lead to another stroke.
ClockOf(c, t, p) ==
    c.State = "PRESSED" /\ (c.Longpress => c.Repeat) => t <= p.since

\* The clock as the poll under way will see it.
Clock(k) == IF Pending(k) THEN Later(Context[k].Time) ELSE Context[k].Time

KeyInv(k) == StrokesOf(Context[k], press[k]) /\ ClockOf(Context[k], Clock(k), press[k])

\* The bitmap is exact for the keys the poll under way has visited.
BitmapInv == \A k \in Keys : pos # 0 /\ ~Pending(k) => (k \in Bitmap <=> k \in wire)

IInv == TypeOK /\ (\A k \in Keys : KeyInv(k)) /\ BitmapInv

-----------------------------------------------------------------------------
(* The step of a poll that visits one key.                                  *)

\* A poll visits exactly the keys, in the order of Turn.
LEMMA KeyFacts ==
    /\ Len(KeyList) = 3
    /\ \A k \in Keys : Turn(k) \in 1 .. 3
    /\ \A i \in 1 .. 3 : KeyList[i] \in Keys /\ Turn(KeyList[i]) = i
    /\ \A k, l \in Keys : Turn(k) = Turn(l) => k = l
    /\ "Power" \in Keys /\ "VolumeUp" \in Keys /\ "VolumeDown" \in Keys
    /\ KeyList[3] = "Power"
    /\ Turn("Power") = 3 /\ Turn("VolumeUp") = 1 /\ Turn("VolumeDown") = 2
<1>1. Len(KeyList) = 3 /\ KeyList[1] = "VolumeUp" /\ KeyList[2] = "VolumeDown"
      /\ KeyList[3] = "Power"
  BY DEF KeyList
<1>2. Turn("Power") = 3 /\ Turn("VolumeUp") = 1 /\ Turn("VolumeDown") = 2
  BY DEF Turn
<1>3. \A i \in 1 .. 3 : i = 1 \/ i = 2 \/ i = 3
  OBVIOUS
<1> QED BY <1>1, <1>2, <1>3 DEF Keys

\* No time has passed is a time.
LEMMA ZeroTime == 0 \in Times
BY TimeAssumption DEF Times

\* What the key the poll is at looks like when LibKeyUpdateKeyStatus starts.
LEMMA AtKey ==
    ASSUME TypeOK, pos # 0
    PROVE  /\ pos \in 1 .. 3 /\ Key \in Keys /\ Turn(Key) = pos /\ Pending(Key)
           /\ Context[Key] \in Contexts /\ press[Key] \in Presses
           /\ Time \in Times /\ Time = Later(Context[Key].Time)
           /\ Aged \in Contexts /\ Aged.Time = Time
           /\ Aged.State = Context[Key].State /\ Aged.Repeat = Context[Key].Repeat
           /\ Aged.Longpress = Context[Key].Longpress
<1>1. pos \in 1 .. 3
  BY KeyFacts DEF TypeOK
<1>2. Key \in Keys /\ Turn(Key) = pos
  BY <1>1, KeyFacts DEF Key
<1>3. Context[Key] \in Contexts /\ press[Key] \in Presses
  BY <1>2 DEF TypeOK
<1>4. Time \in Times
  <2>1. Delta \in Nat
    BY TimeAssumption DEF TypeOK
  <2>2. Context[Key].Time \in Nat
    BY <1>3 DEF Contexts, Times
  <2> QED BY <2>1, <2>2, TimeAssumption DEF Time, Later, Times
<1>5. /\ Aged \in Contexts /\ Aged.Time = Time
      /\ Aged.State = Context[Key].State /\ Aged.Repeat = Context[Key].Repeat
      /\ Aged.Longpress = Context[Key].Longpress
  BY <1>3, <1>4 DEF Aged, Contexts
<1> QED BY <1>1, <1>2, <1>3, <1>4, <1>5 DEF Pending, Time

\* A step of the poll keeps the invariant if it leaves its own key right.
LEMMA UpdateKeeps ==
    ASSUME IInv, pos # 0, NEW c \in Contexts, NEW p \in Presses,
           NEW r \in Reports \union {"none"},
           Update(c, r), press' = [press EXCEPT ![Key] = p],
           StrokesOf(c, p), ClockOf(c, c.Time, p)
    PROVE  IInv'
<1> USE DEF IInv
<1>1. pos' \in 0 .. 3 /\ pos \in 1 .. 3 /\ (pos' = IF pos = 3 THEN 0 ELSE pos + 1)
  BY AtKey, KeyFacts DEF Update, NextPos
<1>2. TypeOK'
  <2>1. Context' \in [Keys -> Contexts] /\ press' \in [Keys -> Presses]
    BY DEF TypeOK, Update
  <2>2. Bitmap' \subseteq Keys
    BY AtKey DEF Update, KeySetState, TypeOK
  <2> QED BY <1>1, <2>1, <2>2, KeyFacts DEF TypeOK, Update
<1>3. \A k \in Keys : k # Key => Turn(k) # pos
  BY KeyFacts, AtKey
<1>4. \A k \in Keys : Turn(k) \in 1 .. 3
  BY KeyFacts
<1>5. ASSUME NEW k \in Keys PROVE KeyInv(k)'
  <2>1. CASE k = Key
    <3>1. ~Pending(k)'
      BY <1>1, <2>1, AtKey DEF Pending
    <3>2. Context'[k] = c /\ press'[k] = p
      BY <2>1 DEF Update, TypeOK
    <3> QED BY <3>1, <3>2 DEF KeyInv, Clock
  <2>2. CASE k # Key
    <3>1. Context'[k] = Context[k] /\ press'[k] = press[k] /\ Delta' = Delta
      BY <2>2 DEF Update, TypeOK
    <3>2. Pending(k)' => Pending(k)
      BY <1>1, <1>4 DEF Pending
    <3>3. /\ Context[k] \in Contexts /\ press[k] \in Presses /\ Delta \in Nat
          /\ Context[k].Time \in Nat /\ Context[k].Time <= LongTime /\ press[k].since \in Nat
      BY TimeAssumption DEF TypeOK, Contexts, Presses, Times
    <3>4. Clock(k)' <= Clock(k) /\ Clock(k) \in Nat /\ Clock(k)' \in Nat
      BY <3>1, <3>2, <3>3, TimeAssumption DEF Clock, Later
    <3>5. ClockOf(Context[k], Clock(k), press[k]) /\ StrokesOf(Context[k], press[k])
      BY DEF KeyInv
    <3>6. ClockOf(Context[k], Clock(k)', press[k])
      BY <3>3, <3>4, <3>5 DEF ClockOf
    <3> QED BY <3>1, <3>5, <3>6 DEF KeyInv
  <2> QED BY <2>1, <2>2
<1>6. BitmapInv'
  <2> SUFFICES ASSUME NEW k \in Keys, pos' # 0, ~Pending(k)'
               PROVE  k \in Bitmap' <=> k \in wire'
    BY DEF BitmapInv
  <2>1. CASE k = Key
    BY <2>1 DEF Update, KeySetState, IsPressed
  <2>2. CASE k # Key
    <3>1. ~Pending(k)
      BY <1>1, <1>3, <1>4, <2>2 DEF Pending
    <3> QED BY <2>2, <3>1 DEF BitmapInv, Update, KeySetState
  <2> QED BY <2>1, <2>2
<1> QED BY <1>2, <1>5, <1>6

-----------------------------------------------------------------------------
(* The actions.                                                             *)

\* The strokes LibKeyUpdateKeyStatus can push are strokes.
LEMMA ReportTypes ==
    /\ \A k \in Keys : KeyData(k) \in Reports
    /\ ComboReport \in Reports
<1>1. \A k \in Keys : KeyData(k) \in {"SCAN_UP", "SCAN_DOWN", "CARRIAGE_RETURN"}
  BY DEF KeyData, Keys
<1>2. ComboReport \in {"SCAN_RIGHT", "SCAN_LEFT", "SCAN_ESC"}
  BY DEF ComboReport
<1> QED BY <1>1, <1>2 DEF Reports

\* A step that leaves the history of the presses alone.
LEMMA QuietUpdateKeeps ==
    ASSUME IInv, pos # 0, NEW c \in Contexts, Update(c, "none"), UNCHANGED press,
           StrokesOf(c, press[Key]), ClockOf(c, c.Time, press[Key])
    PROVE  IInv'
<1>1. press' = [press EXCEPT ![Key] = press[Key]] /\ press[Key] \in Presses
  BY AtKey DEF IInv, TypeOK
<1> QED BY <1>1, UpdateKeeps

\* What the invariant says of the key the poll is at.
LEMMA InvAtKey ==
    ASSUME IInv, pos # 0
    PROVE  StrokesOf(Aged, press[Key]) /\ ClockOf(Aged, Time, press[Key])
<1>1. KeyInv(Key) /\ Clock(Key) = Time
  BY AtKey DEF IInv, Clock
<1> QED BY <1>1, AtKey DEF IInv, KeyInv, StrokesOf, ClockOf

\* A key that stays released keeps its flags.
LEMMA KeyIdleKeeps == ASSUME IInv, KeyIdle PROVE IInv'
BY AtKey, InvAtKey, QuietUpdateKeeps DEF KeyIdle, At, IInv

\* A key held on ages, without a stroke.
LEMMA KeyHeldKeeps == ASSUME IInv, KeyHeld PROVE IInv'
BY AtKey, InvAtKey, QuietUpdateKeeps DEF KeyHeld, At, IInv

\* A key let go too shortly after a stroke stays pressed.
LEMMA KeyBounceKeeps == ASSUME IInv, KeyBounce PROVE IInv'
BY AtKey, InvAtKey, QuietUpdateKeeps DEF KeyBounce, At, IInv

\* A released context says nothing about its press.
LEMMA FreshFacts ==
    /\ FreshContext \in Contexts /\ FreshPress \in Presses
    /\ \A p \in Presses : StrokesOf(FreshContext, p) /\ ClockOf(FreshContext, 0, p)
    /\ FreshContext.Time = 0 /\ FreshContext.State = "RELEASED"
<1>1. FreshContext \in Contexts
  BY TimeAssumption DEF FreshContext, Contexts, Times
<1>2. FreshPress \in Presses
  BY TimeAssumption DEF FreshPress, Presses, Times
<1>3. FreshContext.Time = 0 /\ FreshContext.State = "RELEASED" /\ ~FreshContext.Repeat
      /\ ~FreshContext.Longpress
  BY DEF FreshContext
<1> QED BY <1>1, <1>2, <1>3 DEF StrokesOf, ClockOf

\* A key let go after a long press starts over.
LEMMA KeyReleasedKeeps == ASSUME IInv, KeyReleased PROVE IInv'
BY AtKey, FreshFacts, QuietUpdateKeeps DEF KeyReleased, At, IInv

\* A key tapped starts over at the next poll.
LEMMA KeySettledKeeps == ASSUME IInv, KeySettled PROVE IInv'
BY AtKey, FreshFacts, QuietUpdateKeeps DEF KeySettled, At, IInv

\* A press starts its history and its clock together.
LEMMA KeyPressedKeeps == ASSUME IInv, KeyPressed PROVE IInv'
<1> DEFINE c == [Aged EXCEPT !.Time = 0, !.State = "PRESSED"]
<1>1. pos # 0 /\ Context[Key].State = "RELEASED"
  BY DEF KeyPressed, At
<1>2. /\ c \in Contexts /\ c.Time = 0 /\ c.State = "PRESSED"
      /\ c.Repeat = Aged.Repeat /\ c.Longpress = Aged.Longpress
  BY <1>1, AtKey, ZeroTime DEF IInv, Contexts
<1>3. ~Aged.Repeat /\ ~Aged.Longpress
  BY <1>1, AtKey, InvAtKey DEF IInv, StrokesOf
<1>4. FreshPress.count = 0 /\ FreshPress.since = 0 /\ FreshPress.muted = FALSE
  BY DEF FreshPress
<1>5. StrokesOf(c, FreshPress) /\ ClockOf(c, c.Time, FreshPress)
  BY <1>2, <1>3, <1>4 DEF StrokesOf, ClockOf
<1>6. Update(c, "none") /\ press' = [press EXCEPT ![Key] = FreshPress]
  BY DEF KeyPressed, Recorded
<1> QED BY <1>1, <1>2, <1>5, <1>6, FreshFacts, UpdateKeeps

\* A stroke is counted, up to several, and starts a new interval.
LEMMA ReportedFacts ==
    ASSUME NEW p \in Presses
    PROVE  /\ Reported(p) \in Presses /\ Reported(p).since = 0
           /\ Reported(p).muted = p.muted
           /\ Reported(p).count = IF p.count = 2 THEN 2 ELSE p.count + 1
           /\ p.count \in 0 .. 2
<1> DEFINE n == IF p.count = 2 THEN 2 ELSE p.count + 1
<1>1. p.count \in 0 .. 2
  BY DEF Presses
<1>2. n \in 0 .. 2
  BY <1>1
<1>3. Reported(p) = [p EXCEPT !.count = n, !.since = 0]
  BY DEF Reported
<1> HIDE DEF n
<1>4. /\ Reported(p) \in Presses /\ Reported(p).since = 0
      /\ Reported(p).muted = p.muted /\ Reported(p).count = n
  BY <1>2, <1>3, ZeroTime DEF Presses
<1> QED BY <1>1, <1>4 DEF n

\* A repeated stroke restarts both clocks.
LEMMA KeyRepeatKeeps == ASSUME IInv, KeyRepeat PROVE IInv'
<1> DEFINE c == [Aged EXCEPT !.Time = 0, !.Repeat = TRUE]
           p == Reported(press[Key])
<1>1. pos # 0 /\ Context[Key].State = "PRESSED" /\ Aged.Repeat
  BY DEF KeyRepeat, At, Repeats
<1>2. /\ c \in Contexts /\ c.Time = 0 /\ c.State = "PRESSED" /\ c.Repeat
      /\ c.Longpress = Aged.Longpress
  BY <1>1, AtKey, ZeroTime DEF IInv, Contexts
<1>3. Aged.Longpress /\ press[Key].count >= 1 /\ ~press[Key].muted
  BY <1>1, AtKey, InvAtKey DEF IInv, StrokesOf
<1>4. p \in Presses /\ p.since = 0 /\ ~p.muted /\ p.count >= 1
  BY <1>1, <1>3, AtKey, ReportedFacts DEF IInv
<1>5. StrokesOf(c, p) /\ ClockOf(c, c.Time, p)
  BY <1>2, <1>3, <1>4 DEF StrokesOf, ClockOf
<1>6. Update(c, KeyData(Key)) /\ press' = [press EXCEPT ![Key] = p]
  BY DEF KeyRepeat, Recorded
<1>7. KeyData(Key) \in Reports
  BY <1>1, AtKey, ReportTypes DEF IInv
<1> HIDE DEF c, p
<1> QED BY <1>1, <1>2, <1>4, <1>5, <1>6, <1>7, UpdateKeeps

\* A context that has not seen a long press yet belongs to a press that has
\* led to no stroke.
LEMMA FirstStroke ==
    ASSUME IInv, pos # 0, Context[Key].State = "PRESSED", ~Aged.Longpress
    PROVE  /\ ~Aged.Repeat /\ Aged.State = "PRESSED"
           /\ press[Key].count = 0 /\ ~press[Key].muted /\ Time <= press[Key].since
           /\ Reported(press[Key]) \in Presses /\ Reported(press[Key]).since = 0
           /\ ~Reported(press[Key]).muted /\ Reported(press[Key]).count = 1
<1>1. press[Key] \in Presses /\ Aged.State = "PRESSED"
  BY AtKey DEF IInv
<1>2. press[Key].count = 0 /\ ~press[Key].muted /\ ~Aged.Repeat /\ Time <= press[Key].since
  BY <1>1, InvAtKey DEF StrokesOf, ClockOf
<1> QED BY <1>1, <1>2, ReportedFacts

\* The stroke of power held down is the only one of its press.
LEMMA PowerLongpressKeeps == ASSUME IInv, PowerLongpress PROVE IInv'
<1> DEFINE c == [Aged EXCEPT !.Longpress = TRUE]
           p == Reported(press[Key])
<1>1. pos # 0 /\ Context[Key].State = "PRESSED" /\ ~Aged.Longpress
  BY DEF PowerLongpress, At, LongPressed
<1>2. c \in Contexts /\ c.State = "PRESSED" /\ ~c.Repeat /\ c.Longpress
  BY <1>1, AtKey, FirstStroke DEF IInv, Contexts
<1>3. StrokesOf(c, p) /\ ClockOf(c, c.Time, p)
  BY <1>1, <1>2, FirstStroke DEF StrokesOf, ClockOf
<1>4. Update(c, ComboReport) /\ press' = [press EXCEPT ![Key] = p]
  BY DEF PowerLongpress, Recorded
<1> HIDE DEF c
<1> QED BY <1>1, <1>2, <1>3, <1>4, FirstStroke, ReportTypes, UpdateKeeps

\* A volume button held down repeats from here on, or is muted.
LEMMA VolumeLongpressKeeps == ASSUME IInv, VolumeLongpress PROVE IInv'
<1>1. pos # 0 /\ Context[Key].State = "PRESSED" /\ ~Aged.Longpress
  BY DEF VolumeLongpress, At, LongPressed
<1>2. CASE KeyGetState("Power")
  <2> DEFINE c == [Aged EXCEPT !.Longpress = TRUE]
             p == [press[Key] EXCEPT !.muted = TRUE]
  <2>1. c \in Contexts /\ c.State = "PRESSED" /\ ~c.Repeat /\ c.Longpress
    BY <1>1, AtKey, FirstStroke DEF IInv, Contexts
  <2>2. p \in Presses /\ p.muted /\ p.count = 0
    BY <1>1, AtKey, FirstStroke DEF IInv, Presses
  <2>3. StrokesOf(c, p) /\ ClockOf(c, c.Time, p)
    BY <2>1, <2>2 DEF StrokesOf, ClockOf
  <2>4. Update(c, "none") /\ press' = [press EXCEPT ![Key] = p]
    BY <1>2 DEF VolumeLongpress, Recorded
  <2> HIDE DEF c, p
  <2> QED BY <1>1, <2>1, <2>2, <2>3, <2>4, UpdateKeeps
<1>3. CASE ~KeyGetState("Power")
  <2> DEFINE c == [Aged EXCEPT !.Time = 0, !.Repeat = TRUE, !.Longpress = TRUE]
             p == Reported(press[Key])
  <2>1. c \in Contexts /\ c.State = "PRESSED" /\ c.Repeat /\ c.Longpress /\ c.Time = 0
    BY <1>1, AtKey, FirstStroke, ZeroTime DEF IInv, Contexts
  <2>2. StrokesOf(c, p) /\ ClockOf(c, c.Time, p)
    BY <1>1, <2>1, FirstStroke DEF StrokesOf, ClockOf
  <2>3. Update(c, KeyData(Key)) /\ press' = [press EXCEPT ![Key] = p]
    BY <1>3 DEF VolumeLongpress, Recorded
  <2>4. KeyData(Key) \in Reports
    BY <1>1, AtKey, ReportTypes DEF IInv
  <2> HIDE DEF c
  <2> QED BY <1>1, <2>1, <2>2, <2>3, <2>4, FirstStroke, UpdateKeeps
<1> QED BY <1>2, <1>3

\* A tap is the only stroke of its press.
LEMMA KeyTappedKeeps == ASSUME IInv, KeyTapped PROVE IInv'
<1> DEFINE c == TapContext(Aged)
           p == Reported(press[Key])
<1>1. pos # 0 /\ Context[Key].State = "PRESSED" /\ ~Aged.Longpress
  BY DEF KeyTapped, At, Taps
<1>2. c \in Contexts /\ c.State = "LONGPRESS_RELEASE" /\ ~c.Repeat /\ ~c.Longpress
  BY <1>1, AtKey, FirstStroke DEF IInv, Contexts, TapContext
<1>3. StrokesOf(c, p) /\ ClockOf(c, c.Time, p)
  BY <1>1, <1>2, FirstStroke DEF StrokesOf, ClockOf
<1>4. Update(c, KeyData(Key)) /\ press' = [press EXCEPT ![Key] = p]
  BY DEF KeyTapped, Recorded
<1>5. KeyData(Key) \in Reports
  BY <1>1, AtKey, ReportTypes DEF IInv
<1> HIDE DEF c
<1> QED BY <1>1, <1>2, <1>3, <1>4, <1>5, FirstStroke, UpdateKeeps

\* A reset starts every key over.
LEMMA ResetKeeps == ASSUME IInv, KeypadDeviceReset PROVE IInv'
<1>1. TypeOK'
  BY FreshFacts DEF IInv, KeypadDeviceReset, TypeOK
<1>2. ASSUME NEW k \in Keys PROVE KeyInv(k)'
  <2>1. Context'[k] = FreshContext /\ press'[k] = FreshPress /\ pos' = 0
    BY DEF KeypadDeviceReset
  <2>2. Clock(k)' = 0
    BY <2>1, FreshFacts DEF Clock, Pending
  <2> QED BY <2>1, <2>2, FreshFacts DEF KeyInv
<1>3. BitmapInv'
  BY DEF KeypadDeviceReset, BitmapInv
<1> QED BY <1>1, <1>2, <1>3 DEF IInv

\* A poll that starts ages the real time of every press at once.
LEMMA GetKeysKeeps ==
    ASSUME IInv, NEW d \in Deltas, NEW held \in SUBSET Keys, GetKeys(d, held)
    PROVE  IInv'
<1> DEFINE Aging(t) == IF t + d >= LongTime THEN LongTime ELSE t + d
<1>1. /\ pos = 0 /\ pos' = 1 /\ Delta' = d /\ wire' = held /\ Context' = Context
      /\ press' = [k \in Keys |-> [press[k] EXCEPT !.since = Aging(@)]]
  BY DEF GetKeys
<1>2. \A t \in Times : Aging(t) \in Times
  BY TimeAssumption DEF Times
<1>3. ASSUME NEW k \in Keys
      PROVE  /\ press'[k] \in Presses /\ press[k] \in Presses /\ Context[k] \in Contexts
             /\ press'[k].since = Aging(press[k].since)
             /\ press'[k].count = press[k].count /\ press'[k].muted = press[k].muted
  <2>1. press[k] \in Presses /\ press[k].since \in Times /\ Context[k] \in Contexts
    BY DEF IInv, TypeOK, Presses
  <2>2. Aging(press[k].since) \in Times
    BY <1>2, <2>1
  <2> HIDE DEF Aging
  <2> QED BY <1>1, <2>1, <2>2 DEF Presses
<1>4. TypeOK'
  <2>1. press' \in [Keys -> Presses]
    BY <1>1, <1>3
  <2> QED BY <1>1, <2>1, KeyFacts DEF GetKeys, TypeOK, IInv
<1>5. ASSUME NEW k \in Keys PROVE KeyInv(k)'
  <2>1. StrokesOf(Context[k], press[k]) /\ ClockOf(Context[k], Context[k].Time, press[k])
    BY <1>1 DEF IInv, KeyInv, Clock, Pending
  <2>2. Pending(k)'
    BY <1>1, KeyFacts DEF Pending
  <2>3. Clock(k)' = Aging(Context[k].Time)
    BY <1>1, <2>2 DEF Clock, Later
  <2>4. /\ Context[k].Time \in Nat /\ Context[k].Time <= LongTime /\ d \in Nat
        /\ press[k].since \in Nat /\ press[k].since <= LongTime
    BY <1>3, TimeAssumption DEF Contexts, Presses, Times
  <2>5. Context[k].Time <= press[k].since =>
            Aging(Context[k].Time) <= Aging(press[k].since)
    BY <2>4, TimeAssumption
  <2> HIDE DEF Aging
  <2>6. ClockOf(Context[k], Aging(Context[k].Time), press'[k])
    BY <1>3, <2>1, <2>5 DEF ClockOf
  <2>7. StrokesOf(Context[k], press'[k])
    BY <1>3, <2>1 DEF StrokesOf
  <2> QED BY <1>1, <2>3, <2>6, <2>7 DEF KeyInv
<1>6. BitmapInv'
  BY <1>1, KeyFacts DEF BitmapInv, Pending
<1> QED BY <1>4, <1>5, <1>6 DEF IInv

\* A poll given up leaves clocks behind the real time, never ahead of it.
LEMMA GetStateFailsKeeps == ASSUME IInv, GetStateFails PROVE IInv'
<1>1. TypeOK'
  BY DEF IInv, GetStateFails, TypeOK
<1>2. ASSUME NEW k \in Keys PROVE KeyInv(k)'
  <2>1. /\ Context' = Context /\ press' = press /\ Clock(k)' = Context[k].Time
        /\ Delta \in Nat /\ Context[k].Time \in Nat /\ Context[k].Time <= LongTime
        /\ press[k].since \in Nat
    BY TimeAssumption
       DEF GetStateFails, Clock, Pending, IInv, TypeOK, Contexts, Presses, Times
  <2>2. Context[k].Time <= Clock(k) /\ Clock(k) \in Nat
    BY <2>1, TimeAssumption DEF Clock, Later
  <2>3. StrokesOf(Context[k], press[k]) /\ ClockOf(Context[k], Clock(k), press[k])
    BY DEF IInv, KeyInv
  <2>4. ClockOf(Context[k], Context[k].Time, press[k])
    BY <2>1, <2>2, <2>3 DEF ClockOf
  <2> QED BY <2>1, <2>3, <2>4 DEF KeyInv
<1>3. BitmapInv'
  BY DEF GetStateFails, BitmapInv
<1> QED BY <1>1, <1>2, <1>3 DEF IInv

\* The state after the first reset satisfies the invariant.
LEMMA InitInv == Init => IInv
<1> SUFFICES ASSUME Init PROVE IInv
  OBVIOUS
<1>1. TypeOK
  BY FreshFacts DEF Init, TypeOK
<1>2. ASSUME NEW k \in Keys PROVE KeyInv(k)
  <2>1. Context[k] = FreshContext /\ press[k] = FreshPress /\ pos = 0
    BY DEF Init
  <2>2. Clock(k) = 0
    BY <2>1, FreshFacts DEF Clock, Pending
  <2> QED BY <2>1, <2>2, FreshFacts DEF KeyInv
<1>3. BitmapInv
  BY DEF Init, BitmapInv
<1> QED BY <1>1, <1>2, <1>3 DEF IInv

\* Every step preserves the invariant.
LEMMA NextInv == ASSUME IInv, [Next]_vars PROVE IInv'
<1>1. CASE KeypadDeviceReset
  BY <1>1, ResetKeeps
<1>2. ASSUME NEW d \in Deltas, NEW held \in SUBSET Keys, GetKeys(d, held) PROVE IInv'
  BY <1>2, GetKeysKeeps
<1>3. CASE GetStateFails
  BY <1>3, GetStateFailsKeeps
<1>4. CASE \/ KeyIdle \/ KeyPressed \/ KeyRepeat \/ PowerLongpress \/ VolumeLongpress
           \/ KeyHeld \/ KeyTapped \/ KeyReleased \/ KeyBounce \/ KeySettled
  BY <1>4, KeyIdleKeeps, KeyPressedKeeps, KeyRepeatKeeps, PowerLongpressKeeps,
     VolumeLongpressKeeps, KeyHeldKeeps, KeyTappedKeeps, KeyReleasedKeeps,
     KeyBounceKeeps, KeySettledKeeps
<1>5. CASE UNCHANGED vars
  <2>1. \A k \in Keys : KeyInv(k)' = KeyInv(k)
    BY <1>5 DEF vars, KeyInv, Clock, Pending, Later
  <2> QED BY <1>5, <2>1 DEF vars, IInv, TypeOK, BitmapInv, Pending
<1> QED BY <1>1, <1>2, <1>3, <1>4, <1>5 DEF Next

\* The invariant is inductive.
LEMMA Invariance == Spec => []IInv
<1>1. IInv /\ [Next]_vars => IInv'
  BY NextInv
<1> QED BY <1>1, InitInv, PTL DEF Spec

-----------------------------------------------------------------------------
(* The theorems.                                                            *)

\* Whatever the limits and however the polls fall, and wherever a poll is given
\* up, the state stays well-formed and a poll visits only keys of the list.
THEOREM TypeCorrect == Spec => []TypeOK
<1>1. IInv => TypeOK
  BY DEF IInv
<1> QED BY <1>1, Invariance, PTL

\* A press of a button leads to one stroke unless the key repeats, and to none
\* when it was held for a combination with power.
THEOREM StrokesBounded == Spec => []OneStrokePerPress
<1>1. ASSUME IInv PROVE OneStrokePerPress
  <2> SUFFICES ASSUME NEW k \in Keys, Context[k].State # "RELEASED"
               PROVE  /\ ~Context[k].Repeat => press[k].count <= 1
                      /\ press[k].muted => press[k].count = 0
    BY DEF OneStrokePerPress
  <2>1. /\ StrokesOf(Context[k], press[k]) /\ Context[k] \in Contexts
        /\ press[k] \in Presses
    BY <1>1 DEF IInv, KeyInv, TypeOK
  <2>2. CASE Context[k].State = "PRESSED"
    BY <2>1, <2>2 DEF StrokesOf, Presses
  <2>3. CASE Context[k].State = "LONGPRESS_RELEASE"
    BY <2>1, <2>3 DEF StrokesOf, Presses
  <2> QED BY <2>1, <2>2, <2>3 DEF Contexts
<1> QED BY <1>1, Invariance, PTL

\* Only the step that visits a key changes that key's context, except for a
\* reset, and only such a step pushes a stroke.
LEMMA StepOfPoll ==
    ASSUME IInv, [Next]_vars, pos # 0
    PROVE  \/ UNCHANGED vars
           \/ UNCHANGED Context /\ pushed' = "none"
           \/ \E c, r : Update(c, r)
<1>1. CASE KeyIdle \/ KeyPressed \/ KeyRepeat \/ PowerLongpress
  BY <1>1 DEF KeyIdle, KeyPressed, KeyRepeat, PowerLongpress
<1>2. CASE VolumeLongpress
  BY <1>2 DEF VolumeLongpress
<1>3. CASE KeyHeld \/ KeyTapped \/ KeyReleased \/ KeyBounce \/ KeySettled
  BY <1>3 DEF KeyHeld, KeyTapped, KeyReleased, KeyBounce, KeySettled
<1>4. CASE GetStateFails
  BY <1>4 DEF GetStateFails
<1>5. ~KeypadDeviceReset /\ ~(\E d \in Deltas, held \in SUBSET Keys : GetKeys(d, held))
  BY DEF KeypadDeviceReset, GetKeys
<1> QED BY <1>1, <1>2, <1>3, <1>4, <1>5 DEF Next

\* A step of LibKeyUpdateKeyStatus touches the context of one key.
LEMMA UpdateContext ==
    ASSUME TypeOK, pos # 0, NEW c, NEW r, Update(c, r)
    PROVE  /\ Context'[Key] = c
           /\ \A k \in Keys : k # Key => Context'[k] = Context[k]
BY AtKey DEF Update, TypeOK

\* A pressed context settles only after a long press (KeyReleased).
LEMMA SettlesAfterLongpress ==
    ASSUME TypeOK, pos # 0, Next, Context[Key].State = "PRESSED",
           Context'[Key].State = "RELEASED"
    PROVE  Aged.Longpress
<1>1. Aged \in Contexts /\ Aged.State = "PRESSED"
  BY AtKey
<1>2. \A c, r : Update(c, r) => Context'[Key] = c
  BY UpdateContext
<1>3. ~KeyRepeat /\ ~PowerLongpress
  BY <1>1, <1>2 DEF KeyRepeat, PowerLongpress, Contexts
<1>4. ~VolumeLongpress
  BY <1>1, <1>2 DEF VolumeLongpress, Contexts
<1>5. ~KeyHeld /\ ~KeyBounce
  BY <1>1, <1>2 DEF KeyHeld, KeyBounce
<1>6. ~KeyTapped
  BY <1>1, <1>2 DEF KeyTapped, TapContext, Contexts
<1>7. ~KeyIdle /\ ~KeyPressed /\ ~KeySettled
  BY DEF KeyIdle, KeyPressed, KeySettled, At
<1>8. ~KeypadDeviceReset /\ ~GetStateFails
      /\ ~(\E d \in Deltas, held \in SUBSET Keys : GetKeys(d, held))
  BY DEF KeypadDeviceReset, GetKeys, GetStateFails
<1>9. KeyReleased
  BY <1>3, <1>4, <1>5, <1>6, <1>7, <1>8 DEF Next
<1> QED BY <1>9 DEF KeyReleased, Taps

\* No press is swallowed: a context that settles (KeyReleased, KeySettled) is
\* that of a press already reported or held for a combination.
THEOREM NoPressSwallowed == Spec => EveryPressReported
<1> DEFINE P == \A k \in Keys :
                   pos # 0 /\ Context[k].State # "RELEASED" /\ Context'[k].State = "RELEASED"
                       => press[k].count > 0 \/ press[k].muted
<1>1. ASSUME IInv, [Next]_vars PROVE P
  <2> SUFFICES ASSUME NEW k \in Keys, pos # 0, Context[k].State # "RELEASED",
                      Context'[k].State = "RELEASED"
               PROVE  press[k].count > 0 \/ press[k].muted
    OBVIOUS
  <2>1. Context' # Context
    OBVIOUS
  <2>2. TypeOK /\ Context[k] \in Contexts /\ press[k] \in Presses
    BY <1>1 DEF IInv, TypeOK
  <2>3. k = Key
    BY <1>1, <2>1, <2>2, StepOfPoll, UpdateContext DEF vars
  <2>4. StrokesOf(Aged, press[Key]) /\ Aged.State = Context[Key].State /\ Aged \in Contexts
    BY <1>1, <2>2, InvAtKey, AtKey
  <2>5. CASE Context[k].State = "PRESSED"
    <3>1. Aged.Longpress
      BY <1>1, <2>1, <2>2, <2>3, <2>5, SettlesAfterLongpress DEF vars
    <3> QED BY <2>2, <2>3, <2>4, <2>5, <3>1 DEF StrokesOf, Presses
  <2>6. CASE Context[k].State = "LONGPRESS_RELEASE"
    BY <2>2, <2>3, <2>4, <2>6 DEF StrokesOf, Presses
  <2> QED BY <2>2, <2>5, <2>6 DEF Contexts
<1> HIDE DEF P
<1>2. IInv /\ [Next]_vars => [P]_vars
  BY <1>1
<1>3. [][P]_vars => EveryPressReported
  BY DEF P, EveryPressReported
<1> QED BY <1>2, <1>3, Invariance, PTL DEF Spec

\* A stroke is pushed only by one of four steps.
LEMMA Pushes ==
    ASSUME TypeOK, Next, pushed' # "none"
    PROVE  /\ pos # 0
           /\ \/ PowerLongpress /\ pushed' = ComboReport
              \/ (KeyRepeat \/ VolumeLongpress \/ KeyTapped) /\ pushed' = KeyData(Key)
<1>1. KeyRepeat \/ PowerLongpress \/ VolumeLongpress \/ KeyTapped
  BY DEF Next, KeypadDeviceReset, GetKeys, GetStateFails, KeyIdle, KeyPressed, KeyHeld,
         KeyReleased, KeyBounce, KeySettled, Update
<1>2. pos # 0
  BY <1>1 DEF KeyRepeat, PowerLongpress, VolumeLongpress, KeyTapped, At
<1>3. KeyRepeat \/ KeyTapped => pushed' = KeyData(Key)
  BY DEF KeyRepeat, KeyTapped, Update
<1>4. VolumeLongpress => pushed' = KeyData(Key)
  BY DEF VolumeLongpress, Update
<1>5. PowerLongpress => pushed' = ComboReport
  BY DEF PowerLongpress, Update
<1> QED BY <1>1, <1>2, <1>3, <1>4, <1>5

\* A combination is what is held down in the very poll that reports it: the
\* bitmap is exact for the volume buttons when the poll comes to power.
THEOREM CombinationIsReal == Spec => ComboIsHeld
<1> DEFINE P == /\ pushed' = "SCAN_RIGHT" => {"Power", "VolumeDown"} \subseteq wire
                /\ pushed' = "SCAN_LEFT"  => {"Power", "VolumeUp"} \subseteq wire
                                             /\ "VolumeDown" \notin wire
                /\ pushed' = "SCAN_ESC"   => wire = {"Power"}
<1>1. ASSUME IInv, Next PROVE P
  <2> SUFFICES ASSUME pushed' \in {"SCAN_RIGHT", "SCAN_LEFT", "SCAN_ESC"} PROVE P
    OBVIOUS
  <2>1. TypeOK /\ BitmapInv
    BY <1>1 DEF IInv
  <2>2. \A k \in Keys : KeyData(k) \in {"SCAN_UP", "SCAN_DOWN", "CARRIAGE_RETURN"}
    BY DEF KeyData, Keys
  <2>3. pos # 0 /\ PowerLongpress /\ pushed' = ComboReport
    BY <1>1, <2>1, <2>2, Pushes, AtKey
  <2>4. Key = "Power" /\ "Power" \in wire
    BY <2>3 DEF PowerLongpress, At, IsPressed
  <2>5. ~Pending("VolumeUp") /\ ~Pending("VolumeDown")
    BY <2>1, <2>3, <2>4, AtKey, KeyFacts DEF Pending
  <2>6. /\ KeyGetState("VolumeUp") <=> "VolumeUp" \in wire
        /\ KeyGetState("VolumeDown") <=> "VolumeDown" \in wire
    BY <2>1, <2>3, <2>4, <2>5, KeyFacts DEF BitmapInv, KeyGetState, KeySetState
  <2>7. wire \subseteq {"Power", "VolumeUp", "VolumeDown"}
    BY <2>1 DEF TypeOK, Keys
  <2> QED BY <2>3, <2>4, <2>6, <2>7 DEF ComboReport
<1> HIDE DEF P
<1>2. IInv /\ [Next]_vars => [P]_vars
  BY <1>1
<1>3. [][P]_vars => ComboIsHeld
  BY DEF P, ComboIsHeld
<1> QED BY <1>2, <1>3, Invariance, PTL DEF Spec

\* The strokes of a key that stays down keep their distance in real time even
\* when polls are given up: a context's clock is never ahead of the real one.
THEOREM StrokesKeepDistance == Spec => RepeatSpacing
<1> DEFINE P == \A k \in Keys :
                   pos # 0 /\ Key = k /\ k \in wire /\ pushed' # "none"
                       => press[k].since >= IF press[k].count = 0 THEN LongTime ELSE RepeatTime
<1>1. ASSUME IInv, Next PROVE P
  <2> SUFFICES ASSUME pos # 0, Key \in wire, pushed' # "none"
               PROVE  press[Key].since >=
                          IF press[Key].count = 0 THEN LongTime ELSE RepeatTime
    OBVIOUS
  <2>1. /\ press[Key] \in Presses /\ press[Key].since \in Nat /\ Time \in Nat
        /\ Aged.Time = Time /\ Aged.State = Context[Key].State /\ Aged \in Contexts
    BY <1>1, AtKey, TimeAssumption DEF IInv, Presses, Times
  <2>2. StrokesOf(Aged, press[Key]) /\ ClockOf(Aged, Time, press[Key])
    BY <1>1, InvAtKey
  <2>3. KeyRepeat \/ PowerLongpress \/ VolumeLongpress
    BY <1>1, Pushes DEF IInv, KeyTapped, At, IsPressed
  <2>4. CASE KeyRepeat
    <3>1. Aged.State = "PRESSED" /\ Aged.Repeat /\ Time >= RepeatTime
      BY <2>1, <2>4 DEF KeyRepeat, At, Repeats
    <3>2. press[Key].count # 0 /\ Time <= press[Key].since
      BY <2>1, <2>2, <3>1 DEF StrokesOf, ClockOf
    <3> QED BY <2>1, <3>1, <3>2, TimeAssumption
  <2>5. CASE PowerLongpress \/ VolumeLongpress
    <3>1. Aged.State = "PRESSED" /\ ~Aged.Longpress /\ Time >= LongTime
      BY <2>1, <2>5 DEF PowerLongpress, VolumeLongpress, At, LongPressed
    <3>2. press[Key].count = 0 /\ Time <= press[Key].since
      BY <2>1, <2>2, <3>1 DEF StrokesOf, ClockOf
    <3> QED BY <2>1, <3>1, <3>2, TimeAssumption
  <2> QED BY <2>3, <2>4, <2>5
<1> HIDE DEF P
<1>2. IInv /\ [Next]_vars => [P]_vars
  BY <1>1
<1>3. [][P]_vars => RepeatSpacing
  BY DEF P, RepeatSpacing
<1> QED BY <1>2, <1>3, Invariance, PTL DEF Spec

=============================================================================
