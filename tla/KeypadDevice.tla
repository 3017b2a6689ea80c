---------------------------- MODULE KeypadDevice ----------------------------
(***************************************************************************)
(* The buttons of a phone as KEYPAD_DEVICE_PROTOCOL reports them: volume   *)
(* up, volume down and power, sampled by KeypadDeviceGetKeys and turned    *)
(* into key strokes by LibKeyUpdateKeyStatus (taps, key repeat, and the    *)
(* combinations of the power button held down with a volume button).       *)
(*                                                                         *)
(* GetKeys runs at TPL_NOTIFY with the time since the last poll; one poll  *)
(* is one step per key (pos).  The buttons do not change during a poll.    *)
(* Times are multiples of one unit and saturate at LongTime: the code only *)
(* asks whether a time has reached one of the three limits.                *)
(***************************************************************************)
EXTENDS Naturals, Sequences

CONSTANTS
    ReleaseTime,   \* MS2NS(10)
    RepeatTime,    \* MS2NS(100)
    LongTime,      \* MS2NS(500)
    Deltas         \* times between two polls

ASSUME TimeAssumption ==
    /\ ReleaseTime \in Nat /\ RepeatTime \in Nat /\ LongTime \in Nat
    /\ 0 < ReleaseTime /\ ReleaseTime <= RepeatTime /\ RepeatTime <= LongTime
    /\ Deltas \subseteq Nat

KeyListPowerFirst == <<"Power", "VolumeUp", "VolumeDown">>
KeyList == <<"VolumeUp", "VolumeDown", "Power">>
Keys    == {"VolumeUp", "VolumeDown", "Power"}

\* Context->KeyData as KeypadDeviceReset sets it.
KeyData(k) ==
    CASE k = "VolumeUp"   -> "SCAN_UP"
      [] k = "VolumeDown" -> "SCAN_DOWN"
      [] k = "Power"      -> "CARRIAGE_RETURN"

Reports == {"SCAN_UP", "SCAN_DOWN", "CARRIAGE_RETURN", "SCAN_RIGHT", "SCAN_LEFT", "SCAN_ESC"}

VARIABLES
    Context,   \* the KEY_CONTEXT of each key
    Bitmap,    \* keys whose bit in gBitmapScanCodes or gBitmapUnicodeChars is set
    pos,       \* key of KeyList the poll is at; 0 between polls
    Delta,     \* argument of the poll
    wire,      \* the buttons held down
    pushed,    \* key stroke pushed by the last step
    press      \* history of the current press of each key

vars == <<Context, Bitmap, pos, Delta, wire, pushed, press>>

Times    == 0 .. LongTime
Contexts == [State : {"RELEASED", "PRESSED", "LONGPRESS_RELEASE"}, Time : Times,
             Repeat : BOOLEAN, Longpress : BOOLEAN]
\* count: strokes reported (2: several); muted: held for a combination;
\* since: real time since the press or the last stroke.
Presses  == [count : 0 .. 2, muted : BOOLEAN, since : Times]

\* The state is well-formed and a poll visits only keys of the list.
TypeOK ==
    /\ Context \in [Keys -> Contexts]
    /\ Bitmap \subseteq Keys
    /\ pos \in 0 .. Len(KeyList)
    /\ Delta \in Deltas \union {0}
    /\ wire \subseteq Keys
    /\ pushed \in Reports \union {"none"}
    /\ press \in [Keys -> Presses]

Later(t) == IF t + Delta >= LongTime THEN LongTime ELSE t + Delta

FreshContext == [State |-> "RELEASED", Time |-> 0, Repeat |-> FALSE, Longpress |-> FALSE]
FreshPress   == [count |-> 0, muted |-> FALSE, since |-> 0]

\* After the Reset that KeypadControllerDriverStart makes.
Init ==
    /\ Context = [k \in Keys |-> FreshContext]
    /\ Bitmap = {} /\ pos = 0 /\ Delta = 0 /\ wire = {} /\ pushed = "none"
    /\ press = [k \in Keys |-> FreshPress]

\* KeypadDeviceReset clears the contexts and leaves the bitmaps alone.
KeypadDeviceReset ==
    /\ pos = 0
    /\ Context' = [k \in Keys |-> FreshContext]
    /\ press' = [k \in Keys |-> FreshPress]
    /\ pushed' = "none"
    /\ UNCHANGED <<Bitmap, pos, Delta, wire>>

\* KeypadDeviceGetKeys is entered, d after the last poll, with buttons held.
GetKeys(d, held) ==
    /\ pos = 0
    /\ pos' = 1 /\ Delta' = d /\ wire' = held /\ pushed' = "none"
    /\ press' = [k \in Keys |-> [press[k] EXCEPT !.since =
                    IF @ + d >= LongTime THEN LongTime ELSE @ + d]]
    /\ UNCHANGED <<Context, Bitmap>>

\* It returns at the first button whose GPIO cannot be read.
GetStateFails ==
    /\ pos # 0
    /\ pos' = 0 /\ pushed' = "none"
    /\ UNCHANGED <<Context, Bitmap, Delta, wire, press>>

-----------------------------------------------------------------------------
(* LibKeyUpdateKeyStatus on the key the poll is at.                         *)

Key == KeyList[pos]
IsPressed == Key \in wire
Time == Later(Context[Key].Time)

At(state, pressed) ==
    /\ pos # 0
    /\ Context[Key].State = state
    /\ IsPressed = pressed

KeySetState == IF IsPressed THEN Bitmap \union {Key} ELSE Bitmap \ {Key}
KeyGetState(k) == k \in KeySetState

\* The loop of KeypadDeviceGetKeys goes on to the next key, or ends.
NextPos == IF pos = Len(KeyList) THEN 0 ELSE pos + 1

\* The key's context becomes c, and report is pushed.
Update(c, report) ==
    /\ Context' = [Context EXCEPT ![Key] = c]
    /\ Bitmap' = KeySetState
    /\ pushed' = report
    /\ pos' = NextPos
    /\ UNCHANGED <<Delta, wire>>

Reported(p) == [p EXCEPT !.count = IF @ = 2 THEN 2 ELSE @ + 1, !.since = 0]
Recorded(p) == press' = [press EXCEPT ![Key] = p]

Aged == [Context[Key] EXCEPT !.Time = Time]

KeyIdle ==
    /\ At("RELEASED", FALSE)
    /\ Update(Aged, "none")
    /\ UNCHANGED press

KeyPressed ==
    /\ At("RELEASED", TRUE)
    /\ Update([Aged EXCEPT !.Time = 0, !.State = "PRESSED"], "none")
    /\ Recorded(FreshPress)

RepeatsAtOnce(c) == c.Repeat
Repeats(c) == c.Repeat /\ c.Time >= RepeatTime
LongPressed(c) == ~c.Longpress /\ c.Time >= LongTime

KeyRepeat ==
    /\ At("PRESSED", TRUE) /\ Repeats(Aged)
    /\ Update([Aged EXCEPT !.Time = 0, !.Repeat = TRUE], KeyData(Key))
    /\ Recorded(Reported(press[Key]))

\* The power button held down: which stroke depends on the other buttons.
ComboReport ==
    IF KeyGetState("VolumeDown") THEN "SCAN_RIGHT"
    ELSE IF KeyGetState("VolumeUp") THEN "SCAN_LEFT"
    ELSE "SCAN_ESC"

PowerLongpress ==
    /\ At("PRESSED", TRUE) /\ Key = "Power" /\ ~Repeats(Aged) /\ LongPressed(Aged)
    /\ Update([Aged EXCEPT !.Longpress = TRUE], ComboReport)
    /\ Recorded(Reported(press[Key]))

\* A volume button held down starts to repeat, unless power is held as well.
VolumeLongpress ==
    /\ At("PRESSED", TRUE) /\ Key # "Power" /\ ~Repeats(Aged) /\ LongPressed(Aged)
    /\ IF KeyGetState("Power")
       THEN /\ Update([Aged EXCEPT !.Longpress = TRUE], "none")
            /\ Recorded([press[Key] EXCEPT !.muted = TRUE])
       ELSE /\ Update([Aged EXCEPT !.Time = 0, !.Repeat = TRUE, !.Longpress = TRUE],
                      KeyData(Key))
            /\ Recorded(Reported(press[Key]))

KeyHeld ==
    /\ At("PRESSED", TRUE) /\ ~Repeats(Aged) /\ ~LongPressed(Aged)
    /\ Update(Aged, "none")
    /\ UNCHANGED press

\* A tap is reported when the key is let go.
TapsIfShort(c) == ~c.Longpress /\ c.Time < RepeatTime
Taps(c) == ~c.Longpress
TapContextStays(c) == c
TapContext(c) == [c EXCEPT !.State = "LONGPRESS_RELEASE"]

KeyTapped ==
    /\ At("PRESSED", FALSE) /\ Taps(Aged)
    /\ Update(TapContext(Aged), KeyData(Key))
    /\ Recorded(Reported(press[Key]))

KeyReleased ==
    /\ At("PRESSED", FALSE) /\ ~Taps(Aged) /\ Time >= ReleaseTime
    /\ Update(FreshContext, "none")
    /\ UNCHANGED press

KeyBounce ==
    /\ At("PRESSED", FALSE) /\ ~Taps(Aged) /\ Time < ReleaseTime
    /\ Update(Aged, "none")
    /\ UNCHANGED press

KeySettled ==
    /\ \E b \in BOOLEAN : At("LONGPRESS_RELEASE", b)
    /\ Update(FreshContext, "none")
    /\ UNCHANGED press

Next ==
    \/ KeypadDeviceReset
    \/ \E d \in Deltas, held \in SUBSET Keys : GetKeys(d, held)
    \/ GetStateFails
    \/ KeyIdle \/ KeyPressed \/ KeyRepeat \/ PowerLongpress \/ VolumeLongpress
    \/ KeyHeld \/ KeyTapped \/ KeyReleased \/ KeyBounce \/ KeySettled

Spec == Init /\ [][Next]_vars

-----------------------------------------------------------------------------
\* A press leads to one stroke, however the polls fall, unless the key is
\* repeating; a key held for a combination leads to none.
OneStrokePerPress ==
    \A k \in Keys :
        Context[k].State # "RELEASED" =>
            /\ ~Context[k].Repeat => press[k].count <= 1
            /\ press[k].muted => press[k].count = 0

\* No press is swallowed: when a key settles, its press has been reported or
\* it was held for a combination with power.
EveryPressReported ==
    [][\A k \in Keys :
          pos # 0 /\ Context[k].State # "RELEASED" /\ Context'[k].State = "RELEASED"
              => press[k].count > 0 \/ press[k].muted]_vars

\* A combination is reported only if its buttons are down in the very poll that
\* reports it (the bitmap holds no stale bit), and volume down comes first.
ComboIsHeld ==
    [][/\ pushed' = "SCAN_RIGHT" => {"Power", "VolumeDown"} \subseteq wire
       /\ pushed' = "SCAN_LEFT"  => {"Power", "VolumeUp"} \subseteq wire /\ "VolumeDown" \notin wire
       /\ pushed' = "SCAN_ESC"   => wire = {"Power"}]_vars

\* Strokes of a key that stays down keep their distance in real time: the
\* first comes after LongTime, the next ones at least RepeatTime apart, even
\* if polls are skipped because a GPIO could not be read.
RepeatSpacing ==
    [][\A k \in Keys :
          pos # 0 /\ Key = k /\ k \in wire /\ pushed' # "none"
              => press[k].since >= IF press[k].count = 0 THEN LongTime ELSE RepeatTime]_vars

=============================================================================
