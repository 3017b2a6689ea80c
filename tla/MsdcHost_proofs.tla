-------------------------- MODULE MsdcHost_proofs --------------------------
(***************************************************************************)
(* TLAPS proofs about MsdcHost for every size of FIFO, block and transfer. *)
(***************************************************************************)
EXTENDS MsdcHost, SequenceTheorems, TLAPS

Steps  == {"CardReset", "EMMCSendOpCond", "CardAllSendCid", "EMMCSetRca", "CardSelect",
           "EMMCSwitch", "CardSendStatus", "SdSendIfCond", "AppCmd", "SdAskOpCond",
           "SdCardSendOpCond", "SdCardSetRca", "SdCardSwitch"}
Sent   == Packets \union {Packet(w, 0) : w \in Steps \union {"none"}}
Longest == MaxBlocks * BlockUnits
Units  == [call : Int, k : Int, whole : BOOLEAN]

\* What the FIFO carries for a packet: the data of a read, for a write one byte
\* in each word of it.
Carried(c) == [k \in 1 .. c.len |-> Unit(calls, k, c.what \in Reads)]

\* The FIFO and MSDC_INT have been cleared by MsdcInit.
Running == phase \notin {"alloc", "leaked"}

\* TypeOK with the fields of the records.
HostType ==
    /\ phase \in {"alloc", "detect", "install", "installed", "freed", "leaked"}
    /\ routine \in 1 .. 2 /\ step \in 1 .. Len(CardDetectRoutineTable[routine])
    /\ CardType \in {"UnknownCard", "EmmcCard", "SdCard"} /\ Mclk \in {"none", "400kHz", "50MHz"}
CallType ==
    /\ pc \in {"idle", "busy", "poll", "read", "drain", "write", "push"}
    /\ cmd \in Sent /\ RemainSize \in 0 .. Longest /\ burst \in 0 .. FifoSize
    /\ seen \subseteq CMDSTS \union DATSTS /\ calls \in 0 .. MaxCalls
Cards == [kind : {"none", "EmmcCard", "SdCard"}, st : {"idle", "ready", "ident", "stby", "tran"},
          busy : 0 .. MaxBusy, error : BOOLEAN]
HwType ==
    /\ int \subseteq CMDSTS \union DATSTS /\ resp \in BOOLEAN /\ card \in Cards
    /\ hw \in [stage : {"idle", "cmd", "data", "stop"}, cmd : Sent, done : 0 .. Longest, call : Nat]
DataType ==
    /\ rx \in Seq(Units) /\ tx \in Seq(Units) /\ moved \in Seq(Units)
    /\ Len(rx) <= FifoSize /\ Len(tx) <= FifoSize
HistType == erred \in BOOLEAN /\ stray \in BOOLEAN /\ dirty \in BOOLEAN /\ lost \in BOOLEAN

TypeInv == HostType /\ CallType /\ HwType /\ DataType /\ HistType

\* Before MsdcInit nothing runs; the detection moves no data and is over after
\* a command that succeeded; a burst is part of what is left.
HostInv ==
    /\ ~Running => pc = "idle" /\ hw.stage = "idle"
    /\ phase # "installed" => ~IsDataTransfer(cmd)
    /\ phase = "install" => pc = "idle" /\ result = "SUCCESS"
    /\ pc \in {"read", "drain"} => cmd.what \in Reads
    /\ pc \in {"write", "push"} => cmd.what \in Writes
    /\ pc = "push" => 1 <= burst /\ burst <= RemainSize

\* A bit of CMDSTS is raised once per command and is gone before the next.
BitInv ==
    Running /\ ~stray =>
        /\ pc # "poll" => int \intersect CMDSTS = {} /\ hw.stage # "cmd"
        /\ hw.stage = "cmd" => int \intersect CMDSTS = {}
        /\ "CMDRDY" \in int => int \intersect CMDSTS = {"CMDRDY"}

Clean == Running /\ ~stray /\ ~dirty /\ ~lost

\* The k-th unit of the packet at hand.
Mine(k) == Unit(calls, k, cmd.what \in Reads)

\* How many units the controller has moved.
Done == IF hw.stage = "data" THEN hw.done ELSE cmd.len

\* The data stage of this packet is under way, or complete.
Stage ==
    /\ IsDataTransfer(cmd)
    /\ hw.stage = "data" => hw.cmd = cmd /\ hw.call = calls /\ hw.done <= cmd.len
    /\ hw.stage # "cmd"
    /\ "XFER_COMPL" \in int <=> hw.stage # "data"
    /\ int \subseteq {"CMDRDY", "XFER_COMPL"}

\* What has been moved and what is in the FIFO are the packet's units in order.
ReadFlow ==
    /\ tx = <<>> /\ Len(moved) + Len(rx) = Done
    /\ \A k \in 1 .. Len(moved) : moved[k] = Mine(k)
    /\ \A k \in 1 .. Len(rx) : rx[k] = Mine(Len(moved) + k)
WriteFlow ==
    /\ rx = <<>> /\ Len(moved) = Done
    /\ \A k \in 1 .. Len(moved) : moved[k] = Mine(k)
    /\ \A k \in 1 .. Len(tx) : tx[k] = Mine(Len(moved) + k)

Empty == rx = <<>> /\ tx = <<>>

\* The command is with the controller, has failed, or has been answered.
PollInv ==
    \/ /\ hw.stage = "cmd" /\ hw.cmd = cmd /\ hw.call = calls /\ hw.done = 0
       /\ int = {} /\ Empty /\ moved = <<>>
    \/ hw.stage = "idle" /\ erred /\ Empty /\ int \subseteq {"CMDTMO", "CMDCRCERR"}
    \/ hw.stage = "idle" /\ ~IsDataTransfer(cmd) /\ Empty /\ int = {"CMDRDY"}
    \/ /\ Stage /\ "CMDRDY" \in int
       /\ cmd.what \in Reads => ReadFlow /\ moved = <<>>
       /\ cmd.what \in Writes => WriteFlow /\ moved = <<>> /\ tx = <<>>

FlowInv ==
    Clean =>
        /\ pc \in {"idle", "busy"} => int = {} /\ Empty /\ hw.stage \in {"idle", "stop"}
        /\ pc = "busy" => moved = <<>> /\ ~erred
        /\ pc = "poll" => PollInv
        /\ pc \in {"read", "drain"} => /\ Stage /\ ReadFlow /\ "CMDRDY" \notin int
                                       /\ RemainSize = cmd.len - Len(moved)
        /\ pc = "drain" => ("XFER_COMPL" \in seen => "XFER_COMPL" \in int)
        /\ pc \in {"write", "push"} => /\ Stage /\ WriteFlow /\ "CMDRDY" \notin int
                                       /\ Len(moved) + Len(tx) = cmd.len - RemainSize

\* What the caller was told.
ToldInv ==
    Clean /\ phase = "installed" /\ pc = "idle" =>
        /\ result \notin {"none", "SUCCESS", "INVALID_PARAMETER"} => erred
        /\ result = "SUCCESS" /\ IsDataTransfer(cmd) => moved = Carried(cmd)

IInv == TypeInv /\ HostInv /\ BitInv /\ FlowInv /\ ToldInv

-----------------------------------------------------------------------------
(* Packets and sequences.                                                   *)

\* A transfer of several blocks is no longer than the longest one.
LEMMA BlocksBounded ==
    ASSUME NEW n \in 1 .. MaxBlocks
    PROVE  /\ n * BlockUnits \in 1 .. Longest /\ Longest \in Nat /\ BlockUnits \in 1 .. Longest
<1>1. \A a, b, c \in Nat : (1 <= a /\ a <= b /\ 1 <= c) => (1 <= a * c /\ a * c <= b * c /\ c <= b * c)
  <2> SUFFICES ASSUME NEW a \in Nat, NEW b \in Nat, NEW c \in Nat, 1 <= a, a <= b, 1 <= c
               PROVE  1 <= a * c /\ a * c <= b * c /\ c <= b * c
    OBVIOUS
  <2>1. b * c = a * c + (b - a) * c /\ a * c = c + (a - 1) * c
    BY SMT
  <2>2. \A x, y \in Nat : x * y \in Nat
    BY SMT
  <2>3. (b - a) * c \in Nat /\ (a - 1) * c \in Nat /\ a * c \in Nat
    <3>1. b - a \in Nat /\ a - 1 \in Nat
      BY SMT
    <3> QED BY <2>2, <3>1
  <2> QED BY <2>1, <2>3, SMT
<1>2. n \in Nat /\ MaxBlocks \in Nat /\ BlockUnits \in Nat /\ 1 <= n /\ n <= MaxBlocks /\ 1 <= BlockUnits
  BY MsdcAssumption
<1>3. n * BlockUnits \in Nat /\ MaxBlocks * BlockUnits \in Nat
  BY <1>2, SMT
<1> QED BY <1>1, <1>2, <1>3 DEF Longest

\* What is sent: a packet with data has the length the controller is told.
LEMMA SentFacts ==
    ASSUME NEW c \in Sent
    PROVE  /\ c.len \in 0 .. Longest /\ BlkLen(c) \in 1 .. Longest
           /\ IsDataTransfer(c) => BlkLen(c) = c.len
<1> DEFINE A == {Packet(w, BlockUnits) : w \in (Reads \union Writes) \ Multi}
           B == {Packet(w, n * BlockUnits) : w \in Multi, n \in 1 .. MaxBlocks}
           C == {Packet(w, 0) : w \in {"CardSendStatus", "STOP_TRANSMISSION", "R5B"}}
           D == {Packet(w, 0) : w \in Steps \union {"none"}}
<1>1. Longest \in Nat /\ BlockUnits \in 1 .. Longest
  BY BlocksBounded, MsdcAssumption
<1>2. CASE c \in A
  <2>1. PICK w \in (Reads \union Writes) \ Multi : c = Packet(w, BlockUnits)
    BY <1>2
  <2>2. c.what = w /\ c.len = BlockUnits
    BY <2>1 DEF Packet
  <2> QED BY <1>1, <2>1, <2>2 DEF BlkLen
<1>3. CASE c \in B
  <2>1. PICK w \in Multi, n \in 1 .. MaxBlocks : c = Packet(w, n * BlockUnits)
    BY <1>3
  <2>2. c.what = w /\ c.len = n * BlockUnits
    BY <2>1 DEF Packet
  <2> QED BY <2>2, BlocksBounded DEF BlkLen
<1>4. CASE c \in C \union D
  <2>1. c.len = 0 /\ c.what \notin Reads \union Writes \union Multi
    BY <1>4 DEF Packet, Reads, Writes, Multi, Steps
  <2> QED BY <1>1, <2>1 DEF BlkLen, IsDataTransfer
<1>5. Sent = ((A \union B) \union C) \union D
  BY DEF Sent, Packets
<1> QED
  <2> HIDE DEF A, B, C, D
  <2> QED BY <1>2, <1>3, <1>4, <1>5

\* What the detection sends is among it, and moves no data.
LEMMA StepsSent ==
    ASSUME NEW w \in Steps \union {"none"}
    PROVE  Packet(w, 0) \in Sent /\ ~IsDataTransfer(Packet(w, 0))
BY DEF Sent, Packet, IsDataTransfer, Reads, Writes, Steps

\* The routines have 7 and 11 commands.
LEMMA TableFacts ==
    /\ Len(CardDetectRoutineTable) = 2
    /\ Len(CardDetectRoutineTable[1]) = 7 /\ Len(CardDetectRoutineTable[2]) = 11
    /\ \A r \in 1 .. 2 : \A s \in 1 .. Len(CardDetectRoutineTable[r]) : CardDetectRoutineTable[r][s] \in Steps
    /\ \A s \in 1 .. 7 : CardDetectRoutineTable[1][s] # "SdCardSendOpCond"
    /\ \A s \in 1 .. 11 : CardDetectRoutineTable[2][s] = "SdCardSendOpCond" => s = 6
<1>1. Len(CardDetectRoutineTable) = 2 /\ Len(CardDetectRoutineTable[1]) = 7 /\ Len(CardDetectRoutineTable[2]) = 11
  BY DEF CardDetectRoutineTable, EmmcIdentification, SdCardIdentification
<1>2. \A s \in 1 .. 7 : EmmcIdentification[s] \in Steps /\ EmmcIdentification[s] # "SdCardSendOpCond"
  BY DEF EmmcIdentification, Steps
<1>3. \A s \in 1 .. 11 : /\ SdCardIdentification[s] \in Steps
                         /\ SdCardIdentification[s] = "SdCardSendOpCond" => s = 6
  BY DEF SdCardIdentification, Steps
<1>4. CardDetectRoutineTable[1] = EmmcIdentification /\ CardDetectRoutineTable[2] = SdCardIdentification
  BY DEF CardDetectRoutineTable
<1> QED BY <1>1, <1>2, <1>3, <1>4

\* Taking the first n units off a FIFO.
LEMMA TakeFirst ==
    ASSUME NEW s \in Seq(Units), NEW n \in 0 .. Len(s)
    PROVE  /\ SubSeq(s, n + 1, Len(s)) \in Seq(Units)
           /\ Len(SubSeq(s, n + 1, Len(s))) = Len(s) - n
           /\ \A k \in 1 .. Len(s) - n : SubSeq(s, n + 1, Len(s))[k] = s[n + k]
BY SMT

\* A sequence joined to another one.
LEMMA Joined ==
    ASSUME NEW s \in Seq(Units), NEW t \in Seq(Units)
    PROVE  /\ s \o t \in Seq(Units) /\ Len(s \o t) = Len(s) + Len(t)
           /\ \A k \in 1 .. Len(s) : (s \o t)[k] = s[k]
           /\ \A k \in 1 .. Len(t) : (s \o t)[Len(s) + k] = t[k]
BY SMT

\* A unit more at the end.
LEMMA Appended ==
    ASSUME NEW s \in Seq(Units), NEW u \in Units
    PROVE  /\ Append(s, u) \in Seq(Units) /\ Len(Append(s, u)) = Len(s) + 1
           /\ \A k \in 1 .. Len(s) : Append(s, u)[k] = s[k]
           /\ Append(s, u)[Len(s) + 1] = u
BY SMT

\* The first unit taken off.
LEMMA HeadTail ==
    ASSUME NEW s \in Seq(Units), s # <<>>
    PROVE  /\ Tail(s) \in Seq(Units) /\ Len(Tail(s)) = Len(s) - 1 /\ Len(s) >= 1
           /\ Head(s) = s[1] /\ Head(s) \in Units
           /\ \A k \in 1 .. Len(s) - 1 : Tail(s)[k] = s[k + 1]
BY SMT

\* A sequence without units is the empty one.
LEMMA NoUnits ==
    ASSUME NEW s \in Seq(Units)
    PROVE  Len(s) \in Nat /\ (Len(s) = 0 <=> s = <<>>)
BY SMT

-----------------------------------------------------------------------------
(* Steps that leave a part of the state alone.                              *)

\* The initial state: nothing runs.
LEMMA InitInv == Init => IInv
<1> SUFFICES ASSUME Init PROVE IInv
  OBVIOUS
<1>1. HostType
  BY TableFacts DEF Init, HostType
<1>2. CallType
  <2>1. Longest \in Nat /\ FifoSize \in Nat /\ MaxCalls \in Nat
    BY BlocksBounded, MsdcAssumption
  <2>2. NoPacket \in Sent
    BY StepsSent DEF NoPacket
  <2> QED BY <2>1, <2>2 DEF Init, CallType
<1>3. HwType
  <2>1. Longest \in Nat
    BY BlocksBounded, MsdcAssumption
  <2>2. NoPacket \in Sent
    BY StepsSent DEF NoPacket
  <2>3. int \subseteq CMDSTS \union DATSTS
    BY DEF Init, CMDSTS, DATSTS
  <2>4. Idle \in [stage : {"idle", "cmd", "data", "stop"}, cmd : Sent, done : 0 .. Longest, call : Nat]
    BY <2>1, <2>2 DEF Idle
  <2>5. card \in Cards
    BY DEF Init, Cards
  <2> QED BY <2>3, <2>4, <2>5 DEF Init, HwType
<1>4. DataType
  <2>1. FifoSize \in Nat /\ FifoSize >= 1
    BY MsdcAssumption
  <2>2. \A u \in Units : <<u>> \in Seq(Units) /\ Len(<<u>>) = 1
    OBVIOUS
  <2>3. Unit(-1, 1, TRUE) \in Units
    BY DEF Unit, Units
  <2>4. <<>> \in Seq(Units) /\ Len(<<>>) = 0
    OBVIOUS
  <2>5. rx \in Seq(Units) /\ Len(rx) \in {0, 1}
    BY <2>2, <2>3, <2>4 DEF Init
  <2>6. tx = <<>> /\ moved = <<>>
    BY DEF Init
  <2> QED BY <2>1, <2>4, <2>5, <2>6 DEF DataType
<1>5. HistType
  BY DEF Init, HistType
<1>6. HostInv
  BY StepsSent DEF Init, HostInv, Running, Idle, NoPacket
<1>7. BitInv /\ FlowInv /\ ToldInv
  BY DEF Init, BitInv, FlowInv, ToldInv, Clean, Running
<1> QED BY <1>1, <1>2, <1>3, <1>4, <1>5, <1>6, <1>7 DEF IInv, TypeInv

\* What is in the buffer and the FIFO is judged from them, the packet and the
\* controller's count alone.
LEMMA FlowFrame ==
    ASSUME UNCHANGED <<cmd, calls, moved, rx, tx>>, Done' = Done
    PROVE  (ReadFlow' <=> ReadFlow) /\ (WriteFlow' <=> WriteFlow) /\ (Empty' <=> Empty)
BY Zenon DEF ReadFlow, WriteFlow, Empty, Mine

\* A step that changes nothing.
LEMMA StutterStep == IInv /\ UNCHANGED vars => IInv'
<1> SUFFICES ASSUME IInv, UNCHANGED vars PROVE IInv'
  OBVIOUS
<1> USE DEF vars, hostVars, callVars, hwVars, histVars
<1>1. TypeInv' /\ HostInv'
  BY DEF IInv, TypeInv, HostType, CallType, HwType, DataType, HistType, HostInv, Running
<1>2. (ReadFlow' <=> ReadFlow) /\ (WriteFlow' <=> WriteFlow) /\ (Empty' <=> Empty)
  <2>1. Done' = Done
    BY DEF Done
  <2> QED BY <2>1, FlowFrame
<1>3. BitInv' /\ FlowInv' /\ ToldInv'
  BY <1>2 DEF IInv, BitInv, FlowInv, ToldInv, Clean, Running, PollInv, Stage, Carried
<1> QED BY <1>1, <1>3 DEF IInv

\* MsdcSendCmd returns: a detection goes on, fails or is complete, and an
\* installed host stays so.
LEMMA ReturnFacts ==
    ASSUME HostType, NEW s, Return(s)
    PROVE  /\ HostType' /\ pc' = "idle" /\ result' = s
           /\ phase \in {"detect", "installed"}
           /\ phase' \in {"detect", "install", "freed", "installed"}
           /\ phase' = "installed" <=> phase = "installed"
           /\ phase' = "install" => s = "SUCCESS"
<1>1. CASE phase = "installed" /\ UNCHANGED hostVars
  BY <1>1 DEF Return, hostVars, HostType
<1>2. CASE Identify(s)
  <2>0. phase = "detect" /\ pc' = "idle" /\ result' = s
    BY <1>2 DEF Return, Identify
  <2>1. CASE RoutineFails
    <3>1. CASE routine < Len(CardDetectRoutineTable)
      <4>1. routine' = 2 /\ step' = 1 /\ Mclk' = "400kHz" /\ UNCHANGED <<phase, CardType>>
        BY <2>1, <3>1, TableFacts DEF RoutineFails, Detect, HostType
      <4> QED BY <2>0, <4>1, TableFacts DEF HostType
    <3>2. CASE ~(routine < Len(CardDetectRoutineTable))
      BY <2>0, <2>1, <3>2 DEF RoutineFails, HostType
    <3> QED BY <3>1, <3>2
  <2>2. CASE s = "SUCCESS" /\ NotReady /\ AskAgain /\ UNCHANGED <<phase, routine, CardType, Mclk>>
    <3>1. step' \in 1 .. Len(CardDetectRoutineTable[routine])
      <4>1. CASE Command = "SdCardSendOpCond"
        <5>1. routine = 2 /\ step = 6
          <6>1. routine = 1 \/ routine = 2
            BY DEF HostType
          <6>2. CASE routine = 1
            <7>1. step \in 1 .. 7 /\ Command = CardDetectRoutineTable[1][step]
              BY <6>2, TableFacts DEF HostType, Command
            <7> QED BY <4>1, <7>1, TableFacts, Zenon
          <6>3. CASE routine = 2
            <7>1. step \in 1 .. 11 /\ Command = CardDetectRoutineTable[2][step]
              BY <6>3, TableFacts DEF HostType, Command
            <7> QED BY <4>1, <6>3, <7>1, TableFacts, Zenon
          <6> QED BY <6>1, <6>2, <6>3
        <5> QED BY <2>2, <4>1, <5>1, TableFacts DEF AskAgain
      <4>2. CASE Command # "SdCardSendOpCond"
        <5>1. step \in Int
          BY TableFacts DEF HostType
        <5> QED BY <2>2, <4>2, <5>1 DEF AskAgain, HostType
      <4> QED BY <4>1, <4>2
    <3> QED BY <2>0, <2>2, <3>1 DEF HostType
  <2>3. CASE s = "SUCCESS" /\ ~NotReady /\ ~SwitchError /\ ~RoutineFails
    <3>1. CardType' \in {"UnknownCard", "EmmcCard", "SdCard"} /\ routine' = routine
      <4>1. \/ CardType' = "EmmcCard" \/ CardType' = "SdCard" \/ CardType' = CardType
        BY <1>2, <2>3 DEF Identify
      <4> QED BY <1>2, <2>3, <4>1 DEF Identify, HostType
    <3>2. CASE step = Len(CardDetectRoutineTable[routine])
      <4>1. phase' = "install" /\ Mclk' = "50MHz" /\ step' = step
        BY <1>2, <2>3, <3>2 DEF Identify
      <4> QED BY <2>0, <2>3, <3>1, <4>1 DEF HostType
    <3>3. CASE step # Len(CardDetectRoutineTable[routine])
      <4>1. phase' = phase /\ Mclk' = Mclk /\ step' = step + 1
        BY <1>2, <2>3, <3>3 DEF Identify
      <4>2. step + 1 \in 1 .. Len(CardDetectRoutineTable[routine])
        BY <3>3, TableFacts DEF HostType
      <4> QED BY <2>0, <2>3, <3>1, <4>1, <4>2 DEF HostType
    <3> QED BY <3>2, <3>3
  <2> QED BY <1>2, <2>1, <2>2, <2>3 DEF Identify
<1> QED BY <1>1, <1>2 DEF Return

-----------------------------------------------------------------------------
(* The driver's steps.                                                      *)

\* MsdcInit clears MSDC_INT and the FIFO before the first command.
LEMMA StartHostStep == IInv /\ StartHost => IInv'
<1> SUFFICES ASSUME IInv, StartHost PROVE IInv'
  OBVIOUS
<1> USE DEF callVars, histVars
<1>0. phase = "alloc" /\ pc = "idle" /\ hw.stage = "idle" /\ ~IsDataTransfer(cmd)
  BY DEF IInv, HostInv, Running, StartHost
<1>1. /\ phase' \in {"detect", "leaked"}
      /\ UNCHANGED <<CardType, callVars, resp, hw, card, histVars>>
      /\ phase' = "detect" => int' = {} /\ rx' = <<>> /\ tx' = <<>>
      /\ phase' = "leaked" => UNCHANGED <<int, rx, tx>>
  BY DEF StartHost, MsdcInit
<1>2. HostType'
  <2>1. \/ routine' = 1 /\ step' = 1 /\ Mclk' = "400kHz"
        \/ UNCHANGED <<routine, step, Mclk>>
    BY DEF StartHost, Detect
  <2>2. 1 \in 1 .. 2 /\ 1 \in 1 .. Len(CardDetectRoutineTable[1])
    BY TableFacts
  <2>3. CASE routine' = 1 /\ step' = 1 /\ Mclk' = "400kHz"
    BY <1>1, <2>2, <2>3 DEF IInv, TypeInv, HostType
  <2>4. CASE UNCHANGED <<routine, step, Mclk>>
    BY <1>1, <2>4 DEF IInv, TypeInv, HostType
  <2> QED BY <2>1, <2>3, <2>4
<1>3. CallType' /\ HistType'
  BY <1>1 DEF IInv, TypeInv, CallType, HistType
<1>4. HwType'
  BY <1>1 DEF IInv, TypeInv, HwType
<1>5. DataType'
  <2>1. FifoSize \in Nat /\ <<>> \in Seq(Units) /\ Len(<<>>) = 0
    BY MsdcAssumption
  <2>2. moved' \in Seq(Units)
    BY <1>1 DEF IInv, TypeInv, DataType
  <2>3. CASE phase' = "detect"
    BY <1>1, <2>1, <2>2, <2>3 DEF DataType
  <2>4. CASE phase' = "leaked"
    BY <1>1, <2>2, <2>4 DEF IInv, TypeInv, DataType
  <2> QED BY <1>1, <2>3, <2>4
<1>6. HostInv'
  BY <1>0, <1>1 DEF HostInv, Running, IsDataTransfer
<1>7. BitInv' /\ ToldInv'
  BY <1>0, <1>1 DEF BitInv, ToldInv, Running, Clean
<1>8. FlowInv'
  BY <1>0, <1>1 DEF FlowInv, Running, Clean, Empty
<1> QED BY <1>2, <1>3, <1>4, <1>5, <1>6, <1>7, <1>8 DEF IInv, TypeInv

\* The detection ended in a command without data that succeeded.
LEMMA InstallHostStep == IInv /\ InstallHost => IInv'
<1> SUFFICES ASSUME IInv, InstallHost PROVE IInv'
  OBVIOUS
<1> USE DEF callVars, histVars, hwVars
<1>0. phase = "install" /\ pc = "idle" /\ result = "SUCCESS" /\ ~IsDataTransfer(cmd)
  BY DEF IInv, HostInv, InstallHost
<1>1. /\ phase' \in {"installed", "freed"}
      /\ UNCHANGED <<routine, step, CardType, Mclk, callVars, hwVars, histVars>>
  BY DEF InstallHost
<1>2. TypeInv'
  BY <1>1 DEF IInv, TypeInv, HostType, CallType, HwType, DataType, HistType
<1>3. HostInv'
  BY <1>0, <1>1 DEF IInv, HostInv, Running, IsDataTransfer
<1>4. BitInv' /\ ToldInv'
  BY <1>0, <1>1 DEF IInv, BitInv, ToldInv, Running, Clean, IsDataTransfer
<1>5. FlowInv'
  BY <1>0, <1>1 DEF IInv, FlowInv, Running, Clean, Empty
<1> QED BY <1>2, <1>3, <1>4, <1>5 DEF IInv

\* A command begins with nothing left over from the one before.
LEMMA BeginStep ==
    ASSUME IInv, NEW c \in Sent, Begin(c), calls' \in 0 .. MaxCalls,
           phase = "installed" \/ (phase = "detect" /\ ~IsDataTransfer(c))
    PROVE  IInv'
<1> USE DEF hwVars, hostVars
<1>1. /\ pc = "idle" /\ pc' = "busy" /\ cmd' = c /\ moved' = <<>> /\ erred' = FALSE
      /\ UNCHANGED <<hostVars, seen, RemainSize, burst, hwVars, stray, dirty, lost>>
  BY DEF Begin
<1>2. HostType' /\ HwType' /\ HistType'
  BY <1>1 DEF IInv, TypeInv, HostType, HwType, HistType
<1>3. CallType'
  BY <1>1 DEF IInv, TypeInv, CallType
<1>4. DataType'
  <2>1. <<>> \in Seq(Units)
    OBVIOUS
  <2> QED BY <1>1, <2>1 DEF IInv, TypeInv, DataType
<1>5. HostInv'
  BY <1>1 DEF IInv, HostInv, Running, IsDataTransfer
<1>6. BitInv' /\ ToldInv'
  BY <1>1 DEF IInv, BitInv, ToldInv, Running
<1>7. FlowInv'
  BY <1>1 DEF IInv, FlowInv, Running, Clean, Empty
<1> QED BY <1>2, <1>3, <1>4, <1>5, <1>6, <1>7 DEF IInv, TypeInv

\* A detection routine sends its next command.
LEMMA SendDetectStep == IInv /\ SendDetect => IInv'
<1> SUFFICES ASSUME IInv, SendDetect PROVE IInv'
  OBVIOUS
<1>1. Command \in Steps
  BY TableFacts DEF IInv, TypeInv, HostType, Command
<1>2. Packet(Command, 0) \in Sent /\ ~IsDataTransfer(Packet(Command, 0))
  BY <1>1, StepsSent
<1>3. calls' \in 0 .. MaxCalls
  BY DEF SendDetect, IInv, TypeInv, CallType
<1> QED BY <1>2, <1>3, BeginStep DEF SendDetect

\* A client's packet is refused, or begins.
LEMMA PassThruStep == ASSUME NEW c \in Packets PROVE IInv /\ PassThru(c) => IInv'
<1> SUFFICES ASSUME IInv, PassThru(c) PROVE IInv'
  OBVIOUS
<1>1. c \in Sent
  BY DEF Sent
<1>2. calls' \in 0 .. MaxCalls /\ phase = "installed"
  BY MsdcAssumption DEF PassThru, IInv, TypeInv, CallType
<1>3. CASE Begin(c)
  BY <1>1, <1>2, <1>3, BeginStep
<1>4. CASE ~Begin(c)
  <2> USE DEF hwVars, hostVars
  <2>1. /\ c.what = "R5B" /\ pc = "idle" /\ Return("INVALID_PARAMETER")
        /\ cmd' = c /\ moved' = <<>> /\ erred' = FALSE
        /\ UNCHANGED <<seen, RemainSize, burst, hwVars, stray, dirty, lost>>
    BY <1>4 DEF PassThru
  <2>2. pc' = "idle" /\ result' = "INVALID_PARAMETER" /\ phase' = "installed"
    BY <1>2, <2>1, ReturnFacts DEF IInv, TypeInv
  <2>3. HostType'
    BY <2>1, ReturnFacts DEF IInv, TypeInv
  <2>4. CallType'
    BY <1>1, <1>2, <2>1, <2>2 DEF IInv, TypeInv, CallType
  <2>5. HwType' /\ HistType'
    BY <2>1 DEF IInv, TypeInv, HwType, HistType
  <2>6. DataType'
    <3>1. <<>> \in Seq(Units)
      OBVIOUS
    <3> QED BY <2>1, <3>1 DEF IInv, TypeInv, DataType
  <2>7. HostInv'
    BY <2>1, <2>2 DEF IInv, HostInv, Running
  <2>8. BitInv' /\ ToldInv'
    BY <1>2, <2>1, <2>2 DEF IInv, BitInv, ToldInv, Running
  <2>9. FlowInv'
    BY <1>2, <2>1, <2>2 DEF IInv, FlowInv, Running, Clean, Empty
  <2> QED BY <2>3, <2>4, <2>5, <2>6, <2>7, <2>8, <2>9 DEF IInv, TypeInv
<1> QED BY <1>3, <1>4

\* The command is written when the controller is idle.
LEMMA WriteCmdStep == IInv /\ WriteCmd => IInv'
<1> SUFFICES ASSUME IInv, WriteCmd PROVE IInv'
  OBVIOUS
<1> USE DEF hostVars, histVars
<1>1. /\ pc = "busy" /\ pc' = "poll" /\ hw = Idle
      /\ hw' = [stage |-> "cmd", cmd |-> cmd, done |-> 0, call |-> calls]
      /\ UNCHANGED <<hostVars, cmd, seen, RemainSize, burst, result, calls,
                     int, rx, tx, resp, card, histVars>>
  BY DEF WriteCmd, Idle
<1>2. hw.stage = "idle" /\ hw'.stage = "cmd" /\ hw'.cmd = cmd /\ hw'.done = 0 /\ hw'.call = calls
  BY <1>1 DEF Idle
<1>3. HostType' /\ DataType' /\ HistType' /\ CallType'
  BY <1>1 DEF IInv, TypeInv, HostType, DataType, HistType, CallType
<1>4. HwType'
  <2>1. Longest \in Nat /\ calls \in Nat /\ cmd \in Sent
    BY BlocksBounded, MsdcAssumption DEF IInv, TypeInv, CallType
  <2> QED BY <1>1, <2>1 DEF IInv, TypeInv, HwType
<1>5. HostInv'
  BY <1>1, <1>2 DEF IInv, HostInv, Running, IsDataTransfer
<1>6. BitInv' /\ ToldInv'
  BY <1>1, <1>2 DEF IInv, BitInv, ToldInv, Running
<1>7. FlowInv'
  BY <1>1, <1>2 DEF IInv, FlowInv, Running, Clean, Empty, PollInv
<1> QED BY <1>3, <1>4, <1>5, <1>6, <1>7 DEF IInv, TypeInv

\* MsdcIntTrackError names an error for any bits.
LEMMA StatusFacts == ASSUME NEW bits PROVE StatusOf(bits) \in {"TIMEOUT", "CRC_ERROR", "DEVICE_ERROR"}
BY DEF StatusOf

\* A bit of CMDSTS is the command's own; the data stage begins only when it is
\* CMDRDY, and after an error nothing is left behind.
LEMMA MsdcPollInterruptsStep == IInv /\ MsdcPollInterrupts => IInv'
<1> SUFFICES ASSUME IInv, MsdcPollInterrupts PROVE IInv'
  OBVIOUS
<1> USE DEF histVars
<1>1. /\ pc = "poll" /\ int \intersect CMDSTS # {}
      /\ UNCHANGED <<cmd, seen, burst, calls, rx, tx, resp, hw, card, histVars>>
  BY DEF MsdcPollInterrupts, Awaited
<1>2. DataType' /\ HistType'
  BY <1>1 DEF IInv, TypeInv, DataType, HistType
<1>3. Done' = Done
  BY <1>1 DEF Done
<1>4. (ReadFlow' <=> ReadFlow) /\ (WriteFlow' <=> WriteFlow) /\ (Empty' <=> Empty)
  BY <1>1, <1>3, FlowFrame
<1>5. cmd.len \in 0 .. Longest
  BY SentFacts DEF IInv, TypeInv, CallType
<1>6. int' \subseteq int
  BY DEF MsdcPollInterrupts, MsdcIntTrackError
<1>7. HwType'
  BY <1>1, <1>6 DEF IInv, TypeInv, HwType
<1>8. Running
  BY <1>1 DEF IInv, HostInv
<1>9. CASE "CMDRDY" \in int /\ IsDataTransfer(cmd)
  <2> USE DEF hostVars
  <2>1. /\ int' = int \ {"CMDRDY"} /\ RemainSize' = cmd.len /\ UNCHANGED <<hostVars, result>>
        /\ pc' = IF cmd.what \in Reads THEN "read" ELSE "write"
    BY <1>9 DEF MsdcPollInterrupts
  <2>2. pc' \in {"read", "write"} /\ (pc' = "read" => cmd.what \in Reads) /\ (pc' = "write" => cmd.what \in Writes)
    BY <1>9, <2>1 DEF IsDataTransfer
  <2>3. HostType' /\ CallType'
    BY <1>1, <1>5, <2>1, <2>2 DEF IInv, TypeInv, HostType, CallType
  <2>4. HostInv'
    BY <1>1, <2>1, <2>2 DEF IInv, HostInv, Running, IsDataTransfer
  <2>5. BitInv' /\ ToldInv'
    BY <1>1, <1>9, <2>1, <2>2 DEF IInv, BitInv, ToldInv, Running, CMDSTS
  <2>6. FlowInv'
    <3> SUFFICES ASSUME Clean' PROVE FlowInv'
      BY DEF FlowInv
    <3>1. Clean /\ PollInv
      BY <1>1, <2>1 DEF Clean, Running, IInv, FlowInv
    <3>2. /\ Stage /\ moved = <<>>
          /\ cmd.what \in Reads => ReadFlow
          /\ cmd.what \in Writes => WriteFlow /\ tx = <<>>
      BY <1>9, <3>1 DEF PollInv, IsDataTransfer
    <3>3. Stage' /\ "CMDRDY" \notin int'
      BY <1>1, <2>1, <3>2 DEF Stage, IsDataTransfer
    <3>4. Len(moved) = 0 /\ Len(<<>>) = 0
      BY <3>2
    <3>5. pc' = "read" => ReadFlow' /\ RemainSize' = cmd'.len - Len(moved')
      BY <1>1, <1>4, <1>5, <2>1, <2>2, <3>2, <3>4
    <3>6. pc' = "write" => WriteFlow' /\ Len(moved') + Len(tx') = cmd'.len - RemainSize'
      BY <1>1, <1>4, <1>5, <2>1, <2>2, <3>2, <3>4
    <3> QED BY <2>2, <3>3, <3>5, <3>6 DEF FlowInv
  <2> QED BY <1>2, <1>7, <2>3, <2>4, <2>5, <2>6 DEF IInv, TypeInv
<1>10. CASE ~("CMDRDY" \in int /\ IsDataTransfer(cmd))
  <2> DEFINE s == IF "CMDRDY" \in int THEN "SUCCESS" ELSE StatusOf(int)
  <2>1. /\ Return(s) /\ UNCHANGED RemainSize
        /\ "CMDRDY" \in int => int' = int \ {"CMDRDY"}
        /\ "CMDRDY" \notin int => int' = int \ (int \intersect CMDSTS)
    BY <1>10 DEF MsdcPollInterrupts, MsdcIntTrackError
  <2>2. HostType
    BY DEF IInv, TypeInv
  <2>3. s = "SUCCESS" <=> "CMDRDY" \in int
    BY StatusFacts
  <2> HIDE DEF s
  <2>4. /\ HostType' /\ pc' = "idle" /\ result' = s
        /\ phase' \in {"detect", "install", "freed", "installed"}
        /\ phase' = "installed" <=> phase = "installed"
        /\ phase' = "install" => s = "SUCCESS"
    BY <2>1, <2>2, ReturnFacts
  <2>5. CallType'
    BY <1>1, <2>1, <2>4 DEF IInv, TypeInv, CallType
  <2>6. HostInv'
    BY <1>1, <2>4 DEF IInv, HostInv, Running, IsDataTransfer
  <2>7. BitInv'
    BY <1>1, <1>8, <2>1, <2>4 DEF IInv, BitInv, Running, CMDSTS
  <2>8. Clean' => Clean /\ PollInv
    BY <1>1, <1>8 DEF Clean, IInv, FlowInv
  <2>9. Clean' => /\ int' = {} /\ Empty' /\ hw'.stage = "idle"
                  /\ s # "SUCCESS" => erred'
                  /\ s = "SUCCESS" => ~IsDataTransfer(cmd')
    <3> SUFFICES ASSUME PollInv
                 PROVE  /\ int' = {} /\ Empty' /\ hw'.stage = "idle"
                        /\ s # "SUCCESS" => erred'
                        /\ s = "SUCCESS" => ~IsDataTransfer(cmd')
      BY <2>8
    <3>1. CASE "CMDRDY" \in int
      <4>1. int = {"CMDRDY"} /\ hw.stage = "idle" /\ Empty
        BY <1>10, <3>1 DEF PollInv, Stage
      <4> QED BY <1>1, <1>4, <1>10, <2>1, <2>3, <3>1, <4>1
    <3>2. CASE "CMDRDY" \notin int
      <4>1. int \subseteq {"CMDTMO", "CMDCRCERR"} /\ hw.stage = "idle" /\ Empty /\ erred
        BY <1>1, <3>2 DEF PollInv
      <4> QED BY <1>1, <1>4, <2>1, <2>3, <3>2, <4>1 DEF CMDSTS
    <3> QED BY <3>1, <3>2
  <2>10. FlowInv'
    BY <2>4, <2>9 DEF FlowInv
  <2>11. ToldInv'
    BY <2>4, <2>9 DEF ToldInv
  <2> QED BY <1>2, <1>7, <2>4, <2>5, <2>6, <2>7, <2>10, <2>11 DEF IInv, TypeInv
<1> QED BY <1>9, <1>10

\* The interrupt status is read before the FIFO.
LEMMA PioReadStatusStep == IInv /\ PioReadStatus => IInv'
<1> SUFFICES ASSUME IInv, PioReadStatus PROVE IInv'
  OBVIOUS
<1> USE DEF histVars
<1>1. /\ pc = "read"
      /\ UNCHANGED <<cmd, RemainSize, burst, calls, rx, tx, resp, hw, card, histVars>>
  BY DEF PioReadStatus
<1>2. DataType' /\ HistType'
  BY <1>1 DEF IInv, TypeInv, DataType, HistType
<1>3. Done' = Done
  BY <1>1 DEF Done
<1>4. (ReadFlow' <=> ReadFlow) /\ (WriteFlow' <=> WriteFlow) /\ (Empty' <=> Empty)
  BY <1>1, <1>3, FlowFrame
<1>5. Running
  BY <1>1 DEF IInv, HostInv
<1>6. Clean => /\ Stage /\ ReadFlow /\ "CMDRDY" \notin int
               /\ RemainSize = cmd.len - Len(moved) /\ int \intersect ReadErrors = {}
  BY <1>1 DEF IInv, FlowInv, Stage, ReadErrors
<1>7. CASE int \intersect ReadErrors # {}
  <2> DEFINE s == StatusOf(int)
  <2>1. Return(s) /\ int' = int \ (int \intersect DATSTS) /\ UNCHANGED seen
    BY <1>7 DEF PioReadStatus, MsdcIntTrackError
  <2>2. HostType /\ s # "SUCCESS"
    BY StatusFacts DEF IInv, TypeInv
  <2> HIDE DEF s
  <2>3. /\ HostType' /\ pc' = "idle" /\ result' = s
        /\ phase' \in {"detect", "freed", "installed"}
        /\ phase' = "installed" <=> phase = "installed"
    BY <2>1, <2>2, ReturnFacts
  <2>4. CallType'
    BY <1>1, <2>1, <2>3 DEF IInv, TypeInv, CallType
  <2>5. HwType'
    BY <1>1, <2>1 DEF IInv, TypeInv, HwType
  <2>6. HostInv'
    BY <1>1, <2>3 DEF IInv, HostInv, Running, IsDataTransfer
  <2>7. BitInv'
    BY <1>1, <1>5, <2>1, <2>3 DEF IInv, BitInv, Running, CMDSTS
  <2>8. ~Clean'
    BY <1>1, <1>5, <1>6, <1>7 DEF Clean
  <2>9. FlowInv' /\ ToldInv'
    BY <2>8 DEF FlowInv, ToldInv
  <2> QED BY <1>2, <2>3, <2>4, <2>5, <2>6, <2>7, <2>9 DEF IInv, TypeInv
<1>8. CASE int \intersect ReadErrors = {}
  <2> USE DEF hostVars
  <2>1. seen' = int /\ pc' = "drain" /\ UNCHANGED <<hostVars, result, int>>
    BY <1>8 DEF PioReadStatus
  <2>2. HostType' /\ CallType' /\ HwType'
    BY <1>1, <2>1 DEF IInv, TypeInv, HostType, CallType, HwType
  <2>3. HostInv'
    BY <1>1, <2>1 DEF IInv, HostInv, Running, IsDataTransfer
  <2>4. BitInv' /\ ToldInv'
    BY <1>1, <2>1 DEF IInv, BitInv, ToldInv, Running
  <2>5. FlowInv'
    <3> SUFFICES ASSUME Clean' PROVE FlowInv'
      BY DEF FlowInv
    <3>1. Clean
      BY <1>1, <2>1 DEF Clean, Running
    <3>2. Stage' /\ ReadFlow' /\ "CMDRDY" \notin int' /\ RemainSize' = cmd'.len - Len(moved')
      BY <1>1, <1>4, <1>6, <2>1, <3>1 DEF Stage, IsDataTransfer
    <3> QED BY <2>1, <3>2 DEF FlowInv
  <2> QED BY <1>2, <2>2, <2>3, <2>4, <2>5 DEF IInv, TypeInv
<1> QED BY <1>7, <1>8

\* A chunk of the FIFO goes to the buffer.
LEMMA ReadChunk ==
    ASSUME IInv, pc = "drain", RxEnough, NEW n, n = ChunkSize
    PROVE  /\ n \in 0 .. RemainSize /\ n \in 0 .. Len(rx) /\ (n = RemainSize \/ n = FifoSize)
           /\ MsdcFifoRead(n) \in Seq(Units) /\ Len(MsdcFifoRead(n)) = n
           /\ \A k \in 1 .. n : MsdcFifoRead(n)[k] = rx[k]
<1>1. rx \in Seq(Units) /\ Len(rx) \in Nat /\ RemainSize \in Nat /\ FifoSize \in Nat
  BY MsdcAssumption, BlocksBounded, NoUnits DEF IInv, TypeInv, DataType, CallType
<1>2. n \in 0 .. RemainSize /\ n \in 0 .. Len(rx) /\ (n = RemainSize \/ n = FifoSize)
  BY <1>1 DEF RxEnough, ChunkSize
<1>3. MsdcFifoRead(n) = [k \in 1 .. n |-> rx[k]]
  <2>1. \A k \in 1 .. n : k <= Len(rx)
    BY <1>1, <1>2
  <2>2. \A k \in 1 .. n : (IF k <= Len(rx) THEN rx[k] ELSE Unit(-2, k, TRUE)) = rx[k]
    BY <2>1, Zenon
  <2> QED BY <2>2, Zenon DEF MsdcFifoRead
<1>4. \A k \in 1 .. n : rx[k] \in Units
  BY <1>1, <1>2
<1>5. \A f \in [1 .. n -> Units] : f \in Seq(Units) /\ Len(f) = n
  BY <1>1, <1>2
<1>6. MsdcFifoRead(n) \in [1 .. n -> Units]
  BY <1>3, <1>4
<1> QED BY <1>2, <1>3, <1>5, <1>6

\* MsdcPioRead moves the chunk at hand, and ends when the transfer was complete
\* before it looked at the FIFO.
LEMMA PioReadFifoStep == IInv /\ PioReadFifo => IInv'
<1> SUFFICES ASSUME IInv, PioReadFifo PROVE IInv'
  OBVIOUS
<1> DEFINE n == ChunkSize
<1>1. /\ pc = "drain" /\ seen' = {}
      /\ UNCHANGED <<cmd, burst, calls, tx, resp, hw, card, erred, stray, dirty, lost>>
  BY DEF PioReadFifo
<1>2. Running
  BY <1>1 DEF IInv, HostInv
<1>3. /\ Len(rx) \in Nat /\ Len(moved) \in Nat /\ RemainSize \in 0 .. Longest /\ FifoSize \in Nat
      /\ Len(rx) <= FifoSize /\ rx \in Seq(Units) /\ moved \in Seq(Units) /\ cmd.len \in Nat
      /\ Longest \in Nat
  BY MsdcAssumption, BlocksBounded, NoUnits, SentFacts DEF IInv, TypeInv, DataType, CallType
<1>4. RxEnough => /\ n \in 0 .. RemainSize /\ n \in 0 .. Len(rx) /\ (n = RemainSize \/ n = FifoSize)
                  /\ MsdcFifoRead(n) \in Seq(Units) /\ Len(MsdcFifoRead(n)) = n
                  /\ \A k \in 1 .. n : MsdcFifoRead(n)[k] = rx[k]
  BY <1>1, ReadChunk
<1>5. /\ RxEnough => /\ moved' = moved \o MsdcFifoRead(n) /\ rx' = SubSeq(rx, n + 1, Len(rx))
                     /\ RemainSize' = RemainSize - n
      /\ ~RxEnough => UNCHANGED <<moved, rx, RemainSize>>
  BY DEF PioReadFifo
<1> HIDE DEF n
<1>6. /\ rx' \in Seq(Units) /\ moved' \in Seq(Units) /\ Len(rx') <= Len(rx) /\ Len(rx') \in Nat
      /\ Len(moved') \in Nat /\ Len(moved') + Len(rx') = Len(moved) + Len(rx)
      /\ RemainSize' \in 0 .. Longest /\ RemainSize' + Len(moved') = RemainSize + Len(moved)
  <2>1. CASE RxEnough
    <3>1. rx' \in Seq(Units) /\ Len(rx') = Len(rx) - n
      BY <1>3, <1>4, <1>5, <2>1, TakeFirst
    <3>2. moved' \in Seq(Units) /\ Len(moved') = Len(moved) + n
      BY <1>3, <1>4, <1>5, <2>1, Joined
    <3>3. n \in 0 .. RemainSize /\ n \in 0 .. Len(rx) /\ RemainSize' = RemainSize - n
      BY <1>4, <1>5, <2>1
    <3> QED BY <1>3, <3>1, <3>2, <3>3
  <2>2. CASE ~RxEnough
    BY <1>3, <1>5, <2>2
  <2> QED BY <2>1, <2>2
<1>7. DataType' /\ HistType'
  BY <1>1, <1>3, <1>6 DEF IInv, TypeInv, DataType, HistType
<1>8. ReadFlow => ReadFlow'
  <2> SUFFICES ASSUME ReadFlow PROVE ReadFlow'
    OBVIOUS
  <2>1. CASE ~RxEnough
    <3>1. Done' = Done
      BY <1>1 DEF Done
    <3> QED BY <1>1, <1>5, <2>1, <3>1, FlowFrame
  <2>2. CASE RxEnough
    <3>1. /\ Done' = Done /\ tx' = <<>> /\ Len(moved) + Len(rx) = Done
          /\ \A k \in 1 .. Len(moved) : moved[k] = Mine(k)
          /\ \A k \in 1 .. Len(rx) : rx[k] = Mine(Len(moved) + k)
      BY <1>1 DEF Done, ReadFlow
    <3>2. \A k : Mine(k)' = Mine(k)
      BY <1>1 DEF Mine
    <3>3. /\ Len(moved') = Len(moved) + n /\ Len(rx') = Len(rx) - n
          /\ \A k \in 1 .. Len(moved) : moved'[k] = moved[k]
          /\ \A k \in 1 .. n : moved'[Len(moved) + k] = rx[k]
          /\ \A k \in 1 .. Len(rx) - n : rx'[k] = rx[n + k]
      <4>1. /\ Len(rx') = Len(rx) - n
            /\ \A k \in 1 .. Len(rx) - n : rx'[k] = rx[n + k]
        BY <1>3, <1>4, <1>5, <2>2, TakeFirst
      <4>2. /\ Len(moved') = Len(moved) + n
            /\ \A k \in 1 .. Len(moved) : moved'[k] = moved[k]
            /\ \A k \in 1 .. n : moved'[Len(moved) + k] = rx[k]
        BY <1>3, <1>4, <1>5, <2>2, Joined
      <4> QED BY <4>1, <4>2
    <3>4. \A k \in 1 .. Len(moved') : moved'[k] = Mine(k)
      <4> SUFFICES ASSUME NEW k \in 1 .. Len(moved') PROVE moved'[k] = Mine(k)
        OBVIOUS
      <4>1. CASE k \in 1 .. Len(moved)
        BY <3>1, <3>3, <4>1
      <4>2. CASE k \notin 1 .. Len(moved)
        <5>1. k - Len(moved) \in 1 .. n /\ k - Len(moved) \in 1 .. Len(rx) /\ Len(moved) + (k - Len(moved)) = k
          BY <1>3, <1>4, <2>2, <3>3, <4>2
        <5> QED BY <3>1, <3>3, <5>1
      <4> QED BY <4>1, <4>2
    <3>5. \A k \in 1 .. Len(rx') : rx'[k] = Mine(Len(moved') + k)
      <4> SUFFICES ASSUME NEW k \in 1 .. Len(rx') PROVE rx'[k] = Mine(Len(moved') + k)
        OBVIOUS
      <4>1. k \in 1 .. Len(rx) - n /\ n + k \in 1 .. Len(rx) /\ Len(moved) + (n + k) = Len(moved') + k
        BY <1>3, <1>4, <2>2, <3>3
      <4> QED BY <3>1, <3>3, <4>1
    <3> QED BY <1>6, <3>1, <3>2, <3>4, <3>5 DEF ReadFlow
  <2> QED BY <2>1, <2>2
<1>9. Clean => /\ Stage /\ ReadFlow /\ "CMDRDY" \notin int
               /\ RemainSize = cmd.len - Len(moved)
               /\ "XFER_COMPL" \in seen => "XFER_COMPL" \in int
  BY <1>1 DEF IInv, FlowInv
<1>10. CASE "XFER_COMPL" \notin seen
  <2> USE DEF hostVars
  <2>1. pc' = "read" /\ UNCHANGED <<hostVars, result, int>>
    BY <1>10 DEF PioReadFifo
  <2>2. HostType' /\ CallType' /\ HwType'
    BY <1>1, <1>6, <2>1 DEF IInv, TypeInv, HostType, CallType, HwType
  <2>3. HostInv'
    BY <1>1, <2>1 DEF IInv, HostInv, Running, IsDataTransfer
  <2>4. BitInv' /\ ToldInv'
    BY <1>1, <2>1 DEF IInv, BitInv, ToldInv, Running
  <2>5. FlowInv'
    <3> SUFFICES ASSUME Clean' PROVE FlowInv'
      BY DEF FlowInv
    <3>1. Clean
      BY <1>1, <2>1 DEF Clean, Running
    <3>2. Stage'
      BY <1>1, <1>9, <2>1, <3>1 DEF Stage, IsDataTransfer
    <3>3. ReadFlow' /\ "CMDRDY" \notin int'
      BY <1>8, <1>9, <2>1, <3>1
    <3>4. RemainSize' = cmd'.len - Len(moved')
      <4>1. \A a, b, c, d, e \in Int : a + b = c + d /\ c = e - d => a = e - b
        OBVIOUS
      <4>2. RemainSize' \in Int /\ Len(moved') \in Int /\ RemainSize \in Int /\ Len(moved) \in Int
        BY <1>3, <1>6
      <4>3. cmd'.len = cmd.len /\ cmd.len \in Int
        BY <1>1, <1>3
      <4> QED BY <1>6, <1>9, <3>1, <4>1, <4>2, <4>3
    <3> QED BY <2>1, <3>2, <3>3, <3>4 DEF FlowInv
  <2> QED BY <1>7, <2>2, <2>3, <2>4, <2>5 DEF IInv, TypeInv
<1>11. CASE "XFER_COMPL" \in seen
  <2> DEFINE s == IF RemainSize' = 0 THEN "SUCCESS" ELSE "ABORTED"
  <2>1. int' = int \ {"XFER_COMPL"} /\ Return(s)
    BY <1>11 DEF PioReadFifo, XferCleared
  <2>2. HostType
    BY DEF IInv, TypeInv
  <2>3. s = "SUCCESS" <=> RemainSize' = 0
    OBVIOUS
  <2> HIDE DEF s
  <2>4. /\ HostType' /\ pc' = "idle" /\ result' = s
        /\ phase' \in {"detect", "install", "freed", "installed"}
        /\ phase' = "installed" <=> phase = "installed"
        /\ phase' = "install" => s = "SUCCESS"
    BY <2>1, <2>2, ReturnFacts
  <2>5. CallType'
    BY <1>1, <1>6, <2>4 DEF IInv, TypeInv, CallType
  <2>6. HwType'
    BY <1>1, <2>1 DEF IInv, TypeInv, HwType
  <2>7. HostInv'
    BY <1>1, <2>4 DEF IInv, HostInv, Running, IsDataTransfer
  <2>8. BitInv'
    BY <1>1, <1>2, <2>1, <2>4 DEF IInv, BitInv, Running, CMDSTS
  <2>9. Clean' => /\ int' = {} /\ Empty' /\ hw'.stage \in {"idle", "stop"}
                  /\ RemainSize' = 0 /\ moved' = Carried(cmd)'
    <3> SUFFICES ASSUME Clean
                 PROVE  /\ int' = {} /\ Empty' /\ hw'.stage \in {"idle", "stop"}
                        /\ RemainSize' = 0 /\ moved' = Carried(cmd)'
      BY <1>1, <1>2, <1>11 DEF Clean
    <3>1. hw.stage \notin {"cmd", "data"} /\ hw.stage \in {"idle", "cmd", "data", "stop"} /\ Done = cmd.len
      BY <1>9, <1>11 DEF Stage, Done, IInv, TypeInv, HwType
    <3>2. Len(moved) + Len(rx) = cmd.len /\ ReadFlow' /\ tx' = <<>>
      BY <1>8, <1>9, <3>1 DEF ReadFlow
    <3>3. RemainSize = Len(rx) /\ RxEnough /\ n = RemainSize
      BY <1>3, <1>9, <3>2 DEF RxEnough, ChunkSize, n
    <3>4. RemainSize' = 0 /\ Len(rx') = 0 /\ Len(moved') = cmd.len
      BY <1>3, <1>5, <1>6, <3>2, <3>3
    <3>5. rx' = <<>>
      BY <1>6, <3>4, NoUnits
    <3>6. \A k \in 1 .. cmd.len : moved'[k] = Mine(k)'
      BY <3>2, <3>4 DEF ReadFlow
    <3>7. moved' = [k \in 1 .. Len(moved') |-> moved'[k]]
      BY <1>6
    <3>8. moved' = Carried(cmd)'
      BY <1>1, <3>4, <3>6, <3>7 DEF Carried, Mine
    <3>9. int' = {}
      BY <1>9, <2>1 DEF Stage
    <3> QED BY <1>1, <3>1, <3>2, <3>4, <3>5, <3>8, <3>9 DEF Empty
  <2>10. FlowInv'
    BY <2>4, <2>9 DEF FlowInv
  <2>11. ToldInv'
    BY <2>3, <2>4, <2>9 DEF ToldInv
  <2> QED BY <1>7, <2>4, <2>5, <2>6, <2>7, <2>8, <2>10, <2>11 DEF IInv, TypeInv
<1> QED BY <1>10, <1>11

\* MsdcPioWrite ends with the transfer, or pushes the next chunk.
LEMMA PioWriteStep == IInv /\ PioWrite => IInv'
<1> SUFFICES ASSUME IInv, PioWrite PROVE IInv'
  OBVIOUS
<1> USE DEF histVars
<1>1. /\ pc = "write"
      /\ UNCHANGED <<cmd, seen, RemainSize, calls, rx, tx, resp, hw, card, histVars>>
  BY DEF PioWrite
<1>2. DataType' /\ HistType'
  BY <1>1 DEF IInv, TypeInv, DataType, HistType
<1>3. Done' = Done
  BY <1>1 DEF Done
<1>4. (ReadFlow' <=> ReadFlow) /\ (WriteFlow' <=> WriteFlow) /\ (Empty' <=> Empty)
  BY <1>1, <1>3, FlowFrame
<1>5. Running
  BY <1>1 DEF IInv, HostInv
<1>6. Clean => /\ Stage /\ WriteFlow /\ "CMDRDY" \notin int
               /\ Len(moved) + Len(tx) = cmd.len - RemainSize /\ int \intersect WriteErrors = {}
  BY <1>1 DEF IInv, FlowInv, Stage, WriteErrors
<1>7. CASE int \intersect WriteErrors # {} \/ "XFER_COMPL" \in int
  <2> DEFINE s == IF int \intersect WriteErrors # {} THEN StatusOf(int)
                  ELSE IF RemainSize = 0 THEN "SUCCESS" ELSE "ABORTED"
  <2>1. /\ Return(s) /\ UNCHANGED burst /\ int' \subseteq int /\ int \ int' \subseteq DATSTS
        /\ int \intersect WriteErrors = {} => int' = int \ {"XFER_COMPL"}
    BY <1>7 DEF PioWrite, MsdcIntTrackError, XferCleared, DATSTS
  <2>2. HostType
    BY DEF IInv, TypeInv
  <2>3. int \intersect WriteErrors = {} => (s = "SUCCESS" <=> RemainSize = 0)
    OBVIOUS
  <2> HIDE DEF s
  <2>4. /\ HostType' /\ pc' = "idle" /\ result' = s
        /\ phase' \in {"detect", "install", "freed", "installed"}
        /\ phase' = "installed" <=> phase = "installed"
        /\ phase' = "install" => s = "SUCCESS"
    BY <2>1, <2>2, ReturnFacts
  <2>5. CallType'
    BY <1>1, <2>1, <2>4 DEF IInv, TypeInv, CallType
  <2>6. HwType'
    BY <1>1, <2>1 DEF IInv, TypeInv, HwType
  <2>7. HostInv'
    BY <1>1, <2>4 DEF IInv, HostInv, Running, IsDataTransfer
  <2>8. BitInv'
    BY <1>1, <1>5, <2>1, <2>4 DEF IInv, BitInv, Running, CMDSTS, DATSTS
  <2>9. Clean' => /\ int' = {} /\ Empty' /\ hw'.stage \in {"idle", "stop"}
                  /\ s = "SUCCESS" /\ moved' = Carried(cmd)'
    <3> SUFFICES ASSUME Clean
                 PROVE  /\ int' = {} /\ Empty' /\ hw'.stage \in {"idle", "stop"}
                        /\ s = "SUCCESS" /\ moved' = Carried(cmd)'
      BY <1>1, <1>5 DEF Clean
    <3>1. hw.stage \notin {"cmd", "data"} /\ hw.stage \in {"idle", "cmd", "data", "stop"} /\ Done = cmd.len
      BY <1>6, <1>7 DEF Stage, Done, IInv, TypeInv, HwType
    <3>2. Len(moved) = cmd.len /\ WriteFlow' /\ rx' = <<>>
      BY <1>1, <1>4, <1>6, <3>1 DEF WriteFlow
    <3>3. /\ moved \in Seq(Units) /\ tx \in Seq(Units) /\ Len(moved) \in Nat /\ Len(tx) \in Nat
          /\ RemainSize \in Nat /\ cmd.len \in Nat
      BY BlocksBounded, MsdcAssumption, NoUnits, SentFacts DEF IInv, TypeInv, DataType, CallType
    <3>4. RemainSize = 0 /\ Len(tx) = 0
      BY <1>6, <3>2, <3>3
    <3>5. tx = <<>>
      BY <3>3, <3>4, NoUnits
    <3>6. \A k \in 1 .. cmd.len : moved[k] = Mine(k)
      BY <1>6, <3>2 DEF WriteFlow
    <3>7. moved = [k \in 1 .. Len(moved) |-> moved[k]]
      BY <3>3
    <3>8. moved = Carried(cmd)
      BY <3>2, <3>6, <3>7 DEF Carried, Mine
    <3>9. Carried(cmd)' = Carried(cmd)
      BY <1>1 DEF Carried
    <3>10. int' = {} /\ s = "SUCCESS"
      BY <1>6, <2>1, <2>3, <3>4 DEF Stage
    <3> QED BY <1>1, <3>1, <3>2, <3>5, <3>8, <3>9, <3>10 DEF Empty
  <2>10. FlowInv'
    BY <2>4, <2>9 DEF FlowInv
  <2>11. ToldInv'
    BY <2>4, <2>9 DEF ToldInv
  <2> QED BY <1>2, <2>4, <2>5, <2>6, <2>7, <2>8, <2>10, <2>11 DEF IInv, TypeInv
<1>8. CASE ~(int \intersect WriteErrors # {} \/ "XFER_COMPL" \in int)
  <2> USE DEF hostVars
  <2>1. /\ ChunkSize > 0 /\ pc' = "push" /\ burst' = ChunkSize
        /\ UNCHANGED <<hostVars, result, int>>
    BY <1>8 DEF PioWrite
  <2>2. burst' \in 1 .. FifoSize /\ burst' <= RemainSize
    <3>1. RemainSize \in Nat /\ FifoSize \in Nat
      BY BlocksBounded, MsdcAssumption DEF IInv, TypeInv, CallType
    <3> QED BY <2>1, <3>1 DEF ChunkSize
  <2>3. HostType' /\ HwType'
    BY <1>1, <2>1 DEF IInv, TypeInv, HostType, HwType
  <2>4. CallType'
    BY <1>1, <2>1, <2>2, MsdcAssumption DEF IInv, TypeInv, CallType
  <2>5. HostInv'
    BY <1>1, <2>1, <2>2 DEF IInv, HostInv, Running, IsDataTransfer
  <2>6. BitInv' /\ ToldInv'
    BY <1>1, <2>1 DEF IInv, BitInv, ToldInv, Running
  <2>7. FlowInv'
    <3> SUFFICES ASSUME Clean' PROVE FlowInv'
      BY DEF FlowInv
    <3>1. Clean
      BY <1>1, <2>1 DEF Clean, Running
    <3>2. Stage' /\ WriteFlow' /\ "CMDRDY" \notin int' /\ Len(moved') + Len(tx') = cmd'.len - RemainSize'
      BY <1>1, <1>4, <1>6, <2>1, <3>1 DEF Stage, IsDataTransfer
    <3> QED BY <2>1, <3>2 DEF FlowInv
  <2> QED BY <1>2, <2>3, <2>4, <2>5, <2>6, <2>7 DEF IInv, TypeInv
<1> QED BY <1>7, <1>8

\* MsdcFifoWrite writes a unit of the burst, or loses it.
LEMMA FifoWriteUnitStep == IInv /\ FifoWriteUnit => IInv'
<1> SUFFICES ASSUME IInv, FifoWriteUnit PROVE IInv'
  OBVIOUS
<1> USE DEF hostVars
<1> DEFINE u == Unit(calls, cmd.len - RemainSize + 1, FALSE)
<1>1. /\ pc = "push" /\ RemainSize' = RemainSize - 1 /\ burst' = burst - 1
      /\ pc' = IF burst = 1 THEN "write" ELSE "push"
      /\ UNCHANGED <<hostVars, cmd, seen, result, calls, int, rx, resp, hw, card,
                     moved, erred, stray, dirty>>
      /\ lost' = lost \/ lost' = TRUE
  BY DEF FifoWriteUnit
<1>2. /\ FifoSize \in Nat /\ RemainSize \in 1 .. Longest /\ Longest \in Nat /\ burst \in 1 .. FifoSize
      /\ burst <= RemainSize /\ tx \in Seq(Units) /\ Len(tx) \in Nat /\ cmd.len \in Nat
      /\ moved \in Seq(Units) /\ Len(moved) \in Nat /\ calls \in Nat
  BY <1>1, BlocksBounded, MsdcAssumption, NoUnits, SentFacts DEF IInv, TypeInv, DataType, CallType, HostInv
<1>3. u \in Units
  BY <1>2 DEF Unit, Units
<1>4. \/ Len(tx) < FifoSize /\ tx' = Append(tx, u) /\ lost' = lost
      \/ lost' = TRUE /\ tx' = tx
  BY DEF FifoWriteUnit
<1>5. pc' \in {"write", "push"} /\ (pc' = "push" => burst # 1)
  BY <1>1
<1>6. RemainSize' \in 0 .. Longest /\ burst' \in 0 .. FifoSize /\ (pc' = "push" => 1 <= burst' /\ burst' <= RemainSize')
  BY <1>1, <1>2, <1>5
<1> HIDE DEF u
<1>7. HostType' /\ HwType'
  BY <1>1 DEF IInv, TypeInv, HostType, HwType
<1>8. CallType'
  BY <1>1, <1>5, <1>6 DEF IInv, TypeInv, CallType
<1>9. DataType' /\ HistType'
  <2>1. tx' \in Seq(Units) /\ Len(tx') <= FifoSize
    <3>1. CASE tx' = tx
      BY <3>1 DEF IInv, TypeInv, DataType
    <3>2. CASE Len(tx) < FifoSize /\ tx' = Append(tx, u)
      BY <1>2, <1>3, <3>2, Appended
    <3> QED BY <1>4, <3>1, <3>2
  <2> QED BY <1>1, <2>1 DEF IInv, TypeInv, DataType, HistType
<1>10. HostInv'
  BY <1>1, <1>5, <1>6 DEF IInv, HostInv, Running, IsDataTransfer
<1>11. BitInv' /\ ToldInv'
  BY <1>1, <1>5 DEF IInv, BitInv, ToldInv, Running
<1>12. FlowInv'
  <2> SUFFICES ASSUME Clean' PROVE FlowInv'
    BY DEF FlowInv
  <2>1. Clean /\ Len(tx) < FifoSize /\ tx' = Append(tx, u) /\ lost' = lost
    BY <1>1, <1>4 DEF Clean, Running
  <2>2. /\ Stage /\ WriteFlow /\ "CMDRDY" \notin int /\ Len(moved) + Len(tx) = cmd.len - RemainSize
        /\ cmd.what \in Writes
    BY <1>1, <2>1 DEF IInv, FlowInv, HostInv
  <2>3. Stage' /\ "CMDRDY" \notin int'
    BY <1>1, <2>2 DEF Stage, IsDataTransfer
  <2>4. /\ Len(tx') = Len(tx) + 1 /\ \A k \in 1 .. Len(tx) : tx'[k] = tx[k]
        /\ tx'[Len(tx) + 1] = u
    BY <1>2, <1>3, <2>1, Appended
  <2>5. Len(moved') + Len(tx') = cmd'.len - RemainSize'
    <3>1. \A a, b, c, d \in Int : a + b = c - d => a + (b + 1) = c - (d - 1)
      OBVIOUS
    <3> QED BY <1>1, <1>2, <2>2, <2>4, <3>1
  <2>6. u = Mine(Len(moved) + (Len(tx) + 1))
    <3>1. cmd.len - RemainSize + 1 = Len(moved) + (Len(tx) + 1)
      BY <1>2, <2>2
    <3>2. (cmd.what \in Reads) = FALSE
      BY <2>2 DEF Reads, Writes
    <3> QED BY <3>1, <3>2, Zenon DEF u, Mine
  <2>7. \A k : Mine(k)' = Mine(k)
    BY <1>1 DEF Mine
  <2>8. WriteFlow'
    <3>1. Done' = Done
      BY <1>1 DEF Done
    <3>2. /\ rx = <<>> /\ Len(moved) = Done /\ \A k \in 1 .. Len(moved) : moved[k] = Mine(k)
          /\ \A k \in 1 .. Len(tx) : tx[k] = Mine(Len(moved) + k)
      BY <2>2 DEF WriteFlow
    <3>3. \A k \in 1 .. Len(tx') : tx'[k] = Mine(Len(moved) + k)
      <4> SUFFICES ASSUME NEW k \in 1 .. Len(tx') PROVE tx'[k] = Mine(Len(moved) + k)
        OBVIOUS
      <4>1. k \in 1 .. Len(tx) \/ k = Len(tx) + 1
        BY <1>2, <2>4
      <4> QED BY <2>4, <2>6, <3>2, <4>1
    <3> QED BY <1>1, <2>7, <3>1, <3>2, <3>3 DEF WriteFlow
  <2> QED BY <1>5, <2>3, <2>5, <2>8 DEF FlowInv
<1> QED BY <1>7, <1>8, <1>9, <1>10, <1>11, <1>12 DEF IInv, TypeInv

-----------------------------------------------------------------------------
(* The controller's steps.                                                  *)

\* A step of the controller ends no call.
LEMMA HwFrame ==
    ASSUME IInv, UNCHANGED <<hostVars, callVars, stray, lost>>
    PROVE  HostType' /\ CallType' /\ (HostInv /\ (~Running => hw'.stage = "idle") => HostInv')
BY DEF hostVars, callVars, IInv, TypeInv, HostType, CallType, HostInv, Running, IsDataTransfer

\* While a command is with the controller the driver polls for it, unless the
\* leavings of auto CMD12 misled it.
LEMMA AtCommand ==
    ASSUME IInv, hw.stage = "cmd"
    PROVE  /\ Running
           /\ ~stray => pc = "poll" /\ int \intersect CMDSTS = {}
           /\ Clean => /\ pc = "poll" /\ hw.cmd = cmd /\ hw.call = calls /\ hw.done = 0
                       /\ int = {} /\ Empty /\ moved = <<>>
<1>1. Running
  BY DEF IInv, HostInv
<1>2. ~stray => pc = "poll" /\ int \intersect CMDSTS = {}
  BY <1>1 DEF IInv, BitInv
<1>3. Clean => PollInv
  BY <1>2 DEF IInv, FlowInv, Clean
<1> QED BY <1>1, <1>2, <1>3 DEF PollInv, Stage, Clean

\* While data moves the driver is at the packet the data is of.
LEMMA AtData ==
    ASSUME IInv, hw.stage = "data", Clean
    PROVE  /\ pc \in {"poll", "read", "drain", "write", "push"}
           /\ Stage /\ hw.cmd = cmd /\ hw.call = calls /\ hw.done <= cmd.len /\ Done = hw.done
           /\ cmd.what \in Reads => ReadFlow
           /\ cmd.what \in Writes => WriteFlow
           /\ pc = "poll" => "CMDRDY" \in int /\ moved = <<>>
           /\ pc = "poll" /\ cmd.what \in Writes => tx = <<>>
<1>1. pc \in {"poll", "read", "drain", "write", "push"}
  BY DEF IInv, FlowInv, TypeInv, CallType
<1>2. CASE pc = "poll"
  <2>1. PollInv
    BY <1>2 DEF IInv, FlowInv
  <2> QED BY <1>2, <2>1 DEF PollInv, Stage, Done, IsDataTransfer
<1>3. CASE pc \in {"read", "drain"}
  BY <1>3 DEF IInv, FlowInv, HostInv, Stage, Done, Reads, Writes
<1>4. CASE pc \in {"write", "push"}
  BY <1>4 DEF IInv, FlowInv, HostInv, Stage, Done, Reads, Writes
<1> QED BY <1>1, <1>2, <1>3, <1>4

\* A command leaves a card in one of its states.
LEMMA CardFacts == ASSUME card \in Cards, NEW what, NEW switched \in BOOLEAN PROVE CardAfter(what, switched) \in Cards
<1> DEFINE st == CASE what = "CardReset" -> "idle"
                   [] what \in OpCond /\ card.busy = 0 -> "ready"
                   [] what = "CardAllSendCid" -> "ident"
                   [] what \in {"EMMCSetRca", "SdCardSetRca"} -> "stby"
                   [] what = "CardSelect" -> "tran"
                   [] OTHER -> card.st
           busy == IF what \in OpCond /\ card.busy > 0 THEN card.busy - 1 ELSE card.busy
           error == IF what = "EMMCSwitch" THEN ~switched
                    ELSE card.error /\ what \notin {"CardSendStatus", "CardReset"}
<1>1. st \in {"idle", "ready", "ident", "stby", "tran"}
  BY DEF Cards
<1>2. busy \in 0 .. MaxBusy
  BY MsdcAssumption DEF Cards
<1>3. error \in BOOLEAN
  BY DEF Cards
<1>4. CardAfter(what, switched) = [card EXCEPT !.st = st, !.busy = busy, !.error = error]
  BY DEF CardAfter
<1> HIDE DEF st, busy, error
<1> QED BY <1>1, <1>2, <1>3, <1>4 DEF Cards

\* The card answers: CMDRDY is the only bit, and the data stage begins.
LEMMA HwAnswerStep == ASSUME NEW switched \in BOOLEAN PROVE IInv /\ HwAnswer(switched) => IInv'
<1> SUFFICES ASSUME IInv, HwAnswer(switched) PROVE IInv'
  OBVIOUS
<1> USE DEF histVars
<1>1. /\ hw.stage = "cmd" /\ int' = int \union {"CMDRDY"}
      /\ hw' = IF IsDataTransfer(hw.cmd) THEN [hw EXCEPT !.stage = "data"] ELSE Idle
      /\ UNCHANGED <<hostVars, callVars, rx, tx, histVars>>
  BY DEF HwAnswer
<1>2. HostType' /\ CallType' /\ DataType' /\ HistType'
  <2>1. DataType' /\ HistType'
    BY <1>1 DEF IInv, TypeInv, DataType, HistType
  <2> QED BY <1>1, <2>1, HwFrame
<1>3. hw' \in [stage : {"idle", "cmd", "data", "stop"}, cmd : Sent, done : 0 .. Longest, call : Nat]
  <2>1. Idle \in [stage : {"idle", "cmd", "data", "stop"}, cmd : Sent, done : 0 .. Longest, call : Nat]
    BY StepsSent, BlocksBounded, MsdcAssumption DEF Idle, NoPacket
  <2> QED BY <1>1, <2>1 DEF IInv, TypeInv, HwType
<1>4. /\ IsDataTransfer(hw.cmd) => /\ hw'.stage = "data" /\ hw'.cmd = hw.cmd
                                   /\ hw'.call = hw.call /\ hw'.done = hw.done
      /\ ~IsDataTransfer(hw.cmd) => hw'.stage = "idle"
  BY <1>1 DEF IInv, TypeInv, HwType, Idle
<1>5. HwType'
  <2>1. resp' \in BOOLEAN
    <3>1. card.error \in BOOLEAN /\ (card.busy = 0) \in BOOLEAN
      BY DEF IInv, TypeInv, HwType, Cards
    <3> QED BY <3>1 DEF HwAnswer
  <2>2. int' \subseteq CMDSTS \union DATSTS
    BY <1>1 DEF IInv, TypeInv, HwType, CMDSTS
  <2>3. card' \in Cards
    BY CardFacts DEF HwAnswer, IInv, TypeInv, HwType
  <2> QED BY <1>3, <2>1, <2>2, <2>3 DEF HwType
<1>6. Running /\ HostInv'
  BY <1>1, HwFrame, AtCommand DEF IInv
<1>7. BitInv'
  <2> USE DEF callVars, hostVars
  <2>1. stray' = stray /\ pc' = pc /\ hw'.stage # "cmd"
    BY <1>1, <1>4
  <2> QED BY <1>1, <2>1, AtCommand DEF BitInv, CMDSTS
<1>8. Clean' => Clean
  BY <1>1, <1>6 DEF Clean
<1>9. FlowInv'
  <2> USE DEF callVars, hostVars
  <2> SUFFICES ASSUME Clean' PROVE FlowInv'
    BY DEF FlowInv
  <2>1. /\ pc = "poll" /\ hw.cmd = cmd /\ hw.call = calls /\ hw.done = 0
        /\ int = {} /\ Empty /\ moved = <<>>
    BY <1>1, <1>8, AtCommand
  <2>2. /\ int' = {"CMDRDY"} /\ rx' = <<>> /\ tx' = <<>> /\ moved' = <<>> /\ pc' = "poll"
        /\ cmd' = cmd /\ calls' = calls
    BY <1>1, <2>1 DEF Empty
  <2>3. PollInv'
    <3>1. CASE ~IsDataTransfer(cmd)
      BY <1>4, <2>1, <2>2, <3>1 DEF PollInv, Empty, IsDataTransfer
    <3>2. CASE IsDataTransfer(cmd)
      <4>1. hw'.stage = "data" /\ hw'.cmd = cmd /\ hw'.call = calls /\ hw'.done = 0 /\ Done' = 0
        BY <1>4, <2>1, <3>2 DEF Done
      <4>2. Stage'
        <5>1. cmd.len \in Nat
          BY SentFacts, BlocksBounded, MsdcAssumption DEF IInv, TypeInv, CallType
        <5> QED BY <2>2, <3>2, <4>1, <5>1 DEF Stage, IsDataTransfer
      <4>3. ReadFlow' /\ WriteFlow'
        <5>1. Len(<<>>) = 0 /\ \A k \in 1 .. 0 : FALSE
          OBVIOUS
        <5> QED BY <2>2, <4>1, <5>1 DEF ReadFlow, WriteFlow
      <4> QED BY <2>2, <4>2, <4>3 DEF PollInv
    <3> QED BY <3>1, <3>2
  <2> QED BY <2>2, <2>3 DEF FlowInv
<1>10. ToldInv'
  <2> USE DEF callVars, hostVars
  <2> SUFFICES ASSUME Clean' PROVE pc' # "idle"
    BY DEF ToldInv
  <2> QED BY <1>1, <1>8, AtCommand
<1> QED BY <1>2, <1>5, <1>6, <1>7, <1>9, <1>10 DEF IInv, TypeInv

\* No answer, or a broken one: an error bit, and the packet met an error.
LEMMA HwNoAnswerStep ==
    ASSUME NEW bit \in {"CMDTMO", "CMDCRCERR"} PROVE IInv /\ HwNoAnswer(bit) => IInv'
<1> SUFFICES ASSUME IInv, HwNoAnswer(bit) PROVE IInv'
  OBVIOUS
<1>1. /\ hw.stage = "cmd" /\ int' = int \union {bit} /\ erred' = TRUE
      /\ \/ hw' = Idle /\ UNCHANGED dirty
         \/ hw' = [hw EXCEPT !.stage = "data"] /\ dirty' = TRUE
      /\ UNCHANGED <<hostVars, callVars, rx, tx, resp, moved, stray, lost>>
  BY DEF HwNoAnswer
<1>2. HostType' /\ CallType' /\ DataType' /\ HistType'
  <2>1. DataType' /\ HistType'
    BY <1>1 DEF IInv, TypeInv, DataType, HistType
  <2> QED BY <1>1, <2>1, HwFrame
<1>3. HwType'
  <2>1. Idle \in [stage : {"idle", "cmd", "data", "stop"}, cmd : Sent, done : 0 .. Longest, call : Nat]
    BY StepsSent, BlocksBounded, MsdcAssumption DEF Idle, NoPacket
  <2>2. int' \subseteq CMDSTS \union DATSTS
    BY <1>1 DEF IInv, TypeInv, HwType, CMDSTS
  <2>3. hw' \in [stage : {"idle", "cmd", "data", "stop"}, cmd : Sent, done : 0 .. Longest, call : Nat]
    BY <1>1, <2>1 DEF IInv, TypeInv, HwType
  <2>4. card' \in Cards
    BY CardFacts DEF HwNoAnswer, IInv, TypeInv, HwType
  <2> QED BY <1>1, <2>2, <2>3, <2>4 DEF IInv, TypeInv, HwType
<1>4. hw'.stage \in {"idle", "data"} /\ (~dirty' => hw'.stage = "idle")
  BY <1>1 DEF IInv, TypeInv, HwType, Idle
<1>5. Running /\ HostInv'
  BY <1>1, HwFrame, AtCommand DEF IInv
<1>6. BitInv'
  <2> USE DEF callVars, hostVars
  <2>1. stray' = stray /\ pc' = pc /\ hw'.stage # "cmd"
    BY <1>1, <1>4
  <2>2. ~stray => pc = "poll" /\ int' \intersect CMDSTS = {bit}
    BY <1>1, AtCommand DEF CMDSTS
  <2>3. "CMDRDY" \in int' => "CMDRDY" \in int' \intersect CMDSTS
    BY DEF CMDSTS
  <2>4. bit # "CMDRDY"
    OBVIOUS
  <2> QED BY <2>1, <2>2, <2>3, <2>4 DEF BitInv
<1>7. Clean' => Clean /\ ~dirty'
  BY <1>1, <1>5 DEF Clean
<1>8. FlowInv'
  <2> USE DEF callVars, hostVars
  <2> SUFFICES ASSUME Clean' PROVE FlowInv'
    BY DEF FlowInv
  <2>1. pc = "poll" /\ int = {} /\ Empty
    BY <1>1, <1>7, AtCommand
  <2>2. int' = {bit} /\ Empty' /\ pc' = "poll" /\ hw'.stage = "idle" /\ erred'
    BY <1>1, <1>4, <1>7, <2>1 DEF Empty
  <2> QED BY <2>2 DEF FlowInv, PollInv
<1>9. ToldInv'
  <2> USE DEF callVars, hostVars
  <2> SUFFICES ASSUME Clean' PROVE pc' # "idle"
    BY DEF ToldInv
  <2> QED BY <1>1, <1>7, AtCommand
<1> QED BY <1>2, <1>3, <1>5, <1>6, <1>8, <1>9 DEF IInv, TypeInv

\* A unit goes through the FIFO, the next one of the packet at hand.
LEMMA HwMoveStep == IInv /\ HwMove => IInv'
<1> SUFFICES ASSUME IInv, HwMove PROVE IInv'
  OBVIOUS
<1> DEFINE u == Unit(hw.call, hw.done + 1, TRUE)
<1>1. /\ hw.stage = "data" /\ hw.done < BlkLen(hw.cmd) /\ hw' = [hw EXCEPT !.done = @ + 1]
      /\ UNCHANGED <<hostVars, callVars, int, resp, card, erred, stray, dirty, lost>>
  BY DEF HwMove
<1>2. \/ /\ hw.cmd.what \in Reads /\ Len(rx) < FifoSize
         /\ rx' = Append(rx, u) /\ UNCHANGED <<tx, moved>>
      \/ /\ hw.cmd.what \in Writes /\ tx # <<>>
         /\ tx' = Tail(tx) /\ moved' = Append(moved, Head(tx)) /\ UNCHANGED rx
  BY DEF HwMove
<1>3. /\ hw.cmd \in Sent /\ hw.done \in Nat /\ hw.call \in Nat /\ FifoSize \in Nat /\ Longest \in Nat
      /\ rx \in Seq(Units) /\ tx \in Seq(Units) /\ moved \in Seq(Units)
      /\ Len(rx) \in Nat /\ Len(tx) \in Nat /\ Len(moved) \in Nat
      /\ Len(rx) <= FifoSize /\ Len(tx) <= FifoSize
  BY BlocksBounded, MsdcAssumption, NoUnits DEF IInv, TypeInv, HwType, DataType
<1>4. /\ hw'.stage = "data" /\ hw'.cmd = hw.cmd /\ hw'.call = hw.call /\ hw'.done = hw.done + 1
      /\ hw' \in [stage : {"idle", "cmd", "data", "stop"}, cmd : Sent, done : 0 .. Longest, call : Nat]
  <2>1. hw.done + 1 \in 0 .. Longest
    BY <1>1, <1>3, SentFacts
  <2> QED BY <1>1, <2>1 DEF IInv, TypeInv, HwType
<1>5. u \in Units
  BY <1>3 DEF Unit, Units
<1> HIDE DEF u
<1>6. HwType' /\ HistType'
  BY <1>1, <1>4 DEF IInv, TypeInv, HwType, HistType
<1>7. DataType'
  <2>1. CASE rx' = Append(rx, u) /\ Len(rx) < FifoSize /\ UNCHANGED <<tx, moved>>
    BY <1>3, <1>5, <2>1, Appended DEF DataType
  <2>2. CASE tx # <<>> /\ tx' = Tail(tx) /\ moved' = Append(moved, Head(tx)) /\ UNCHANGED rx
    <3>1. Tail(tx) \in Seq(Units) /\ Len(Tail(tx)) = Len(tx) - 1 /\ Head(tx) \in Units
      BY <1>3, <2>2, HeadTail
    <3>2. Append(moved, Head(tx)) \in Seq(Units)
      BY <1>3, <3>1, Appended
    <3> QED BY <1>3, <2>2, <3>1, <3>2 DEF DataType
  <2> QED BY <1>2, <2>1, <2>2
<1>8. HostType' /\ CallType' /\ HostInv'
  <2>1. Running
    BY <1>1 DEF IInv, HostInv
  <2> QED BY <1>1, <2>1, HwFrame DEF IInv
<1>9. BitInv'
  BY <1>1, <1>4 DEF IInv, BitInv, Running, hostVars, callVars
<1>10. Clean' => Clean
  BY <1>1 DEF Clean, Running, hostVars
<1> USE DEF callVars, hostVars
<1>11. Clean => /\ Stage' /\ Done' = Done + 1 /\ Done = hw.done
                /\ pc \in {"poll", "read", "drain", "write", "push"}
                /\ hw.cmd = cmd /\ hw.call = calls
  <2> SUFFICES ASSUME Clean PROVE Stage' /\ Done' = Done + 1 /\ Done = hw.done
                /\ pc \in {"poll", "read", "drain", "write", "push"} /\ hw.cmd = cmd /\ hw.call = calls
    OBVIOUS
  <2>1. /\ Stage /\ hw.cmd = cmd /\ hw.call = calls /\ Done = hw.done
        /\ pc \in {"poll", "read", "drain", "write", "push"}
    BY <1>1, AtData
  <2>2. hw.done + 1 <= cmd.len
    <3>1. IsDataTransfer(cmd) /\ BlkLen(cmd) = cmd.len /\ cmd.len \in Nat
      BY <1>3, <2>1, SentFacts DEF Stage
    <3> QED BY <1>1, <1>3, <2>1, <3>1
  <2>3. Stage'
    BY <1>1, <1>4, <2>1, <2>2 DEF Stage, IsDataTransfer
  <2> QED BY <1>4, <2>1, <2>3 DEF Done
<1>12. \A k : Mine(k)' = Mine(k)
  BY <1>1 DEF Mine
<1>13. Clean /\ cmd.what \in Reads => ReadFlow' /\ UNCHANGED <<moved, tx>>
  <2> SUFFICES ASSUME Clean, cmd.what \in Reads PROVE ReadFlow' /\ UNCHANGED <<moved, tx>>
    OBVIOUS
  <2>1. Len(rx) < FifoSize /\ rx' = Append(rx, u) /\ UNCHANGED <<tx, moved>>
    BY <1>2, <1>11 DEF Reads, Writes
  <2>2. /\ tx = <<>> /\ Len(moved) + Len(rx) = Done
        /\ \A k \in 1 .. Len(moved) : moved[k] = Mine(k)
        /\ \A k \in 1 .. Len(rx) : rx[k] = Mine(Len(moved) + k)
    BY <1>1, AtData DEF ReadFlow
  <2>3. /\ Len(rx') = Len(rx) + 1 /\ \A k \in 1 .. Len(rx) : rx'[k] = rx[k]
        /\ rx'[Len(rx) + 1] = u
    BY <1>3, <1>5, <2>1, Appended
  <2>4. u = Mine(Len(moved) + (Len(rx) + 1))
    <3>1. hw.done + 1 = Len(moved) + (Len(rx) + 1)
      BY <1>3, <1>11, <2>2
    <3>2. (cmd.what \in Reads) = TRUE
      OBVIOUS
    <3> QED BY <1>11, <3>1, <3>2, Zenon DEF u, Mine
  <2>5. \A k \in 1 .. Len(rx') : rx'[k] = Mine(Len(moved) + k)
    <3> SUFFICES ASSUME NEW k \in 1 .. Len(rx') PROVE rx'[k] = Mine(Len(moved) + k)
      OBVIOUS
    <3>1. k \in 1 .. Len(rx) \/ k = Len(rx) + 1
      BY <1>3, <2>3
    <3> QED BY <2>2, <2>3, <2>4, <3>1
  <2>6. Len(moved) + Len(rx') = Done'
    BY <1>3, <1>11, <2>2, <2>3
  <2> QED BY <1>12, <2>1, <2>2, <2>5, <2>6 DEF ReadFlow
<1>14. Clean /\ cmd.what \in Writes =>
          /\ WriteFlow' /\ Len(moved') + Len(tx') = Len(moved) + Len(tx) /\ tx # <<>>
  <2> SUFFICES ASSUME Clean, cmd.what \in Writes
               PROVE  WriteFlow' /\ Len(moved') + Len(tx') = Len(moved) + Len(tx) /\ tx # <<>>
    OBVIOUS
  <2>1. tx # <<>> /\ tx' = Tail(tx) /\ moved' = Append(moved, Head(tx)) /\ UNCHANGED rx
    BY <1>2, <1>11 DEF Reads, Writes
  <2>2. /\ rx = <<>> /\ Len(moved) = Done
        /\ \A k \in 1 .. Len(moved) : moved[k] = Mine(k)
        /\ \A k \in 1 .. Len(tx) : tx[k] = Mine(Len(moved) + k)
    BY <1>1, AtData DEF WriteFlow
  <2>3. /\ Len(tx') = Len(tx) - 1 /\ Len(tx) >= 1 /\ Head(tx) = tx[1] /\ Head(tx) \in Units
        /\ \A k \in 1 .. Len(tx) - 1 : tx'[k] = tx[k + 1]
    BY <1>3, <2>1, HeadTail
  <2>4. /\ Len(moved') = Len(moved) + 1 /\ \A k \in 1 .. Len(moved) : moved'[k] = moved[k]
        /\ moved'[Len(moved) + 1] = Head(tx)
    BY <1>3, <2>1, <2>3, Appended
  <2>5. Head(tx) = Mine(Len(moved) + 1)
    <3>1. 1 \in 1 .. Len(tx)
      BY <1>3, <2>3
    <3> QED BY <2>2, <2>3, <3>1
  <2>6. \A k \in 1 .. Len(moved') : moved'[k] = Mine(k)
    <3> SUFFICES ASSUME NEW k \in 1 .. Len(moved') PROVE moved'[k] = Mine(k)
      OBVIOUS
    <3>1. k \in 1 .. Len(moved) \/ k = Len(moved) + 1
      BY <1>3, <2>4
    <3> QED BY <2>2, <2>4, <2>5, <3>1
  <2>7. \A k \in 1 .. Len(tx') : tx'[k] = Mine(Len(moved') + k)
    <3> SUFFICES ASSUME NEW k \in 1 .. Len(tx') PROVE tx'[k] = Mine(Len(moved') + k)
      OBVIOUS
    <3>1. k \in 1 .. Len(tx) - 1 /\ k + 1 \in 1 .. Len(tx) /\ Len(moved) + (k + 1) = Len(moved') + k
      BY <1>3, <2>3, <2>4
    <3> QED BY <2>2, <2>3, <3>1
  <2>8. Len(moved') = Done' /\ Len(moved') + Len(tx') = Len(moved) + Len(tx)
    BY <1>3, <1>11, <2>2, <2>3, <2>4
  <2> QED BY <1>12, <2>1, <2>2, <2>6, <2>7, <2>8 DEF WriteFlow
<1>15. FlowInv'
  <2> SUFFICES ASSUME Clean' PROVE FlowInv'
    BY DEF FlowInv
  <2>1. /\ Clean /\ cmd.what \in Reads \union Writes
        /\ UNCHANGED <<cmd, int, pc, seen, RemainSize>>
    BY <1>1, <1>10, AtData DEF Stage, IsDataTransfer
  <2>2. pc \in {"read", "drain"} => ReadFlow' /\ "CMDRDY" \notin int /\ RemainSize = cmd.len - Len(moved')
    BY <1>13, <2>1 DEF IInv, FlowInv, HostInv
  <2>3. pc \in {"write", "push"} => WriteFlow' /\ "CMDRDY" \notin int /\ Len(moved') + Len(tx') = cmd.len - RemainSize
    BY <1>14, <2>1 DEF IInv, FlowInv, HostInv
  <2>4. pc = "drain" => ("XFER_COMPL" \in seen => "XFER_COMPL" \in int)
    BY <2>1 DEF IInv, FlowInv
  <2>5. pc = "poll" => PollInv'
    <3> SUFFICES ASSUME pc = "poll" PROVE PollInv'
      OBVIOUS
    <3>1. "CMDRDY" \in int /\ moved = <<>> /\ (cmd.what \in Writes => tx = <<>>)
      BY <1>1, <2>1, AtData
    <3>2. cmd.what \in Reads /\ cmd.what \notin Writes
      BY <1>14, <2>1, <3>1 DEF Reads, Writes
    <3> QED BY <1>11, <1>13, <2>1, <3>1, <3>2 DEF PollInv
  <2> QED BY <1>11, <2>1, <2>2, <2>3, <2>4, <2>5 DEF FlowInv
<1>16. ToldInv'
  BY <1>1, <1>10, <1>11 DEF ToldInv
<1> QED BY <1>6, <1>7, <1>8, <1>9, <1>15, <1>16 DEF IInv, TypeInv

\* The packet's last unit has gone through the FIFO.
LEMMA HwXferDoneStep == IInv /\ HwXferDone => IInv'
<1> SUFFICES ASSUME IInv, HwXferDone PROVE IInv'
  OBVIOUS
<1> USE DEF histVars
<1>1. /\ hw.stage = "data" /\ hw.done = BlkLen(hw.cmd) /\ int' = int \union {"XFER_COMPL"}
      /\ hw' = Idle \/ hw' = [hw EXCEPT !.stage = "stop"]
      /\ UNCHANGED <<hostVars, callVars, rx, tx, resp, card, histVars>>
  BY DEF HwXferDone
<1>2. HwType'
  <2>1. Idle \in [stage : {"idle", "cmd", "data", "stop"}, cmd : Sent, done : 0 .. Longest, call : Nat]
    BY StepsSent, BlocksBounded, MsdcAssumption DEF Idle, NoPacket
  <2>2. int' \subseteq CMDSTS \union DATSTS
    BY <1>1 DEF IInv, TypeInv, HwType, DATSTS
  <2>3. hw' \in [stage : {"idle", "cmd", "data", "stop"}, cmd : Sent, done : 0 .. Longest, call : Nat]
    BY <1>1, <2>1 DEF IInv, TypeInv, HwType
  <2> QED BY <1>1, <2>2, <2>3 DEF IInv, TypeInv, HwType
<1>3. hw'.stage \in {"idle", "stop"}
  BY <1>1 DEF IInv, TypeInv, HwType, Idle
<1>4. DataType' /\ HistType'
  BY <1>1 DEF IInv, TypeInv, DataType, HistType
<1>5. Running
  BY <1>1 DEF IInv, HostInv
<1>6. HostType' /\ CallType' /\ HostInv'
  BY <1>1, <1>5, HwFrame DEF IInv
<1> USE DEF callVars, hostVars
<1>7. BitInv'
  <2>1. int' \intersect CMDSTS = int \intersect CMDSTS /\ ("CMDRDY" \in int' <=> "CMDRDY" \in int)
    BY <1>1 DEF CMDSTS
  <2> QED BY <1>1, <1>3, <2>1 DEF IInv, BitInv, Running
<1>8. Clean' => Clean
  BY <1>1 DEF Clean, Running
<1>9. FlowInv' /\ ToldInv'
  <2> SUFFICES ASSUME Clean' PROVE FlowInv' /\ ToldInv'
    BY DEF FlowInv, ToldInv
  <2>1. /\ Clean /\ pc \in {"poll", "read", "drain", "write", "push"}
        /\ Stage /\ hw.cmd = cmd /\ Done = hw.done
        /\ cmd.what \in Reads => ReadFlow
        /\ cmd.what \in Writes => WriteFlow
        /\ pc = "poll" => "CMDRDY" \in int /\ moved = <<>>
        /\ pc = "poll" /\ cmd.what \in Writes => tx = <<>>
    BY <1>1, <1>8, AtData
  <2>2. Done' = Done
    <3>1. BlkLen(cmd) = cmd.len
      BY <2>1, SentFacts DEF Stage, IInv, TypeInv, CallType
    <3> QED BY <1>1, <1>3, <2>1, <3>1 DEF Done
  <2>3. (ReadFlow' <=> ReadFlow) /\ (WriteFlow' <=> WriteFlow)
    BY <1>1, <2>2, FlowFrame
  <2>4. Stage' /\ ("CMDRDY" \in int' <=> "CMDRDY" \in int) /\ "XFER_COMPL" \in int'
    BY <1>1, <1>3, <2>1 DEF Stage, IsDataTransfer
  <2>5. pc = "poll" => PollInv'
    BY <1>1, <2>1, <2>3, <2>4 DEF PollInv
  <2>6. pc \in {"read", "drain"} => ReadFlow' /\ "CMDRDY" \notin int /\ RemainSize' = cmd'.len - Len(moved')
    BY <1>1, <2>1, <2>3 DEF IInv, FlowInv
  <2>7. pc \in {"write", "push"} => WriteFlow' /\ "CMDRDY" \notin int /\ Len(moved') + Len(tx') = cmd'.len - RemainSize'
    BY <1>1, <2>1, <2>3 DEF IInv, FlowInv
  <2>8. pc' = pc /\ pc # "idle" /\ pc # "busy"
    BY <1>1, <2>1
  <2> QED BY <2>4, <2>5, <2>6, <2>7, <2>8 DEF FlowInv, ToldInv
<1> QED BY <1>2, <1>4, <1>6, <1>7, <1>9 DEF IInv, TypeInv

\* A data stage is broken off: the packet met an error.
LEMMA HwDataErrorStep == ASSUME NEW bit \in WriteErrors PROVE IInv /\ HwDataError(bit) => IInv'
<1> SUFFICES ASSUME IInv, HwDataError(bit) PROVE IInv'
  OBVIOUS
<1>1. /\ hw.stage = "data" /\ int' = int \union {bit} /\ hw' = Idle /\ erred' = TRUE /\ dirty' = TRUE
      /\ UNCHANGED <<hostVars, callVars, rx, tx, resp, card, moved, stray, lost>>
  BY DEF HwDataError
<1>2. HwType'
  <2>1. Idle \in [stage : {"idle", "cmd", "data", "stop"}, cmd : Sent, done : 0 .. Longest, call : Nat]
    BY StepsSent, BlocksBounded, MsdcAssumption DEF Idle, NoPacket
  <2>2. int' \subseteq CMDSTS \union DATSTS
    BY <1>1 DEF IInv, TypeInv, HwType, DATSTS, WriteErrors
  <2> QED BY <1>1, <2>1, <2>2 DEF IInv, TypeInv, HwType
<1>3. hw'.stage = "idle" /\ Running
  BY <1>1 DEF Idle, IInv, HostInv
<1>4. DataType' /\ HistType'
  BY <1>1 DEF IInv, TypeInv, DataType, HistType
<1>5. HostType' /\ CallType' /\ HostInv'
  BY <1>1, <1>3, HwFrame DEF IInv
<1>6. BitInv'
  <2>1. int' \intersect CMDSTS = int \intersect CMDSTS /\ ("CMDRDY" \in int' <=> "CMDRDY" \in int)
    BY <1>1 DEF CMDSTS, WriteErrors
  <2> QED BY <1>1, <1>3, <2>1 DEF IInv, BitInv, Running, callVars, hostVars
<1>7. FlowInv' /\ ToldInv'
  BY <1>1 DEF FlowInv, ToldInv, Clean
<1> QED BY <1>2, <1>4, <1>5, <1>6, <1>7 DEF IInv, TypeInv

\* Auto CMD12 is over; a bit it raises is remembered.
LEMMA HwAutoStopStep ==
    ASSUME NEW bits \in {{}, {"ACMDRDY"}, {"ACMDTMO"}, {"ACMDCRCERR"}} PROVE IInv /\ HwAutoStop(bits) => IInv'
<1> SUFFICES ASSUME IInv, HwAutoStop(bits) PROVE IInv'
  OBVIOUS
<1>1. /\ hw.stage = "stop" /\ hw' = Idle /\ int' = int \union bits /\ stray' = (stray \/ bits # {})
      /\ UNCHANGED <<hostVars, callVars, rx, tx, resp, card, moved, erred, dirty, lost>>
  BY DEF HwAutoStop
<1>2. HwType'
  <2>1. Idle \in [stage : {"idle", "cmd", "data", "stop"}, cmd : Sent, done : 0 .. Longest, call : Nat]
    BY StepsSent, BlocksBounded, MsdcAssumption DEF Idle, NoPacket
  <2>2. int' \subseteq CMDSTS \union DATSTS
    BY <1>1 DEF IInv, TypeInv, HwType, CMDSTS
  <2> QED BY <1>1, <2>1, <2>2 DEF IInv, TypeInv, HwType
<1>3. hw'.stage = "idle" /\ Running
  BY <1>1 DEF Idle, IInv, HostInv
<1>4. DataType' /\ HistType'
  BY <1>1 DEF IInv, TypeInv, DataType, HistType
<1> USE DEF callVars, hostVars
<1>5. HostType' /\ CallType'
  BY <1>1 DEF IInv, TypeInv, HostType, CallType
<1>6. HostInv'
  BY <1>1, <1>3 DEF IInv, HostInv, Running, IsDataTransfer
<1>7. ~stray' => ~stray /\ int' = int
  BY <1>1
<1>8. BitInv'
  BY <1>1, <1>3, <1>7 DEF IInv, BitInv, Running
<1>9. FlowInv' /\ ToldInv'
  <2> SUFFICES ASSUME Clean' PROVE FlowInv' /\ ToldInv'
    BY DEF FlowInv, ToldInv
  <2>1. Clean /\ int' = int /\ stray' = stray
    BY <1>1, <1>3, <1>7 DEF Clean, IInv, TypeInv, HistType
  <2>2. Done' = Done
    BY <1>1, <1>3 DEF Done
  <2>3. (ReadFlow' <=> ReadFlow) /\ (WriteFlow' <=> WriteFlow) /\ (Empty' <=> Empty)
    BY <1>1, <2>2, FlowFrame
  <2>4. Stage => Stage'
    BY <1>1, <1>3, <2>1 DEF Stage, IsDataTransfer
  <2>5. PollInv => PollInv'
    <3> SUFFICES ASSUME PollInv PROVE PollInv'
      OBVIOUS
    <3>1. /\ Stage /\ "CMDRDY" \in int
          /\ cmd.what \in Reads => ReadFlow /\ moved = <<>>
          /\ cmd.what \in Writes => WriteFlow /\ moved = <<>> /\ tx = <<>>
      BY <1>1 DEF PollInv
    <3> QED BY <1>1, <2>1, <2>3, <2>4, <3>1 DEF PollInv
  <2>6. FlowInv'
    BY <1>1, <1>3, <2>1, <2>3, <2>4, <2>5 DEF IInv, FlowInv
  <2>7. ToldInv'
    BY <1>1, <2>1 DEF IInv, ToldInv, Carried, IsDataTransfer
  <2> QED BY <2>6, <2>7
<1> QED BY <1>2, <1>4, <1>5, <1>6, <1>8, <1>9 DEF IInv, TypeInv

-----------------------------------------------------------------------------

\* Every step keeps the inductive invariant.
LEMMA NextInv == IInv /\ [Next]_vars => IInv'
<1> SUFFICES ASSUME IInv, [Next]_vars PROVE IInv'
  OBVIOUS
<1>1. CASE Driver
  BY <1>1, StartHostStep, InstallHostStep, SendDetectStep, WriteCmdStep, MsdcPollInterruptsStep,
     PioReadStatusStep, PioReadFifoStep, PioWriteStep, FifoWriteUnitStep DEF Driver
<1>2. CASE Controller
  BY <1>2, HwAnswerStep, HwNoAnswerStep, HwMoveStep, HwXferDoneStep, HwDataErrorStep,
     HwAutoStopStep DEF Controller
<1>3. CASE \E c \in Packets : PassThru(c)
  BY <1>3, PassThruStep
<1>4. CASE UNCHANGED vars
  BY <1>4, StutterStep
<1> QED BY <1>1, <1>2, <1>3, <1>4 DEF Next

\* The inductive invariant holds in every behaviour of the host.
LEMMA Invariance == Spec => []IInv
BY InitInv, NextInv, PTL DEF Spec

\* The state is well-formed: the counters of MsdcPioRead and MsdcPioWrite stay
\* within the packet, and the FIFO within its size, however long both are.
THEOREM TypeCorrect == Spec => []TypeOK
<1>1. IInv => TypeOK
  BY TableFacts DEF IInv, TypeInv, HostType, CallType, HwType, DataType, TypeOK, Longest
<1> QED BY <1>1, Invariance, PTL

\* MsdcPollInterrupts never takes a bit of CMDSTS for the answer to a command
\* that the controller has not executed, unless auto CMD12 raised it.
THEOREM AnswersAreMine == Spec => []ResponseIsMine
<1>1. IInv => ResponseIsMine
  BY DEF IInv, HostInv, BitInv, ResponseIsMine
<1> QED BY <1>1, Invariance, PTL

\* MsdcSendCmd reports an error to a client only for a packet that met one: no
\* chunk is missed when XFER_COMPL ends the loop, whatever the sizes of chunk,
\* block and transfer.
THEOREM FailuresAreReal == Spec => []FailsForAReason
<1>1. IInv => FailsForAReason
  BY DEF IInv, ToldInv, Clean, Running, FailsForAReason
<1> QED BY <1>1, Invariance, PTL

\* A transfer that MsdcSendCmd reports as successful has put every unit of its
\* packet through the FIFO once and in order, and a read has brought the data
\* itself, whatever the sizes.  Of a write it says where the units of the card
\* come from, not that they hold the data: MsdcFifoWrite stores one byte per word.
THEOREM BlocksInOrder == Spec => []MovedInOrder
<1>1. IInv => MovedInOrder
  <2> SUFFICES ASSUME IInv, Succeeded
               PROVE  /\ Places(moved) = Places(Data(cmd))
                      /\ cmd.what \in Reads => moved = Data(cmd)
    BY DEF MovedInOrder
  <2>1. moved = Carried(cmd)
    BY DEF IInv, ToldInv, Clean, Running, Succeeded
  <2>2. Places(Carried(cmd)) = Places(Data(cmd))
    BY DEF Places, Carried, Data, Unit
  <2>3. cmd.what \in Reads => Carried(cmd) = Data(cmd)
    BY DEF Carried, Data
  <2> QED BY <2>1, <2>2, <2>3
<1> QED BY <1>1, Invariance, PTL
=============================================================================
