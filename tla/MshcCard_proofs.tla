-------------------------- MODULE MshcCard_proofs --------------------------
(***************************************************************************)
(* TLAPS proofs about MshcCard for every set of cards, every capacity,     *)
(* pass and request size, and any number of calls, swaps and faults.       *)
(***************************************************************************)
EXTENDS MshcCard, SequenceTheorems, TLAPS

Slot      == Cards \union {NoCard}
Detecting == {"init", "cmd0", "cmd8", "acmd41", "cmd1", "cmd11", "cmd2", "cmd9", "cmd7", "mode",
              "done", "cycle"}
Unnamed   == {"cmd0", "cmd8", "acmd41", "cmd1", "cmd11", "cmd2"}
Named     == {"cmd9", "cmd7", "mode", "done"}
InPass    == {"send", "cmd", "data", "pio", "done", "stop"}

Dets  == [at : Detecting \union {"idle"}, op : {"none", "entry", "reset"}, prev : Slot,
          blocks : {0, NumBlocks}, again : BOOLEAN]
Medias == [present : BOOLEAN, id : Nat, last : 0 .. NumBlocks]
Infos == [cid : Slot, type : {"none", "SD1", "SD2", "MMC"}, hc : BOOLEAN, blocks : {0, NumBlocks}]
Calls == [at : InPass \union {"idle", "prepare"}, op : {"none", "read", "write"}, lba : Nat,
          pos : Nat, left : 0 .. MaxLen, n : 0 .. MaxPass, todo : 0 .. MaxPass, seen : SUBSET Bits]
Commands == [op : {"none", "read", "write"}, arg : Nat, n : 0 .. MaxPass]
Stages == [op : {"none", "read", "write", "stop"}, block : Nat, left : 0 .. MaxPass,
           multi : BOOLEAN]
CardStates == [st : {"off", "idle", "ready", "ident", "stby", "tran"}, volt : {"3V3", "1V8"}]
Counts == [calls : 0 .. MaxCalls, swaps : Nat, faults : Nat]
Units == (Cards \X Nat) \union {NoCard}

\* TypeOK with the fields of the records.
DetType ==
    /\ phase \in {"entry", "installed", "gone"} /\ det \in Dets /\ media \in Medias
    /\ info \in Infos /\ mSkipUhs \in BOOLEAN /\ mDmaUsable \in BOOLEAN
HwType ==
    /\ dma \in [on : BOOLEAN, n : 0 .. MaxPass] /\ rints \subseteq Bits
    /\ fifo \in Seq(Units) /\ Len(fifo) <= 1 /\ resp \in BOOLEAN
    /\ held \in Commands /\ hw \in Stages /\ late \in BOOLEAN
CardType ==
    /\ busy \in BOOLEAN /\ supply \in {"off", "3V3", "1V8"} /\ seated \in Slot
    /\ card \in CardStates /\ count \in Counts
HistType ==
    /\ moved \in Seq(Units) /\ names \in Seq([id : Nat, card : Cards])
    /\ blurred \in BOOLEAN /\ unsure \in BOOLEAN

TypeInv == DetType /\ io \in Calls /\ HwType /\ CardType /\ HistType

\* When a detection may be under way, and what it has found out so far.
DetInv ==
    /\ det.at # "idle" => det.op \in {"entry", "reset"}
    /\ det.at # "idle" => io.at = "idle" \/ (BetweenPasses /\ unsure)
    /\ det.at # "idle" /\ det.op = "entry" => phase = "entry"
    /\ phase = "entry" => names = <<>> /\ media.id = 0
    /\ det.op = "reset" => phase = "installed" /\ media.id < count.calls
    /\ phase = "installed" => names # <<>>
    /\ io.at # "idle" => phase = "installed"
    /\ det.at \in Unnamed => info.cid = NoCard
    /\ det.at \in Named => info.cid # NoCard
    /\ det.at \in {"mode", "done"} => info.blocks = NumBlocks

\* A card answers data commands only to a gCardInfo that was read from it.
CardInv ==
    /\ det.at \in {"cmd11", "cmd2"} /\ card.st = "ready" => info.hc = (seated \in HighCap)
    /\ info.cid # NoCard /\ card.st \in {"ident", "stby", "tran"} =>
          seated = info.cid /\ info.hc = (seated \in HighCap)

\* The CIDs the driver compares are of the card published last, or zero.
NameInv ==
    /\ media.id <= count.calls
    /\ names # <<>> => names[Len(names)].id = media.id
    /\ \A i \in 1 .. Len(names) : names[i].id <= media.id
    /\ ~blurred /\ names # <<>> =>
          /\ det.at \notin Named => info.cid \in {NoCard, Current}
          /\ det.at # "idle" /\ det.op = "reset" => det.prev \in {NoCard, Current}

\* The counters of a call.
IoInv ==
    /\ io.at = "idle" => io = NoCall
    /\ io.at # "idle" => io.op \in {"read", "write"} /\ io.pos <= io.lba /\ io.left >= 1
    /\ io.at = "prepare" => io.n = 0 /\ io.todo = 0
    /\ io.at \in InPass => io.n = Pass(io.left)
    /\ io.todo <= io.n
    /\ io.at \in {"send", "cmd"} => io.todo = io.n
    /\ io.at \in {"data", "pio"} /\ ~mDmaUsable => io.todo >= 1

\* The IDMAC is enabled from MshcPrepareTransfer on, until MshcFinishDma or an
\* error return; a command has left the controller when its answer is seen.
DmaInv ==
    /\ ~mDmaUsable => ~dma.on
    /\ io.at \in {"pio", "done"} => ~mDmaUsable
    /\ io.at = "stop" \/ BetweenPasses => ~dma.on
    /\ io.at \in {"data", "pio", "done", "stop"} \/ BetweenPasses => held = NoCommand
    /\ io.at = "cmd" /\ rints \intersect {"CDONE", "RTO", "RERR"} # {} => held = NoCommand
    /\ io.at \in {"idle", "prepare"} /\ dma.on /\ (held # NoCommand \/ hw # NoData) => late

Quiet == held = NoCommand /\ hw = NoData

\* The k-th block of the request.
Wanted(k) == <<Current, io.lba - io.pos + k - 1>>

\* The buffer holds the first blocks of the request, in order.
InOrder == unsure \/ \A i \in 1 .. Len(moved) : moved[i] = Wanted(i)

\* The command of the pass.
MyCommand == [op |-> io.op, arg |-> CmdArgument, n |-> io.n]

\* How many blocks of the pass the card has moved.
CardMoved == Len(moved) - io.pos + (IF io.op = "read" THEN Len(fifo) ELSE 0)

\* The data stage of the pass: under way, broken, or over.
Stage ==
    /\ "HLE" \notin rints
    /\ "DTO" \in rints => CardMoved = io.n /\ "DERR" \notin rints
    /\ \/ /\ hw = NoData /\ ("DERR" \in rints \/ "DTO" \in rints)
          /\ "DTO" \in rints /\ io.n > 1 => "ACD" \in rints
       \/ /\ hw.op = io.op /\ "DERR" \notin rints /\ "DTO" \notin rints /\ "ACD" \notin rints
          /\ hw.multi = (io.n > 1) /\ hw.left = io.n - CardMoved
          /\ unsure \/ hw.block = io.lba + CardMoved
       \/ hw.op = "stop" /\ hw.multi /\ io.n > 1 /\ "DTO" \in rints /\ "ACD" \notin rints

\* Where the blocks of the pass are.
Flow ==
    /\ io.pos <= Len(moved) /\ InOrder
    /\ mDmaUsable => fifo = <<>> /\ dma.n = io.n - CardMoved
    /\ ~mDmaUsable /\ io.op = "read" =>
          /\ Len(moved) - io.pos = io.n - io.todo
          /\ unsure \/ fifo = <<>> \/ fifo[1] = Wanted(Len(moved) + 1)
    /\ ~mDmaUsable /\ io.op = "write" => Len(moved) - io.pos + Len(fifo) = io.n - io.todo

\* Nothing of the pass has moved.
Fresh ==
    /\ Len(moved) = io.pos /\ InOrder /\ fifo = <<>>
    /\ io.todo = io.n /\ (mDmaUsable => dma.n = io.n)

\* The command waits in the controller, has failed, or was answered.
CmdInv ==
    \/ held = MyCommand /\ hw = NoData /\ Fresh /\ rints = {}
    \/ held = NoCommand /\ ("RTO" \in rints \/ "RERR" \in rints)
    \/ /\ held = NoCommand /\ "RTO" \notin rints /\ "RERR" \notin rints /\ "CDONE" \in rints
       /\ Stage /\ Flow /\ io.todo = io.n

\* MshcWaitAutoStop comes after the data.
StopInv ==
    /\ Len(moved) = io.pos + io.n /\ InOrder
    /\ hw = NoData \/ (hw.op = "stop" /\ "ACD" \notin rints)

StartInv ==
    /\ io.at = "prepare" /\ io.pos = 0 => moved = <<>>
    /\ io.at = "send" /\ io.pos = 0 /\ moved = <<>> /\ mDmaUsable => dma.n = io.n

FlowInv ==
    late \/ /\ io.at \in {"idle", "prepare", "send"} => Quiet
            /\ io.at = "prepare" => Len(moved) = io.pos /\ InOrder
            /\ io.at = "send" => Fresh /\ rints = {}
            /\ io.at = "cmd" => CmdInv
            /\ io.at \in {"data", "pio", "done"} => Stage /\ Flow
            /\ io.at = "pio" => ("DTO" \in io.seen => "DTO" \in rints)
            /\ io.at = "done" => io.todo = 0
            /\ io.at = "stop" => StopInv

\* A call that is not unsure runs on the CID of the card published.
SureInv == io.at # "idle" /\ ~unsure => info.cid = Current

\* What the caller was told stays true.
ToldInv ==
    /\ io.at # "idle" \/ det.at # "idle" => result.op \notin {"read", "write"}
    /\ NeverShort /\ SuccessIsReal

IInv ==
    /\ TypeInv /\ DetInv /\ CardInv /\ NameInv /\ MediaIdNamesOneCard
    /\ IoInv /\ DmaInv /\ StartInv /\ FlowInv /\ SureInv /\ ToldInv

-----------------------------------------------------------------------------
(* Frames: what a step leaves alone.                                        *)

\* The constants as numbers.
LEMMA Sizes ==
    /\ NumBlocks \in Nat /\ MaxPass \in Nat /\ MaxLen \in Nat /\ MaxCalls \in Nat
    /\ BlockSize \in Nat /\ BlockSize >= 1 /\ NumBlocks >= 1 /\ MaxPass >= 1 /\ MaxLen >= 1
BY MshcAssumption

\* The records of a state in which nothing happens are of their types.
LEMMA Nothings ==
    /\ NoInfo \in Infos /\ NoDetection \in Dets /\ NoCall \in Calls
    /\ NoCommand \in Commands /\ NoData \in Stages /\ Disarmed \in [on : BOOLEAN, n : 0 .. MaxPass]
    /\ FreshCard \in CardStates /\ Absent \in CardStates
<1>1. NoInfo \in Infos
  BY DEF NoInfo, Infos, Slot
<1>2. NoDetection \in Dets
  BY DEF NoDetection, Dets, Slot
<1>3. NoCall \in Calls
  BY Sizes DEF NoCall, Calls
<1>4. NoCommand \in Commands /\ NoData \in Stages
  BY Sizes DEF NoCommand, NoData, Commands, Stages
<1>5. Disarmed \in [on : BOOLEAN, n : 0 .. MaxPass]
  BY Sizes DEF Disarmed
<1>6. FreshCard \in CardStates /\ Absent \in CardStates
  BY DEF FreshCard, Absent, CardStates
<1> QED BY <1>1, <1>2, <1>3, <1>4, <1>5, <1>6

\* The state after MshcBoardInit.
LEMMA InitInv == Init => IInv
<1> SUFFICES ASSUME Init PROVE IInv
  OBVIOUS
<1>1. DetType
  <2>1. [NoDetection EXCEPT !.at = "init", !.op = "entry"] \in Dets
    BY DEF NoDetection, Dets, Slot, Detecting
  <2>2. [present |-> FALSE, id |-> 0, last |-> 0] \in Medias
    BY Sizes DEF Medias
  <2> QED BY <2>1, <2>2, Nothings DEF Init, DetType
<1>2. io \in Calls /\ HwType
  <2>1. <<>> \in Seq(Units) /\ Len(<<>>) <= 1
    OBVIOUS
  <2> QED BY <2>1, Nothings DEF Init, HwType
<1>3. CardType
  <2>1. [calls |-> 0, swaps |-> 0, faults |-> 0] \in Counts
    BY Sizes DEF Counts
  <2> QED BY <2>1, Nothings DEF Init, CardType, Slot
<1>4. HistType
  <2>1. <<>> \in Seq(Units) /\ <<>> \in Seq([id : Nat, card : Cards])
    OBVIOUS
  <2> QED BY <2>1 DEF Init, HistType
<1>5. DetInv /\ CardInv /\ NameInv /\ MediaIdNamesOneCard
  BY DEF Init, DetInv, CardInv, NameInv, MediaIdNamesOneCard, NoDetection, NoInfo, Named, Unnamed,
         FreshCard, NoCall
<1>6. IoInv /\ DmaInv /\ StartInv /\ FlowInv /\ SureInv
  BY DEF Init, IoInv, DmaInv, StartInv, FlowInv, SureInv, NoCall, InPass, BetweenPasses, Disarmed,
         Quiet
<1>7. ToldInv
  BY DEF Init, ToldInv, NeverShort, SuccessIsReal, NoResult
<1> QED BY <1>1, <1>2, <1>3, <1>4, <1>5, <1>6, <1>7 DEF IInv, TypeInv

\* The flow of a pass is judged from the call, the buffer and the controller.
LEMMA FlowFrame ==
    ASSUME UNCHANGED <<io, moved, fifo, rints, held, hw, dma, unsure, mDmaUsable, names, info>>
    PROVE  /\ (Stage' <=> Stage) /\ (Flow' <=> Flow) /\ (Fresh' <=> Fresh) /\ (CmdInv' <=> CmdInv)
           /\ (StopInv' <=> StopInv) /\ (InOrder' <=> InOrder) /\ (Quiet' <=> Quiet)
BY Zenon DEF Stage, Flow, Fresh, CmdInv, StopInv, InOrder, Quiet, Wanted, MyCommand, CmdArgument,
             CardMoved, Current

\* A step that changes nothing of a call changes nothing of what is known of it.
LEMMA IoFrame ==
    ASSUME IInv, UNCHANGED <<io, moved, fifo, rints, held, hw, dma, late, unsure, mDmaUsable, names, info>>
    PROVE  IoInv' /\ DmaInv' /\ StartInv' /\ FlowInv' /\ SureInv'
<1>1. IoInv' /\ DmaInv' /\ StartInv' /\ SureInv'
  BY DEF IInv, IoInv, DmaInv, StartInv, SureInv, BetweenPasses, Pass, Current
<1>2. FlowInv'
  BY FlowFrame DEF IInv, FlowInv
<1> QED BY <1>1, <1>2

\* A step that changes nothing.
LEMMA StutterStep == IInv /\ UNCHANGED vars => IInv'
<1> SUFFICES ASSUME IInv, UNCHANGED vars PROVE IInv'
  OBVIOUS
<1> USE DEF vars, detVars, hwVars, cardVars, histVars
<1>1. TypeInv'
  BY DEF IInv, TypeInv, DetType, HwType, CardType, HistType
<1>2. IoInv' /\ DmaInv' /\ StartInv' /\ FlowInv' /\ SureInv'
  BY IoFrame
<1>3. DetInv' /\ CardInv' /\ NameInv' /\ MediaIdNamesOneCard'
  BY DEF IInv, DetInv, CardInv, NameInv, MediaIdNamesOneCard, BetweenPasses, Current
<1>4. ToldInv'
  BY DEF IInv, ToldInv, NeverShort, SuccessIsReal, Current
<1> QED BY <1>1, <1>2, <1>3, <1>4 DEF IInv

\* While a detection runs, no pass does.
LEMMA NoPassInDetection ==
    ASSUME IInv, det.at # "idle"
    PROVE  /\ io.at = "idle" \/ (io.at = "prepare" /\ io.pos > 0 /\ unsure)
           /\ result.op \notin {"read", "write"}
BY DEF IInv, DetInv, BetweenPasses, ToldInv

\* A step of the identification leaves the call alone.
LEMMA DetectionFrame ==
    ASSUME IInv, det.at # "idle", UNCHANGED <<mDmaUsable, io, hwVars, moved, unsure>>
    PROVE  /\ io' \in Calls /\ HwType' /\ moved' \in Seq(Units) /\ unsure' \in BOOLEAN
           /\ IoInv' /\ DmaInv' /\ StartInv' /\ FlowInv' /\ SureInv'
<1> USE DEF hwVars
<1>1. io' \in Calls /\ HwType' /\ moved' \in Seq(Units) /\ unsure' \in BOOLEAN
  BY DEF IInv, TypeInv, HwType, HistType
<1>2. IoInv' /\ DmaInv' /\ StartInv'
  BY DEF IInv, IoInv, DmaInv, StartInv, BetweenPasses, Pass
<1>3. io.at = "idle" \/ (io.at = "prepare" /\ io.pos > 0 /\ unsure)
  BY NoPassInDetection
<1>4. SureInv' /\ FlowInv'
  BY <1>3 DEF IInv, SureInv, FlowInv, InOrder, Quiet
<1> QED BY <1>1, <1>2, <1>4

-----------------------------------------------------------------------------
(* The detection.                                                           *)

\* A fault, or none, costs no call.
LEMMA FaultFacts ==
    ASSUME CardType, NoFault \/ Fault
    PROVE  count' \in Counts /\ count'.calls = count.calls
BY DEF CardType, NoFault, Fault, Counts

\* The identification goes on at l with gCardInfo as i.
Goes(l, i) == info' = i /\ Goto(l) /\ UNCHANGED <<phase, media, result, blurred>>

\* What is known after each of its steps.
Reached(l, i) ==
    /\ i \in Infos
    /\ \/ l \in Unnamed /\ i.cid = NoCard
       \/ l \in Named /\ i.cid # NoCard
       \/ l = "init" /\ i = info /\ det.at \notin Named
    /\ l \in {"mode", "done"} => i.blocks = NumBlocks

\* What names, media and the last result say does not depend on how far it is.
LEMMA GoesFacts ==
    ASSUME IInv, det.at # "idle", NEW l, NEW i, Goes(l, i), Reached(l, i),
           UNCHANGED <<io, unsure, names, moved>>, count'.calls = count.calls
    PROVE  /\ phase' \in {"entry", "installed", "gone"} /\ det' \in Dets /\ media' \in Medias
           /\ info' \in Infos /\ blurred' \in BOOLEAN /\ det'.at = l
           /\ DetInv' /\ NameInv' /\ MediaIdNamesOneCard' /\ ToldInv'
<1>1. det' \in Dets /\ det'.at = l /\ det'.op = det.op /\ det'.prev = det.prev
  BY DEF IInv, TypeInv, DetType, Goes, Goto, Reached, Dets, Detecting, Unnamed, Named
<1>2. l # "idle" /\ l \in Unnamed \union Named \union {"init"}
  BY DEF Reached, Unnamed, Named
<1>3. DetInv'
  BY <1>1, <1>2 DEF IInv, DetInv, Goes, Reached, BetweenPasses, Unnamed, Named
<1>4. NameInv'
  BY <1>1, <1>2 DEF IInv, NameInv, Goes, Reached, Current, Unnamed, Named
<1>5. MediaIdNamesOneCard'
  BY DEF IInv, MediaIdNamesOneCard, Goes
<1>6. ToldInv'
  BY <1>1, NoPassInDetection DEF IInv, ToldInv, NeverShort, SuccessIsReal, Goes
<1> QED BY <1>1, <1>3, <1>4, <1>5, <1>6 DEF IInv, TypeInv, DetType, HistType, Goes, Reached

\* An error return of MshcDetectCard ends the driver, the Reset, or leads to
\* the power cycle; a CID it leaves behind is noted.
LEMMA FailsFacts ==
    ASSUME IInv, det.at # "idle", NEW i \in Infos, DetectFails(i),
           UNCHANGED <<io, unsure, names, moved>>, count'.calls = count.calls
    PROVE  /\ phase' \in {"entry", "installed", "gone"} /\ det' \in Dets /\ media' \in Medias
           /\ info' = i /\ blurred' \in BOOLEAN /\ det'.at \in {"idle", "cycle"}
           /\ DetInv' /\ NameInv' /\ MediaIdNamesOneCard' /\ ToldInv'
<1> DEFINE Cycle == [det EXCEPT !.at = "cycle", !.prev = i.cid, !.blocks = i.blocks, !.again = TRUE]
<1>1. Cycle \in Dets /\ Cycle.at = "cycle" /\ Cycle.op = det.op /\ Cycle.prev = i.cid
  BY DEF IInv, TypeInv, DetType, Dets, Infos, Detecting
<1>2. NoDetection \in Dets /\ NoDetection.at = "idle" /\ NoDetection.op = "none"
  BY Nothings DEF NoDetection
<1>3. info' = i /\ blurred' = (blurred \/ (names # <<>> /\ i.cid \notin {NoCard, Current}))
  BY DEF DetectFails
<1>4. media' \in Medias /\ media'.id = media.id
  <2>1. media \in Medias /\ 0 \in 0 .. NumBlocks
    BY Sizes DEF IInv, TypeInv, DetType
  <2>2. media' \in {media, [media EXCEPT !.present = FALSE, !.last = 0]}
    BY DEF DetectFails
  <2> QED BY <2>1, <2>2 DEF Medias
<1>5. result'.op \notin {"read", "write"} /\ (result' = result \/ result'.why = "none")
  BY NoPassInDetection DEF DetectFails, NoResult
<1>6. \/ det.op = "entry" /\ phase' = "gone" /\ det' = NoDetection
      \/ det.op = "reset" /\ phase' = phase /\ det' \in {Cycle, NoDetection}
  BY DEF DetectFails
<1> HIDE DEF Cycle
<1>7. det' \in Dets /\ det'.at \in {"idle", "cycle"} /\ (det'.op = "none" \/ det' = Cycle)
  BY <1>1, <1>2, <1>6
<1>8. DetInv'
  <2>1. det.op = "entry" => phase = "entry" /\ io.at = "idle"
    BY DEF IInv, DetInv
  <2>2. det'.at # "idle" => det' = Cycle /\ det.op = "reset" /\ phase' = phase
    BY <1>2, <1>6, <1>1
  <2>3. det'.op = "reset" => phase' = phase /\ det.op = "reset"
    BY <1>1, <1>2, <1>6
  <2> QED BY <1>1, <1>2, <1>4, <1>6, <1>7, <2>1, <2>2, <2>3
          DEF IInv, DetInv, BetweenPasses, Unnamed, Named
<1>9. NameInv'
  BY <1>1, <1>2, <1>3, <1>4, <1>7 DEF IInv, NameInv, Current
<1>10. MediaIdNamesOneCard'
  BY <1>3 DEF IInv, MediaIdNamesOneCard
<1>11. ToldInv'
  BY <1>5 DEF IInv, ToldInv, NeverShort, SuccessIsReal
<1>12. phase' \in {"entry", "installed", "gone"} /\ blurred' \in BOOLEAN
  BY <1>3, <1>6 DEF IInv, TypeInv, DetType, HistType
<1> QED BY <1>3, <1>4, <1>7, <1>8, <1>9, <1>10, <1>11, <1>12

\* One step of the identification, with what it does to the card.
LEMMA IdentifyStep ==
    ASSUME IInv, det.at # "idle", UNCHANGED <<mDmaUsable, io, hwVars, busy, seated, moved, names, unsure>>,
           NoFault \/ Fault,
           \/ \E l, i : Goes(l, i) /\ Reached(l, i)
           \/ \E i \in Infos : DetectFails(i),
           mSkipUhs' \in BOOLEAN, supply' \in {"off", "3V3", "1V8"}, card' \in CardStates, CardInv'
    PROVE  IInv'
<1>1. count' \in Counts /\ count'.calls = count.calls
  BY FaultFacts DEF IInv, TypeInv
<1>2. /\ phase' \in {"entry", "installed", "gone"} /\ det' \in Dets /\ media' \in Medias
      /\ info' \in Infos /\ blurred' \in BOOLEAN
      /\ DetInv' /\ NameInv' /\ MediaIdNamesOneCard' /\ ToldInv'
  BY <1>1, GoesFacts, FailsFacts
<1>3. /\ io' \in Calls /\ HwType' /\ moved' \in Seq(Units) /\ unsure' \in BOOLEAN
      /\ IoInv' /\ DmaInv' /\ StartInv' /\ FlowInv' /\ SureInv'
  BY DetectionFrame
<1>4. DetType' /\ CardType' /\ HistType'
  BY <1>1, <1>2, <1>3 DEF IInv, TypeInv, DetType, CardType, HistType
<1> QED BY <1>2, <1>3, <1>4 DEF IInv, TypeInv

\* A command of the identification that fails, on a card that may have acted.
LEMMA RefusedStep ==
    ASSUME IInv, det.at # "idle", UNCHANGED <<mDmaUsable, io, hwVars, busy, seated, moved, names, unsure>>,
           NEW heard, NEW c \in CardStates, Refused(heard, c), UNCHANGED <<mSkipUhs, supply>>,
           heard /\ info.cid # NoCard /\ c.st \in {"ident", "stby", "tran"} =>
               seated = info.cid /\ info.hc = (seated \in HighCap)
    PROVE  IInv'
<1>1. DetectFails(info) /\ info \in Infos /\ (NoFault \/ Fault)
  BY DEF Refused, IInv, TypeInv, DetType
<1>2. card' = card \/ (heard /\ card' = c)
  BY DEF Refused
<1>3. card' \in CardStates /\ mSkipUhs' \in BOOLEAN /\ supply' \in {"off", "3V3", "1V8"}
  BY <1>2 DEF IInv, TypeInv, CardType, DetType
<1>4. info' = info /\ det'.at \in {"idle", "cycle"}
  <2>1. count'.calls = count.calls
    BY <1>1, FaultFacts DEF IInv, TypeInv
  <2> QED BY <1>1, <2>1, FailsFacts
<1>5. CardInv'
  BY <1>2, <1>4 DEF IInv, CardInv
<1> QED BY <1>1, <1>3, <1>5, IdentifyStep

\* A command of the identification that succeeds.
LEMMA SucceedsStep ==
    ASSUME IInv, det.at # "idle", UNCHANGED <<mDmaUsable, io, hwVars, busy, seated, moved, names, unsure>>,
           NEW l, NEW i, NEW c \in CardStates, Goes(l, i), Reached(l, i), NoFault \/ Fault, card' = c,
           mSkipUhs' \in BOOLEAN, supply' \in {"off", "3V3", "1V8"},
           l \in {"cmd11", "cmd2"} /\ c.st = "ready" => i.hc = (seated \in HighCap),
           i.cid # NoCard /\ c.st \in {"ident", "stby", "tran"} =>
               seated = i.cid /\ i.hc = (seated \in HighCap)
    PROVE  IInv'
<1>2. info' = i /\ det'.at = l
  <2>1. count'.calls = count.calls
    BY FaultFacts DEF IInv, TypeInv
  <2> QED BY <2>1, GoesFacts DEF Goes
<1>3. CardInv'
  BY <1>2 DEF CardInv
<1> QED BY <1>3, IdentifyStep

\* What a step at l of the identification starts from.
LEMMA Start ==
    ASSUME IInv, NEW l \in Detecting, Identifying(l)
    PROVE  /\ det.at = l /\ det.at # "idle"
           /\ UNCHANGED <<mDmaUsable, io, hwVars, busy, seated, moved, names, unsure>>
           /\ info \in Infos /\ card \in CardStates /\ mSkipUhs \in BOOLEAN
           /\ supply \in {"off", "3V3", "1V8"} /\ seated \in Slot
           /\ (l \in Unnamed => info.cid = NoCard) /\ (l \in Named => info.cid # NoCard)
BY DEF Identifying, IInv, TypeInv, DetType, CardType, DetInv, Detecting

\* The card's state after a command.
LEMMA CardFacts ==
    ASSUME card \in CardStates, NEW st \in {"off", "idle", "ready", "ident", "stby", "tran"}
    PROVE  [card EXCEPT !.st = st] \in CardStates /\ [card EXCEPT !.st = st].st = st
BY DEF CardStates

\* Being addressed by block is a Boolean.
LEMMA Decided == (seated \in HighCap) \in BOOLEAN
<1>1. CASE seated \in HighCap
  <2>1. (seated \in HighCap) = TRUE
    BY <1>1
  <2> QED BY <2>1, Zenon
<1>2. CASE ~(seated \in HighCap)
  <2>1. (seated \in HighCap) = FALSE
    BY <1>2
  <2> QED BY <2>1, Zenon
<1> QED BY <1>1, <1>2

\* gCardInfo with HighCapacity set or cleared.
LEMMA InfoFacts ==
    ASSUME info \in Infos, NEW b \in BOOLEAN
    PROVE  /\ [info EXCEPT !.hc = b] \in Infos /\ [info EXCEPT !.hc = b].hc = b
           /\ [info EXCEPT !.hc = b].cid = info.cid
           /\ [info EXCEPT !.type = "MMC", !.hc = b] \in Infos
           /\ [info EXCEPT !.type = "MMC", !.hc = b].hc = b
           /\ [info EXCEPT !.type = "MMC", !.hc = b].cid = info.cid
BY DEF Infos

\* CMD0 leaves a card idle, or alone.
LEMMA IdledFacts ==
    ASSUME card \in CardStates
    PROVE  Idled \in CardStates /\ (Idled.st = "idle" \/ Idled = card)
BY CardFacts DEF Idled

\* CMD0.
LEMMA GoIdleStep == IInv /\ GoIdle => IInv'
<1> SUFFICES ASSUME IInv, GoIdle PROVE IInv'
  OBVIOUS
<1>0. Identifying("cmd0") /\ UNCHANGED <<mSkipUhs, supply>>
  BY DEF GoIdle
<1>1. /\ det.at = "cmd0" /\ det.at # "idle" /\ info \in Infos /\ card \in CardStates /\ info.cid = NoCard
      /\ UNCHANGED <<mDmaUsable, io, hwVars, busy, seated, moved, names, unsure>>
      /\ mSkipUhs' \in BOOLEAN /\ supply' \in {"off", "3V3", "1V8"}
  BY <1>0, Start DEF Detecting, Unnamed
<1>2. Idled \in CardStates
  BY <1>1, IdledFacts
<1>3. CASE Succeeds("cmd8", info, Idled)
  BY <1>1, <1>2, <1>3, SucceedsStep DEF Succeeds, Goes, Reached, Unnamed, Named
<1>4. CASE Refused(TRUE, Idled)
  BY <1>0, <1>1, <1>2, <1>4, RefusedStep
<1> QED BY <1>3, <1>4 DEF GoIdle

\* CMD8.
LEMMA SendIfCondStep == IInv /\ SendIfCond => IInv'
<1> SUFFICES ASSUME IInv, SendIfCond PROVE IInv'
  OBVIOUS
<1>0. Identifying("cmd8") /\ UNCHANGED <<mSkipUhs, supply>>
  BY DEF SendIfCond
<1>1. /\ det.at = "cmd8" /\ det.at # "idle" /\ info \in Infos /\ card \in CardStates /\ info.cid = NoCard
      /\ UNCHANGED <<mDmaUsable, io, hwVars, busy, seated, moved, names, unsure>>
      /\ mSkipUhs' \in BOOLEAN /\ supply' \in {"off", "3V3", "1V8"}
  BY <1>0, Start DEF Detecting, Unnamed
<1>2. \A t \in {"SD1", "SD2"} : Reached("acmd41", [info EXCEPT !.type = t])
  BY <1>1 DEF Reached, Infos, Unnamed
<1>3. CASE \E t \in {"SD1", "SD2"} : /\ Goes("acmd41", [info EXCEPT !.type = t])
                                     /\ card' = card /\ (NoFault \/ Fault)
  <2>1. PICK t \in {"SD1", "SD2"} : Goes("acmd41", [info EXCEPT !.type = t])
    BY <1>3
  <2> DEFINE i == [info EXCEPT !.type = t]
  <2>2. i.cid = NoCard /\ Reached("acmd41", i) /\ Goes("acmd41", i)
    BY <1>1, <1>2, <2>1 DEF Infos
  <2> HIDE DEF i
  <2> QED BY <1>1, <1>3, <2>2, SucceedsStep
<1>4. CASE Refused(TRUE, card)
  BY <1>0, <1>1, <1>4, RefusedStep
<1> QED BY <1>3, <1>4 DEF SendIfCond, Succeeds, Goes

\* ACMD41.
LEMMA SendOpCondStep == IInv /\ SendOpCond => IInv'
<1> SUFFICES ASSUME IInv, SendOpCond PROVE IInv'
  OBVIOUS
<1>0. Identifying("acmd41") /\ UNCHANGED <<mSkipUhs, supply>>
  BY DEF SendOpCond
<1>1. /\ det.at = "acmd41" /\ det.at # "idle" /\ info \in Infos /\ card \in CardStates /\ info.cid = NoCard
      /\ UNCHANGED <<mDmaUsable, io, hwVars, busy, seated, moved, names, unsure>>
      /\ mSkipUhs' \in BOOLEAN /\ supply' \in {"off", "3V3", "1V8"}
  BY <1>0, Start DEF Detecting, Unnamed
<1> DEFINE sd    == Hears("idle") /\ seated \notin Emmc
           ready == sd /\ (seated \in HighCap => info.type = "SD2")
           hc    == info.type = "SD2" /\ seated \in HighCap
           c     == [card EXCEPT !.st = "ready"]
           l     == IF Offers18 /\ ~mSkipUhs THEN "cmd11" ELSE "cmd2"
           i     == [info EXCEPT !.hc = hc]
<1>2. \/ ready /\ Succeeds(l, i, c)
      \/ ~sd /\ Succeeds("cmd1", info, Idled)
      \/ Fault /\ Goes("cmd1", info) /\ card' = Idled
      \/ sd /\ Refused(ready, card)
  BY DEF SendOpCond, Goes
<1>3. CASE ready /\ Succeeds(l, i, c)
  <2>1. c \in CardStates /\ c.st = "ready"
    BY <1>1, CardFacts
  <2>2. l \in {"cmd11", "cmd2"}
    OBVIOUS
  <2>3. i \in Infos /\ i.cid = NoCard /\ i.hc = (seated \in HighCap)
    <3>1. (info.type = "SD2" /\ seated \in HighCap) = (seated \in HighCap)
      BY <1>3
    <3>2. (seated \in HighCap) \in BOOLEAN
      BY Decided
    <3>3. i = [info EXCEPT !.hc = (seated \in HighCap)]
      BY <3>1
    <3> QED BY <1>1, <3>2, <3>3, InfoFacts
  <2> HIDE DEF l, i, c, sd, ready, hc
  <2>4. Reached(l, i)
    BY <2>2, <2>3 DEF Reached, Unnamed
  <2> QED BY <1>1, <1>3, <2>1, <2>2, <2>3, <2>4, SucceedsStep DEF Succeeds, Goes, Named
<1>4. CASE (NoFault \/ Fault) /\ Goes("cmd1", info) /\ card' = Idled
  <2>1. Idled \in CardStates
    BY <1>1, IdledFacts
  <2>2. Reached("cmd1", info)
    BY <1>1 DEF Reached, Unnamed
  <2> QED BY <1>1, <1>4, <2>1, <2>2, SucceedsStep DEF Named
<1>5. CASE Refused(ready, card)
  <2> HIDE DEF ready
  <2> QED BY <1>0, <1>1, <1>5, RefusedStep
<1> QED BY <1>2, <1>3, <1>4, <1>5 DEF Succeeds, Goes

\* CMD1.
LEMMA MmcSendOpCondStep == IInv /\ MmcSendOpCond => IInv'
<1> SUFFICES ASSUME IInv, MmcSendOpCond PROVE IInv'
  OBVIOUS
<1>0. Identifying("cmd1") /\ UNCHANGED <<mSkipUhs, supply>>
  BY DEF MmcSendOpCond
<1>1. /\ det.at = "cmd1" /\ det.at # "idle" /\ info \in Infos /\ card \in CardStates /\ info.cid = NoCard
      /\ UNCHANGED <<mDmaUsable, io, hwVars, busy, seated, moved, names, unsure>>
      /\ mSkipUhs' \in BOOLEAN /\ supply' \in {"off", "3V3", "1V8"}
  BY <1>0, Start DEF Detecting, Unnamed
<1> DEFINE mmc == Hears("idle") /\ seated \in Emmc
           i   == [info EXCEPT !.type = "MMC", !.hc = (seated \in HighCap)]
           c   == [card EXCEPT !.st = "ready"]
<1>2. (mmc /\ Succeeds("cmd2", i, c)) \/ Refused(mmc, card)
  BY DEF MmcSendOpCond
<1>3. CASE Succeeds("cmd2", i, c)
  <2>1. c \in CardStates /\ c.st = "ready"
    BY <1>1, CardFacts
  <2>2. i \in Infos /\ i.cid = NoCard /\ i.hc = (seated \in HighCap)
    <3>1. (seated \in HighCap) \in BOOLEAN
      BY Decided
    <3> QED BY <1>1, <3>1, InfoFacts
  <2> HIDE DEF i, c
  <2>3. Reached("cmd2", i)
    BY <2>2 DEF Reached, Unnamed
  <2> QED BY <1>1, <1>3, <2>1, <2>2, <2>3, SucceedsStep DEF Succeeds, Goes, Named
<1>4. CASE Refused(mmc, card)
  <2> HIDE DEF mmc
  <2> QED BY <1>0, <1>1, <1>4, RefusedStep
<1> QED BY <1>2, <1>3, <1>4

\* CMD2: gCardInfo gets the CID of the card that answers.
LEMMA AllSendCidStep == IInv /\ AllSendCid => IInv'
<1> SUFFICES ASSUME IInv, AllSendCid PROVE IInv'
  OBVIOUS
<1>0. Identifying("cmd2") /\ UNCHANGED <<mSkipUhs, supply>>
  BY DEF AllSendCid
<1>1. /\ det.at = "cmd2" /\ det.at # "idle" /\ info \in Infos /\ card \in CardStates /\ info.cid = NoCard
      /\ UNCHANGED <<mDmaUsable, io, hwVars, busy, seated, moved, names, unsure>>
      /\ mSkipUhs' \in BOOLEAN /\ supply' \in {"off", "3V3", "1V8"} /\ seated \in Slot
  BY <1>0, Start DEF Detecting, Unnamed
<1> DEFINE i == [info EXCEPT !.cid = seated]
           c == [card EXCEPT !.st = "ident"]
<1>2. (Hears("ready") /\ Succeeds("cmd9", i, c)) \/ Refused(Hears("ready"), c)
  BY DEF AllSendCid
<1>3. c \in CardStates /\ c.st = "ident"
  BY <1>1, CardFacts
<1>4. CASE Hears("ready") /\ Succeeds("cmd9", i, c)
  <2>1. seated # NoCard /\ card.st = "ready"
    BY <1>4 DEF Hears
  <2>2. i \in Infos /\ i.cid = seated /\ i.hc = (seated \in HighCap)
    BY <1>1, <2>1 DEF Infos, IInv, CardInv
  <2> HIDE DEF i, c
  <2>3. Reached("cmd9", i)
    BY <2>1, <2>2 DEF Reached, Named
  <2> QED BY <1>1, <1>3, <1>4, <2>2, <2>3, SucceedsStep DEF Succeeds, Goes
<1>5. CASE Refused(Hears("ready"), c)
  <2> HIDE DEF c
  <2> QED BY <1>0, <1>1, <1>3, <1>5, RefusedStep
<1> QED BY <1>2, <1>4, <1>5

\* CMD3 and CMD9.
LEMMA SendCsdStep == IInv /\ SendCsd => IInv'
<1> SUFFICES ASSUME IInv, SendCsd PROVE IInv'
  OBVIOUS
<1>0. Identifying("cmd9") /\ UNCHANGED <<mSkipUhs, supply>>
  BY DEF SendCsd
<1>1. /\ det.at = "cmd9" /\ det.at # "idle" /\ info \in Infos /\ card \in CardStates /\ info.cid # NoCard
      /\ UNCHANGED <<mDmaUsable, io, hwVars, busy, seated, moved, names, unsure>>
      /\ mSkipUhs' \in BOOLEAN /\ supply' \in {"off", "3V3", "1V8"} /\ seated \in Slot
  BY <1>0, Start DEF Detecting, Named
<1> DEFINE i == IF info.type = "MMC" THEN info ELSE [info EXCEPT !.blocks = NumBlocks]
           c == [card EXCEPT !.st = "stby"]
<1>2. (Hears("ident") /\ Succeeds("cmd7", i, c)) \/ Refused(Hears("ident"), c)
  BY DEF SendCsd
<1>3. c \in CardStates /\ c.st = "stby"
  BY <1>1, CardFacts
<1>4. Hears("ident") => seated = info.cid /\ info.hc = (seated \in HighCap)
  BY <1>1 DEF Hears, IInv, CardInv
<1>5. i \in Infos /\ i.cid = info.cid /\ i.hc = info.hc
  BY <1>1 DEF Infos
<1> HIDE DEF i, c
<1>6. CASE Hears("ident") /\ Succeeds("cmd7", i, c)
  <2>1. Reached("cmd7", i)
    BY <1>1, <1>5 DEF Reached, Named
  <2> QED BY <1>1, <1>3, <1>4, <1>5, <1>6, <2>1, SucceedsStep DEF Succeeds, Goes
<1>7. CASE Refused(Hears("ident"), c)
  BY <1>0, <1>1, <1>3, <1>4, <1>7, RefusedStep
<1> QED BY <1>2, <1>6, <1>7

\* CMD7.
LEMMA SelectStep == IInv /\ Select => IInv'
<1> SUFFICES ASSUME IInv, Select PROVE IInv'
  OBVIOUS
<1>0. Identifying("cmd7") /\ UNCHANGED <<mSkipUhs, supply>>
  BY DEF Select
<1>1. /\ det.at = "cmd7" /\ det.at # "idle" /\ info \in Infos /\ card \in CardStates /\ info.cid # NoCard
      /\ UNCHANGED <<mDmaUsable, io, hwVars, busy, seated, moved, names, unsure>>
      /\ mSkipUhs' \in BOOLEAN /\ supply' \in {"off", "3V3", "1V8"} /\ seated \in Slot
  BY <1>0, Start DEF Detecting, Named
<1> DEFINE i == [info EXCEPT !.blocks = NumBlocks]
           c == [card EXCEPT !.st = "tran"]
<1>2. (Hears("stby") /\ Succeeds("mode", i, c)) \/ Refused(Hears("stby"), c)
  BY DEF Select
<1>3. c \in CardStates /\ c.st = "tran"
  BY <1>1, CardFacts
<1>4. Hears("stby") => seated = info.cid /\ info.hc = (seated \in HighCap)
  BY <1>1 DEF Hears, IInv, CardInv
<1>5. i \in Infos /\ i.cid = info.cid /\ i.hc = info.hc /\ i.blocks = NumBlocks
  BY <1>1 DEF Infos
<1> HIDE DEF i, c
<1>6. CASE Hears("stby") /\ Succeeds("mode", i, c)
  <2>1. Reached("mode", i)
    BY <1>1, <1>5 DEF Reached, Named
  <2> QED BY <1>1, <1>3, <1>4, <1>5, <1>6, <2>1, SucceedsStep DEF Succeeds, Goes
<1>7. CASE Refused(Hears("stby"), c)
  BY <1>0, <1>1, <1>3, <1>4, <1>7, RefusedStep
<1> QED BY <1>2, <1>6, <1>7

\* The access mode.
LEMMA SetAccessModeStep == IInv /\ SetAccessMode => IInv'
<1> SUFFICES ASSUME IInv, SetAccessMode PROVE IInv'
  OBVIOUS
<1>0. Identifying("mode") /\ UNCHANGED <<mSkipUhs, supply>>
  BY DEF SetAccessMode
<1>1. /\ det.at = "mode" /\ det.at # "idle" /\ info \in Infos /\ card \in CardStates /\ info.cid # NoCard
      /\ UNCHANGED <<mDmaUsable, io, hwVars, busy, seated, moved, names, unsure>>
      /\ mSkipUhs' \in BOOLEAN /\ supply' \in {"off", "3V3", "1V8"} /\ seated \in Slot
  BY <1>0, Start DEF Detecting, Named
<1>2. CASE Succeeds("done", info, card)
  <2>1. Reached("done", info)
    BY <1>1 DEF Reached, Named, IInv, DetInv
  <2>2. card.st \in {"ident", "stby", "tran"} => seated = info.cid /\ info.hc = (seated \in HighCap)
    BY <1>1 DEF IInv, CardInv
  <2> QED BY <1>1, <1>2, <2>1, <2>2, SucceedsStep DEF Succeeds, Goes
<1>3. CASE Fault /\ UNCHANGED card /\ DetectFails(info)
  <2>1. Refused(TRUE, card)
    BY <1>3 DEF Refused
  <2>2. card.st \in {"ident", "stby", "tran"} => seated = info.cid /\ info.hc = (seated \in HighCap)
    BY <1>1 DEF IInv, CardInv
  <2> QED BY <1>0, <1>1, <2>1, <2>2, RefusedStep
<1> QED BY <1>2, <1>3 DEF SetAccessMode

\* The slot after MshcBoardPowerCycle.
LEMMA PowerFacts ==
    ASSUME CardType, PowerCycle \/ PowerCycleFails \/ Power(Absent, supply)
    PROVE  /\ card' \in CardStates /\ supply' \in {"off", "3V3", "1V8"}
           /\ card' = card \/ card'.st \in {"off", "idle"}
<1>1. Absent.st = "off" /\ FreshCard.st = "idle"
  BY DEF Absent, FreshCard
<1> QED BY <1>1, Nothings DEF CardType, PowerCycle, PowerCycleFails, Power

\* The switch to 1.8 V.
LEMMA SwitchTo1V8Step == IInv /\ SwitchTo1V8 => IInv'
<1> SUFFICES ASSUME IInv, SwitchTo1V8 PROVE IInv'
  OBVIOUS
<1>0. Identifying("cmd11")
  BY DEF SwitchTo1V8
<1>1. /\ det.at = "cmd11" /\ det.at # "idle" /\ info \in Infos /\ card \in CardStates /\ info.cid = NoCard
      /\ UNCHANGED <<mDmaUsable, io, hwVars, busy, seated, moved, names, unsure>>
      /\ mSkipUhs \in BOOLEAN
  BY <1>0, Start DEF Detecting, Unnamed
<1> DEFINE c == [card EXCEPT !.volt = "1V8"]
<1>2. CASE Hears("ready") /\ Succeeds("cmd2", info, c) /\ supply' = "1V8" /\ UNCHANGED mSkipUhs
  <2>1. c \in CardStates /\ c.st = card.st
    BY <1>1 DEF CardStates
  <2>2. card.st = "ready" => info.hc = (seated \in HighCap)
    BY <1>1 DEF IInv, CardInv
  <2>3. Reached("cmd2", info)
    BY <1>1 DEF Reached, Unnamed
  <2> HIDE DEF c
  <2> QED BY <1>1, <1>2, <2>1, <2>2, <2>3, SucceedsStep DEF Succeeds, Goes
<1>3. CASE /\ IF Hears("ready") THEN Fault ELSE NoFault
           /\ mSkipUhs' = TRUE /\ Goto("init")
           /\ PowerCycle \/ PowerCycleFails \/ Power(Absent, supply)
           /\ UNCHANGED <<phase, media, info, result, blurred>>
  <2>1. card' \in CardStates /\ supply' \in {"off", "3V3", "1V8"}
    BY <1>3, PowerFacts DEF IInv, TypeInv
  <2>2. Reached("init", info) /\ Goes("init", info)
    BY <1>1, <1>3 DEF Reached, Goes, Named
  <2> QED BY <1>1, <1>3, <2>1, <2>2, SucceedsStep
<1> QED BY <1>2, <1>3 DEF SwitchTo1V8

\* The power cycle of MshcRecoverCard.
LEMMA RecoverCardStep == IInv /\ RecoverCard => IInv'
<1> SUFFICES ASSUME IInv, RecoverCard PROVE IInv'
  OBVIOUS
<1>1. /\ det.at = "cycle" /\ det.at # "idle" /\ info \in Infos /\ det.at \notin Named
      /\ UNCHANGED <<mDmaUsable, io, hwVars, busy, seated, moved, names, unsure>>
      /\ UNCHANGED <<phase, media, info, mSkipUhs, blurred>> /\ mSkipUhs' \in BOOLEAN
  BY DEF RecoverCard, IInv, TypeInv, DetType, Named
<1>2. CASE PowerCycle /\ NoFault /\ Goto("init") /\ UNCHANGED result
  <2>1. /\ card' \in CardStates /\ supply' \in {"off", "3V3", "1V8"}
        /\ card' = card \/ card'.st \in {"off", "idle"}
    BY <1>2, PowerFacts DEF IInv, TypeInv
  <2>2. Reached("init", info) /\ Goes("init", info)
    BY <1>1, <1>2 DEF Reached, Goes
  <2>3. info.cid # NoCard /\ card'.st \in {"ident", "stby", "tran"} =>
           seated = info.cid /\ info.hc = (seated \in HighCap)
    BY <2>1 DEF IInv, CardInv
  <2> QED BY <1>1, <1>2, <2>1, <2>2, <2>3, SucceedsStep
<1>3. CASE /\ PowerCycleFails /\ Fault /\ det' = NoDetection
           /\ result' = [NoResult EXCEPT !.op = "reset", !.status = "ERROR"]
  <2>1. /\ card' \in CardStates /\ supply' \in {"off", "3V3", "1V8"}
        /\ card' = card \/ card'.st \in {"off", "idle"}
    BY <1>3, PowerFacts DEF IInv, TypeInv
  <2>2. count' \in Counts /\ count'.calls = count.calls
    BY <1>3, FaultFacts DEF IInv, TypeInv
  <2>3. det' \in Dets /\ det'.at = "idle" /\ det'.op = "none"
    BY <1>3, Nothings DEF NoDetection
  <2>4. DetInv' /\ CardInv' /\ NameInv' /\ MediaIdNamesOneCard'
    BY <1>1, <2>1, <2>2, <2>3 DEF IInv, DetInv, CardInv, NameInv, MediaIdNamesOneCard, Current,
                                 BetweenPasses, Named, Unnamed
  <2>5. ToldInv'
    BY <1>3 DEF ToldInv, NeverShort, SuccessIsReal, NoResult
  <2>6. /\ io' \in Calls /\ HwType' /\ moved' \in Seq(Units) /\ unsure' \in BOOLEAN
        /\ IoInv' /\ DmaInv' /\ StartInv' /\ FlowInv' /\ SureInv'
    BY <1>1, DetectionFrame
  <2>7. DetType' /\ CardType' /\ HistType'
    BY <1>1, <2>1, <2>2, <2>3 DEF IInv, TypeInv, DetType, CardType, HistType
  <2> QED BY <2>4, <2>5, <2>6, <2>7 DEF IInv, TypeInv
<1> QED BY <1>2, <1>3 DEF RecoverCard

\* The detection is over: another card has got another MediaId.
LEMMA DetectDoneStep == IInv /\ DetectDone => IInv'
<1> SUFFICES ASSUME IInv, DetectDone PROVE IInv'
  OBVIOUS
<1> DEFINE change == det.op = "reset" /\ Different
           name   == [id |-> media'.id, card |-> info.cid]
<1>1. /\ det.at = "done" /\ det' = NoDetection /\ names' = Append(names, name)
      /\ media' = [present |-> TRUE, last |-> info.blocks - 1,
                   id |-> IF change THEN media.id + 1 ELSE media.id]
      /\ result'.op = det.op /\ result'.why = "none"
      /\ UNCHANGED <<info, mSkipUhs, mDmaUsable, io, hwVars, cardVars, moved, blurred, unsure>>
      /\ (phase' = "installed" /\ NoFault) \/ (det.op = "entry" /\ phase' = "gone" /\ Fault)
  BY DEF DetectDone, NoResult
<1>2. /\ info.cid \in Cards /\ info.blocks = NumBlocks /\ det.op \in {"entry", "reset"}
      /\ media \in Medias /\ media.id \in Nat /\ det \in Dets /\ info \in Infos
      /\ names \in Seq([id : Nat, card : Cards]) /\ Len(names) \in Nat
  BY <1>1 DEF IInv, TypeInv, DetType, HistType, DetInv, Infos, Slot, Named, Medias
<1>3. /\ media' \in Medias /\ media'.id \in Nat
      /\ media'.id = IF change THEN media.id + 1 ELSE media.id
  <2>1. NumBlocks - 1 \in 0 .. NumBlocks
    BY Sizes
  <2> HIDE DEF change
  <2> QED BY <1>1, <1>2, <2>1 DEF Medias
<1>4. count' \in Counts /\ count'.calls = count.calls
  BY <1>1, FaultFacts DEF IInv, TypeInv
<1>5. det'.at = "idle" /\ det'.op = "none" /\ det' \in Dets
  BY <1>1, Nothings DEF NoDetection
<1>6. name \in [id : Nat, card : Cards] /\ name.id = media'.id /\ name.card = info.cid
  BY <1>2, <1>3
<1> HIDE DEF change, name
<1>7. /\ names' \in Seq([id : Nat, card : Cards]) /\ Len(names') = Len(names) + 1
      /\ names'[Len(names')] = name /\ \A i \in 1 .. Len(names) : names'[i] = names[i]
  BY <1>1, <1>2, <1>6
<1>8. /\ det.op = "entry" => names = <<>> /\ media.id = 0 /\ phase = "entry" /\ io.at = "idle"
      /\ det.op = "reset" => names # <<>> /\ phase = "installed" /\ media.id < count.calls
  BY <1>1 DEF IInv, DetInv
<1>9. det.op = "entry" => media'.id = 0 /\ ~change
  BY <1>3, <1>8 DEF change
<1>10. DetInv'
  <2>1. names' # <<>>
    BY <1>2, <1>7
  <2>2. phase' # "entry" /\ (io.at # "idle" => phase' = "installed")
    BY <1>1, <1>8
  <2> QED BY <1>1, <1>5, <2>1, <2>2 DEF DetInv, Unnamed, Named
<1>11. media'.id <= count'.calls /\ media.id <= media'.id
  <2>1. count.calls \in Nat /\ media.id <= count.calls
    BY DEF IInv, TypeInv, CardType, Counts, NameInv
  <2> QED BY <1>2, <1>3, <1>4, <1>8, <1>9, <2>1
<1>12. \A i \in 1 .. Len(names') : names'[i].id <= media'.id
  <2> SUFFICES ASSUME NEW i \in 1 .. Len(names') PROVE names'[i].id <= media'.id
    OBVIOUS
  <2>1. CASE i = Len(names')
    BY <1>3, <1>6, <1>7, <2>1
  <2>2. CASE i \in 1 .. Len(names)
    <3>0. names[i] \in [id : Nat, card : Cards]
      BY <1>2, <2>2, ElementOfSeq
    <3>1. names[i].id <= media.id /\ names[i].id \in Nat
      BY <2>2, <3>0 DEF IInv, NameInv
    <3> QED BY <1>2, <1>3, <1>7, <1>11, <2>2, <3>1
  <2> QED BY <1>2, <1>7, <2>1, <2>2
<1>13. NameInv'
  BY <1>1, <1>5, <1>6, <1>7, <1>11, <1>12 DEF NameInv, Current
<1>14. MediaIdNamesOneCard'
  <2> SUFFICES ASSUME ~blurred, NEW i \in 1 .. Len(names'), NEW j \in 1 .. Len(names'),
                      names'[i].id = names'[j].id
               PROVE  names'[i].card = names'[j].card
    BY <1>1 DEF MediaIdNamesOneCard
  <2>1. ASSUME NEW k \in 1 .. Len(names), names[k].id = media'.id PROVE names[k].card = info.cid
    <3>1. names # <<>> /\ det.op = "reset"
      BY <1>2, <1>8, <2>1
    <3>2. names[k].id <= media.id /\ names[Len(names)].id = media.id
      BY <2>1, <3>1 DEF IInv, NameInv
    <3>3. ~change
      BY <1>2, <1>3, <2>1, <3>2
    <3>4. det.prev = info.cid
      BY <3>1, <3>3 DEF change, Different
    <3>5. info.cid = Current
      BY <1>1, <1>2, <3>1, <3>4, MshcAssumption DEF IInv, NameInv
    <3>6. names[k].id = names[Len(names)].id /\ Len(names) \in 1 .. Len(names)
      BY <1>2, <1>3, <2>1, <3>1, <3>2, <3>3
    <3> QED BY <2>1, <3>5, <3>6 DEF IInv, MediaIdNamesOneCard, Current
  <2>2. CASE i = Len(names') /\ j = Len(names')
    BY <2>2
  <2>3. CASE i = Len(names') /\ j \in 1 .. Len(names)
    BY <1>6, <1>7, <2>1, <2>3
  <2>4. CASE j = Len(names') /\ i \in 1 .. Len(names)
    BY <1>6, <1>7, <2>1, <2>4
  <2>5. CASE i \in 1 .. Len(names) /\ j \in 1 .. Len(names)
    BY <1>7, <2>5 DEF IInv, MediaIdNamesOneCard
  <2> QED BY <1>2, <1>7, <2>2, <2>3, <2>4, <2>5
<1>15. CardInv'
  BY <1>1, <1>5 DEF IInv, CardInv, cardVars
<1>16. ToldInv'
  BY <1>1, <1>2 DEF ToldInv, NeverShort, SuccessIsReal
<1>17. /\ io' \in Calls /\ HwType' /\ moved' \in Seq(Units) /\ unsure' \in BOOLEAN
       /\ IoInv' /\ DmaInv' /\ StartInv' /\ FlowInv' /\ SureInv'
  BY <1>1, DetectionFrame
<1>18. DetType' /\ CardType' /\ HistType'
  BY <1>1, <1>3, <1>4, <1>5, <1>7, <1>17 DEF IInv, TypeInv, DetType, CardType, HistType, cardVars
<1> QED BY <1>10, <1>13, <1>14, <1>15, <1>16, <1>17, <1>18 DEF IInv, TypeInv

\* MshcResetAll and a reset that times out, with no pass under way.
LEMMA ResetFrame ==
    ASSUME IInv, io.at = "idle" \/ BetweenPasses, UNCHANGED <<io, moved, unsure, resp>>,
           mDmaUsable' \in {mDmaUsable, TRUE},
           ResetAll \/ (rints' = {} /\ UNCHANGED <<dma, fifo, held, hw, late, mDmaUsable>>),
           io.at = "idle" \/ unsure \/ UNCHANGED <<info, names>>
    PROVE  /\ io' \in Calls /\ HwType' /\ moved' \in Seq(Units) /\ unsure' \in BOOLEAN
           /\ mDmaUsable' \in BOOLEAN
           /\ IoInv' /\ DmaInv' /\ StartInv' /\ FlowInv' /\ SureInv'
<1>1. io \in Calls /\ HwType /\ moved \in Seq(Units) /\ unsure \in BOOLEAN /\ mDmaUsable \in BOOLEAN
  BY DEF IInv, TypeInv, HistType, DetType
<1>2. <<>> \in Seq(Units) /\ Len(<<>>) <= 1
  OBVIOUS
<1>3. HwType'
  BY <1>1, <1>2, Nothings DEF HwType, ResetAll
<1>4. io.at \in {"idle", "prepare"} /\ (io.at = "idle" => io.pos = 0)
  BY DEF IInv, IoInv, BetweenPasses, NoCall
<1>5. IoInv' /\ StartInv' /\ SureInv'
  BY <1>4 DEF IInv, IoInv, StartInv, SureInv, Pass, InPass, Current
<1>6. DmaInv'
  BY <1>4 DEF IInv, DmaInv, BetweenPasses, ResetAll, Disarmed
<1>7. FlowInv'
  <2>1. InOrder /\ (io.at = "idle" \/ unsure \/ UNCHANGED <<info, names>>) => io.at = "idle" \/ InOrder'
    BY DEF InOrder, Wanted, Current
  <2>2. late' \/ Quiet'
    BY <1>4 DEF IInv, FlowInv, Quiet, ResetAll
  <2>3. late' = late \/ io.at = "idle"
    BY <1>4 DEF BetweenPasses, ResetAll, HwType, IInv, TypeInv
  <2> QED BY <1>4, <2>1, <2>2, <2>3 DEF IInv, FlowInv
<1> QED BY <1>1, <1>3, <1>5, <1>6, <1>7

\* MshcInitialize.
LEMMA MshcInitializeStep == IInv /\ (MshcInitialize \/ ResetTimesOut) => IInv'
<1> SUFFICES ASSUME IInv, MshcInitialize \/ ResetTimesOut PROVE IInv'
  OBVIOUS
<1>1. /\ det.at = "init" /\ det.at # "idle" /\ UNCHANGED <<io, moved, unsure, resp, names>>
      /\ UNCHANGED <<mSkipUhs, busy, supply, seated, card>> /\ (NoFault \/ Fault)
      /\ mDmaUsable' \in {mDmaUsable, TRUE}
      /\ ResetAll \/ (rints' = {} /\ UNCHANGED <<dma, fifo, held, hw, late, mDmaUsable>>)
      /\ Goes("cmd0", NoInfo) \/ DetectFails(NoInfo)
  BY DEF MshcInitialize, ResetTimesOut, Goes, cardVars
<1>2. count' \in Counts /\ count'.calls = count.calls
  BY <1>1, FaultFacts DEF IInv, TypeInv
<1>3. NoInfo \in Infos /\ NoInfo.cid = NoCard
  BY Nothings DEF NoInfo
<1>4. Reached("cmd0", NoInfo)
  BY <1>3 DEF Reached, Unnamed
<1>5. /\ phase' \in {"entry", "installed", "gone"} /\ det' \in Dets /\ media' \in Medias
      /\ info' = NoInfo /\ blurred' \in BOOLEAN /\ det'.at \in {"idle", "cycle", "cmd0"}
      /\ DetInv' /\ NameInv' /\ MediaIdNamesOneCard' /\ ToldInv'
  <2>1. CASE Goes("cmd0", NoInfo)
    <3>1. info' = NoInfo
      BY <2>1 DEF Goes
    <3> QED BY <1>1, <1>2, <1>4, <2>1, <3>1, GoesFacts
  <2>2. CASE DetectFails(NoInfo)
    BY <1>1, <1>2, <1>3, <2>2, FailsFacts
  <2> QED BY <1>1, <2>1, <2>2
<1>6. CardInv'
  BY <1>3, <1>5 DEF CardInv
<1>7. io.at = "idle" \/ (BetweenPasses /\ unsure)
  BY <1>1 DEF IInv, DetInv
<1>8. /\ io' \in Calls /\ HwType' /\ moved' \in Seq(Units) /\ unsure' \in BOOLEAN
      /\ mDmaUsable' \in BOOLEAN
      /\ IoInv' /\ DmaInv' /\ StartInv' /\ FlowInv' /\ SureInv'
  BY <1>1, <1>7, ResetFrame
<1>9. DetType' /\ CardType' /\ HistType'
  BY <1>1, <1>2, <1>3, <1>5, <1>8 DEF IInv, TypeInv, DetType, CardType, HistType
<1> QED BY <1>5, <1>6, <1>8, <1>9 DEF IInv, TypeInv

-----------------------------------------------------------------------------
(* The calls, and what happens to the card.                                 *)

\* A step that leaves the detection and what it has published alone.
LEMMA DetSame ==
    ASSUME IInv, UNCHANGED <<detVars, names, blurred>>, count' \in Counts,
           count'.calls >= count.calls, det.at = "idle" \/ UNCHANGED <<io, unsure>>,
           io'.at # "idle" => phase = "installed"
    PROVE  DetType' /\ DetInv' /\ NameInv' /\ MediaIdNamesOneCard'
<1> USE DEF detVars
<1>0. count.calls \in Nat /\ count'.calls \in Nat /\ media.id \in Nat
  BY DEF IInv, TypeInv, CardType, DetType, Counts, Medias
<1>1. DetType' /\ MediaIdNamesOneCard'
  BY DEF IInv, TypeInv, DetType, MediaIdNamesOneCard
<1>2. DetInv'
  BY <1>0 DEF IInv, DetInv, BetweenPasses, Unnamed, Named
<1>3. NameInv'
  <2>1. media.id <= count'.calls
    BY <1>0 DEF IInv, NameInv
  <2> QED BY <2>1 DEF IInv, NameInv, Current
<1> QED BY <1>1, <1>2, <1>3

\* A call counts.
LEMMA CallFacts ==
    ASSUME IInv, MayCall, count' = [count EXCEPT !.calls = @ + 1]
                          \/ count' = [count EXCEPT !.calls = @ + 1, !.faults = @ + 1]
    PROVE  count' \in Counts /\ count'.calls = count.calls + 1 /\ count.calls \in Nat
<1>1. count \in Counts /\ count.calls < MaxCalls
  BY DEF IInv, TypeInv, CardType, MayCall
<1>2. count.calls \in Nat /\ count.calls + 1 \in 0 .. MaxCalls
  BY <1>1, Sizes DEF Counts
<1>3. count.faults \in Nat /\ count.faults + 1 \in Nat
  BY <1>1 DEF Counts
<1> QED BY <1>1, <1>2, <1>3 DEF Counts

\* Reset with extended verification.
LEMMA MshcResetStep == IInv /\ MshcReset => IInv'
<1> SUFFICES ASSUME IInv, MshcReset PROVE IInv'
  OBVIOUS
<1>1. /\ MayCall /\ (io.at = "idle" \/ BetweenPasses) /\ count' = [count EXCEPT !.calls = @ + 1]
      /\ det' = [NoDetection EXCEPT !.at = "init", !.op = "reset", !.prev = info.cid]
      /\ unsure' = BetweenPasses /\ result' = NoResult
      /\ UNCHANGED <<phase, media, info, mSkipUhs, mDmaUsable, io, hwVars, cardVars, moved, names,
                     blurred>>
      /\ phase = "installed" /\ det.at = "idle"
  BY DEF MshcReset, MayCall
<1>2. count' \in Counts /\ count'.calls = count.calls + 1 /\ count.calls \in Nat
  BY <1>1, CallFacts
<1>3. det' \in Dets /\ det'.at = "init" /\ det'.op = "reset" /\ det'.prev = info.cid
  <2>1. info.cid \in Slot
    BY DEF IInv, TypeInv, DetType, Infos
  <2> QED BY <1>1, <2>1 DEF NoDetection, Dets, Detecting
<1>4. media.id \in Nat /\ media.id <= count.calls
  BY DEF IInv, TypeInv, DetType, Medias, NameInv
<1>5. unsure' \in BOOLEAN /\ (unsure' <=> io.at # "idle")
  <2>1. CASE BetweenPasses
    <3>1. unsure' = TRUE /\ io.at = "prepare"
      BY <1>1, <2>1 DEF BetweenPasses
    <3> QED BY <3>1
  <2>2. CASE ~BetweenPasses
    <3>1. unsure' = FALSE /\ io.at = "idle"
      BY <1>1, <2>2
    <3> QED BY <3>1
  <2> QED BY <2>1, <2>2
<1>6. DetInv'
  BY <1>1, <1>2, <1>3, <1>4, <1>5 DEF IInv, DetInv, BetweenPasses, Unnamed, Named
<1>7. NameInv' /\ MediaIdNamesOneCard'
  <2>1. media.id <= count'.calls
    BY <1>2, <1>4
  <2>2. det.at \notin Named
    BY <1>1 DEF Named
  <2> QED BY <1>1, <1>3, <2>1, <2>2 DEF IInv, NameInv, MediaIdNamesOneCard, Current
<1>8. CardInv'
  BY <1>1, <1>3 DEF IInv, CardInv, cardVars
<1>9. IoInv' /\ DmaInv' /\ StartInv'
  BY <1>1 DEF IInv, IoInv, DmaInv, StartInv, BetweenPasses, Pass, hwVars
<1>10. FlowInv' /\ SureInv'
  <2>1. io.at \in {"idle", "prepare"}
    BY <1>1 DEF BetweenPasses
  <2> QED BY <1>1, <1>5, <2>1 DEF IInv, FlowInv, SureInv, InOrder, Quiet, hwVars
<1>11. ToldInv'
  BY <1>1 DEF ToldInv, NeverShort, SuccessIsReal, NoResult
<1>12. TypeInv'
  BY <1>1, <1>2, <1>3, <1>5 DEF IInv, TypeInv, DetType, HwType, CardType, HistType, hwVars, cardVars
<1> QED BY <1>6, <1>7, <1>8, <1>9, <1>10, <1>11, <1>12 DEF IInv

\* Reset without it.
LEMMA MshcResetAllStep == IInv /\ MshcResetAll => IInv'
<1> SUFFICES ASSUME IInv, MshcResetAll PROVE IInv'
  OBVIOUS
<1>1. /\ MayCall /\ (io.at = "idle" \/ BetweenPasses)
      /\ \/ count' = [count EXCEPT !.calls = @ + 1]
         \/ count' = [count EXCEPT !.calls = @ + 1, !.faults = @ + 1]
      /\ ResetAll \/ (rints' = {} /\ UNCHANGED <<dma, fifo, held, hw, late>>)
      /\ UNCHANGED <<detVars, io, resp, cardVars, histVars>>
      /\ phase = "installed" /\ det.at = "idle"
  BY DEF MshcResetAll, MayCall
<1>2. count' \in Counts /\ count'.calls = count.calls + 1 /\ count.calls \in Nat
  BY <1>1, CallFacts
<1>3. DetType' /\ DetInv' /\ NameInv' /\ MediaIdNamesOneCard'
  <2>1. count'.calls >= count.calls
    BY <1>2
  <2> QED BY <1>1, <1>2, <2>1, DetSame DEF histVars
<1>4. /\ io' \in Calls /\ HwType' /\ moved' \in Seq(Units) /\ unsure' \in BOOLEAN
      /\ IoInv' /\ DmaInv' /\ StartInv' /\ FlowInv' /\ SureInv'
  BY <1>1, ResetFrame DEF histVars, detVars
<1>5. CardInv' /\ ToldInv'
  BY <1>1 DEF IInv, CardInv, ToldInv, NeverShort, SuccessIsReal, Current, detVars, cardVars, histVars
<1>6. CardType' /\ HistType'
  BY <1>1, <1>2, <1>4 DEF IInv, TypeInv, CardType, HistType, cardVars, histVars
<1> QED BY <1>3, <1>4, <1>5, <1>6 DEF IInv, TypeInv

\* ReadBlocks and WriteBlocks begin.
LEMMA MshcReadWriteStep == IInv /\ MshcReadWrite => IInv'
<1> SUFFICES ASSUME IInv, MshcReadWrite PROVE IInv'
  OBVIOUS
<1>1. PICK op \in {"read", "write"}, lba \in 0 .. media.last, len \in 1 .. MaxLen :
        io' = [NoCall EXCEPT !.at = "prepare", !.op = op, !.lba = lba, !.left = len]
  BY DEF MshcReadWrite
<1>2. /\ MayCall /\ io.at = "idle" /\ phase = "installed" /\ det.at = "idle"
      /\ count' = [count EXCEPT !.calls = @ + 1]
      /\ moved' = <<>> /\ unsure' = (info.cid # Current) /\ result' = NoResult
      /\ UNCHANGED <<detVars, hwVars, cardVars, names, blurred>>
  BY DEF MshcReadWrite, MayCall
<1>3. count' \in Counts /\ count'.calls = count.calls + 1 /\ count.calls \in Nat
  BY <1>2, CallFacts
<1>4. /\ io' \in Calls /\ io'.at = "prepare" /\ io'.op = op /\ io'.lba = lba /\ io'.pos = 0
      /\ io'.left = len /\ io'.n = 0 /\ io'.todo = 0
  <2>1. lba \in Nat /\ len \in 0 .. MaxLen
    BY Sizes DEF IInv, TypeInv, DetType, Medias
  <2>2. NoCall \in Calls
    BY Nothings
  <2>3. io' \in Calls
    BY <1>1, <2>1, <2>2 DEF Calls
  <2> QED BY <1>1, <2>3 DEF NoCall
<1>5. DetType' /\ DetInv' /\ NameInv' /\ MediaIdNamesOneCard'
  <2>1. count'.calls >= count.calls
    BY <1>3
  <2> QED BY <1>2, <1>3, <2>1, DetSame
<1>6. IoInv' /\ StartInv'
  <2>1. lba \in Nat /\ len >= 1
    BY Sizes DEF IInv, TypeInv, DetType, Medias
  <2> QED BY <1>2, <1>4, <2>1 DEF IoInv, StartInv, InPass
<1>7. DmaInv'
  BY <1>2, <1>4 DEF IInv, DmaInv, BetweenPasses, hwVars, detVars
<1>8. FlowInv'
  <2>1. InOrder' /\ Len(moved') = 0
    BY <1>2 DEF InOrder
  <2> QED BY <1>2, <1>4, <2>1 DEF IInv, FlowInv, Quiet, hwVars
<1>9. unsure' \in BOOLEAN /\ SureInv'
  <2>1. CASE info.cid = Current
    <3>1. unsure' = FALSE
      BY <1>2, <2>1
    <3> QED BY <1>2, <2>1, <3>1 DEF SureInv, Current, detVars
  <2>2. CASE info.cid # Current
    <3>1. unsure' = TRUE
      BY <1>2, <2>2
    <3> QED BY <3>1 DEF SureInv
  <2> QED BY <2>1, <2>2
<1>10. CardInv' /\ ToldInv'
  BY <1>2 DEF IInv, CardInv, ToldInv, NeverShort, SuccessIsReal, NoResult, detVars, cardVars
<1>11. HwType' /\ CardType' /\ HistType'
  <2>1. <<>> \in Seq(Units)
    OBVIOUS
  <2> QED BY <1>2, <1>3, <1>9, <2>1 DEF IInv, TypeInv, HwType, CardType, HistType, hwVars, cardVars
<1> QED BY <1>4, <1>5, <1>6, <1>7, <1>8, <1>9, <1>10, <1>11 DEF IInv, TypeInv

\* A step of the slot alone.
LEMMA SlotFrame ==
    ASSUME IInv, UNCHANGED <<detVars, io, hwVars, supply, histVars>>, CardType', CardInv',
           count'.calls = count.calls
    PROVE  IInv'
<1>1. DetType' /\ DetInv' /\ NameInv' /\ MediaIdNamesOneCard'
  <2>1. count' \in Counts /\ count.calls \in Nat
    BY DEF CardType, IInv, TypeInv, Counts
  <2>2. count'.calls >= count.calls
    BY <2>1
  <2>3. io'.at # "idle" => phase = "installed"
    BY DEF IInv, DetInv
  <2> QED BY <2>1, <2>2, <2>3, DetSame DEF histVars
<1>2. IoInv' /\ DmaInv' /\ StartInv' /\ FlowInv' /\ SureInv'
  BY IoFrame DEF histVars, hwVars, detVars
<1>3. ToldInv'
  BY DEF IInv, ToldInv, NeverShort, SuccessIsReal, Current, histVars, detVars
<1>4. io' \in Calls /\ HwType' /\ HistType'
  BY DEF IInv, TypeInv, HwType, HistType, hwVars, histVars
<1> QED BY <1>1, <1>2, <1>3, <1>4 DEF IInv, TypeInv

\* The card releases DAT0.
LEMMA CardReadyStep == IInv /\ CardReady => IInv'
<1> SUFFICES ASSUME IInv, CardReady PROVE IInv'
  OBVIOUS
<1>1. CardType' /\ CardInv'
  BY DEF CardReady, IInv, TypeInv, CardType, CardInv, detVars
<1> QED BY <1>1, SlotFrame DEF CardReady

\* The card is pulled or another is put in.
LEMMA SwapStep == IInv /\ Swap => IInv'
<1> SUFFICES ASSUME IInv, Swap PROVE IInv'
  OBVIOUS
<1>1. card' \in CardStates /\ card'.st \in {"off", "idle"}
  <2>1. Absent.st = "off" /\ FreshCard.st = "idle"
    BY DEF Absent, FreshCard
  <2> QED BY <2>1, Nothings DEF Swap
<1>2. count' \in Counts /\ count'.calls = count.calls
  BY DEF Swap, IInv, TypeInv, CardType, Counts
<1>3. CardType' /\ CardInv'
  BY <1>1, <1>2 DEF Swap, IInv, TypeInv, CardType, CardInv, Slot
<1> QED BY <1>2, <1>3, SlotFrame DEF Swap

-----------------------------------------------------------------------------
(* The steps of a transfer.                                                 *)

\* What a step of a transfer leaves alone.
LEMMA DriverFrame ==
    ASSUME IInv, NEW l \in InPass \union {"prepare"}, Driver(l), NoFault \/ Fault, busy' = busy
    PROVE  /\ DetType' /\ DetInv' /\ NameInv' /\ MediaIdNamesOneCard' /\ CardType' /\ CardInv'
           /\ SureInv' /\ io.at = l /\ det.at = "idle" /\ phase = "installed"
           /\ UNCHANGED <<det, info, mDmaUsable, names, blurred, unsure>>
<1>1. io.at = l /\ l # "idle" /\ det.at = "idle" /\ UNCHANGED <<detVars, names, blurred, unsure, supply, seated, card>>
  BY DEF Driver, InPass
<1>2. count' \in Counts /\ count'.calls = count.calls /\ count.calls \in Nat
  BY FaultFacts DEF IInv, TypeInv, CardType, Counts
<1>3. phase = "installed"
  BY <1>1 DEF IInv, DetInv
<1>4. DetType' /\ DetInv' /\ NameInv' /\ MediaIdNamesOneCard'
  <2>1. count'.calls >= count.calls
    BY <1>2
  <2> QED BY <1>1, <1>2, <1>3, <2>1, DetSame
<1>5. CardType' /\ CardInv'
  BY <1>1, <1>2 DEF IInv, TypeInv, CardType, CardInv, detVars
<1>6. SureInv'
  BY <1>1 DEF IInv, SureInv, Current, detVars
<1> QED BY <1>1, <1>3, <1>4, <1>5, <1>6 DEF detVars

\* A pass is not empty and not longer than what is left.
LEMMA PassFacts ==
    ASSUME IInv, io.at # "idle"
    PROVE  /\ Pass(io.left) \in 1 .. io.left /\ Pass(io.left) \in 1 .. MaxPass
           /\ io.at \in InPass => io.n \in 1 .. io.left /\ io.n \in 1 .. MaxPass
           /\ io.left \in 1 .. MaxLen /\ io.lba \in Nat /\ io.pos \in Nat /\ io.n \in Nat
           /\ io.todo \in Nat /\ io.todo <= io.n /\ io.op \in {"read", "write"} /\ io.pos <= io.lba
<1>1. /\ io.left \in 1 .. MaxLen /\ io.lba \in Nat /\ io.pos \in Nat /\ io.n \in Nat
      /\ io.todo \in Nat /\ io.todo <= io.n /\ io.op \in {"read", "write"} /\ io.pos <= io.lba
  BY Sizes DEF IInv, TypeInv, Calls, IoInv
<1>2. Pass(io.left) \in 1 .. io.left /\ Pass(io.left) \in 1 .. MaxPass
  BY <1>1, Sizes DEF Pass
<1> QED BY <1>1, <1>2 DEF IInv, IoInv

\* An error return: what it leaves in the controller is noted.
LEMMA ErrorReturn ==
    ASSUME IInv, NEW l \in InPass \union {"prepare"}, Driver(l), NoFault \/ Fault, busy' = busy,
           NEW why, Returns("ERROR", why), why # "short" \/ unsure \/ late,
           HwType', moved' \in Seq(Units), late' \/ Quiet', dma' \in {dma, Disarmed}
    PROVE  IInv'
<1>1. /\ DetType' /\ DetInv' /\ NameInv' /\ MediaIdNamesOneCard' /\ CardType' /\ CardInv'
      /\ SureInv' /\ io.at = l /\ det.at = "idle"
      /\ UNCHANGED <<det, info, mDmaUsable, names, blurred, unsure>>
  BY DriverFrame
<1>2. io' = NoCall /\ result'.status = "ERROR" /\ result'.why = why /\ (result'.sure <=> ~unsure /\ ~late)
  BY DEF Returns
<1>3. io' \in Calls /\ io'.at = "idle" /\ io'.todo = 0 /\ io'.n = 0
  BY <1>2, Nothings DEF NoCall
<1>4. IoInv' /\ StartInv'
  BY <1>2, <1>3 DEF IoInv, StartInv, InPass
<1>5. DmaInv'
  <2>1. ~mDmaUsable => ~dma'.on
    BY DEF IInv, DmaInv, Disarmed
  <2>2. ~(io.at \in {"pio", "done", "stop", "data", "cmd", "prepare"})'
    BY <1>3
  <2> QED BY <1>1, <1>3, <2>1, <2>2 DEF DmaInv, BetweenPasses, Quiet
<1>6. FlowInv'
  BY <1>3 DEF FlowInv
<1>7. ToldInv'
  BY <1>1, <1>2, <1>3 DEF ToldInv, NeverShort, SuccessIsReal
<1>8. HistType'
  BY <1>1 DEF IInv, TypeInv, HistType
<1> QED BY <1>1, <1>3, <1>4, <1>5, <1>6, <1>7, <1>8 DEF IInv, TypeInv

\* A pass has moved its blocks: the call returns or prepares the next.
LEMMA NextPassStep ==
    ASSUME IInv, NEW l \in {"data", "done", "stop"}, Driver(l), count' = count, busy' = busy, NextPass,
           UNCHANGED <<held, hw, fifo, resp, late, moved>>, rints' \subseteq rints,
           dma' \in {dma, Disarmed}, ~dma'.on, held = NoCommand,
           late \/ (Len(moved) = io.pos + io.n /\ InOrder /\ hw = NoData)
    PROVE  IInv'
<1>1. /\ DetType' /\ DetInv' /\ NameInv' /\ MediaIdNamesOneCard' /\ CardType' /\ CardInv'
      /\ SureInv' /\ io.at = l /\ det.at = "idle"
      /\ UNCHANGED <<det, info, mDmaUsable, names, blurred, unsure>>
  BY DriverFrame DEF NoFault, InPass
<1>2. HwType' /\ HistType'
  BY <1>1, Nothings DEF IInv, TypeInv, HwType, HistType
<1>3. /\ io.at # "idle" /\ io.at \in InPass /\ io.n \in 1 .. io.left /\ io.n \in 1 .. MaxPass
      /\ io.left \in 1 .. MaxLen /\ io.lba \in Nat /\ io.pos \in Nat
      /\ io.op \in {"read", "write"} /\ io.pos <= io.lba
  <2>1. io.at # "idle" /\ io.at \in InPass
    BY <1>1 DEF InPass
  <2> QED BY <2>1, PassFacts
<1>4. moved \in Seq(Units) /\ Len(moved) \in Nat
  BY DEF IInv, TypeInv, HistType
<1>5. CASE io.left = io.n /\ Returns("SUCCESS", "none")
  <2>1. /\ io' = NoCall /\ result'.why = "none" /\ (result'.sure <=> ~unsure /\ ~late)
        /\ result'.lba = io.lba - io.pos /\ result'.len = io.pos + io.left
    BY <1>5 DEF Returns
  <2>2. io' \in Calls /\ io'.at = "idle" /\ io'.todo = 0 /\ io'.n = 0
    BY <2>1, Nothings DEF NoCall
  <2>3. IoInv' /\ StartInv' /\ DmaInv'
    BY <2>1, <2>2 DEF IoInv, StartInv, DmaInv, InPass, BetweenPasses
  <2>4. FlowInv'
    BY <2>2 DEF FlowInv, Quiet
  <2>5. ToldInv'
    <3>1. SuccessIsReal'
      <4> SUFFICES ASSUME ~unsure, ~late
                   PROVE  moved = [i \in 1 .. io.pos + io.n |-> <<Current, io.lba - io.pos + i - 1>>]
        BY <1>1, <1>5, <2>1 DEF SuccessIsReal, Current
      <4>1. Len(moved) = io.pos + io.n /\ \A i \in 1 .. Len(moved) : moved[i] = <<Current, io.lba - io.pos + i - 1>>
        BY DEF InOrder, Wanted
      <4>2. moved = [i \in 1 .. Len(moved) |-> moved[i]]
        BY <1>4
      <4> QED BY <4>1, <4>2
    <3> QED BY <1>1, <2>1, <2>2, <3>1 DEF ToldInv, NeverShort
  <2> QED BY <1>1, <1>2, <2>2, <2>3, <2>4, <2>5 DEF IInv, TypeInv
<1>6. CASE /\ io.left # io.n /\ result' = result
           /\ io' = [io EXCEPT !.at = "prepare", !.lba = @ + io.n, !.pos = @ + io.n,
                               !.left = @ - io.n, !.n = 0, !.todo = 0]
  <2>1. io.lba + io.n \in Nat /\ io.pos + io.n \in Nat /\ io.left - io.n \in 0 .. MaxLen /\ io.left - io.n >= 1
    BY <1>3, <1>6, Sizes
  <2>2. /\ io' \in Calls /\ io'.at = "prepare" /\ io'.lba = io.lba + io.n /\ io'.pos = io.pos + io.n
        /\ io'.left = io.left - io.n /\ io'.n = 0 /\ io'.todo = 0 /\ io'.op = io.op
    <3>1. io \in Calls /\ 0 \in 0 .. MaxPass
      BY Sizes DEF IInv, TypeInv
    <3> QED BY <1>6, <2>1, <3>1 DEF Calls
  <2>3. io'.lba - io'.pos = io.lba - io.pos /\ io'.pos <= io'.lba /\ io'.pos > 0
    BY <1>3, <2>2
  <2>4. IoInv' /\ StartInv' /\ DmaInv'
    BY <1>1, <1>3, <2>1, <2>2, <2>3 DEF IoInv, StartInv, DmaInv, InPass, BetweenPasses
  <2>5. FlowInv'
    <3>1. InOrder => InOrder'
      BY <1>1, <2>3 DEF InOrder, Wanted, Current
    <3> QED BY <2>2, <3>1 DEF FlowInv, Quiet
  <2>6. ToldInv'
    BY <1>1, <1>3, <1>6 DEF IInv, ToldInv, NeverShort, SuccessIsReal, Current
  <2> QED BY <1>1, <1>2, <2>2, <2>4, <2>5, <2>6 DEF IInv, TypeInv
<1> QED BY <1>5, <1>6 DEF NextPass

\* Data over: a transfer of several blocks waits for CMD12.
LEMMA DataOverStep ==
    ASSUME IInv, NEW l \in {"data", "done"}, Driver(l), count' = count, busy' = busy, DataOver,
           UNCHANGED <<held, hw, fifo, resp, late, moved>>, rints' = rints \ {"DTO"},
           dma' \in {dma, Disarmed}, ~dma'.on, held = NoCommand,
           late \/ (Len(moved) = io.pos + io.n /\ InOrder /\ Stage /\ "DTO" \in rints)
    PROVE  IInv'
<1>1. /\ DetType' /\ DetInv' /\ NameInv' /\ MediaIdNamesOneCard' /\ CardType' /\ CardInv'
      /\ SureInv' /\ io.at = l /\ det.at = "idle"
      /\ UNCHANGED <<det, info, mDmaUsable, names, blurred, unsure>>
  BY DriverFrame DEF NoFault, InPass
<1>2. io.at # "idle" /\ io.at \in InPass /\ io.op \in {"read", "write"} /\ io.n \in 1 .. io.left /\ io.left \in Nat
  <2>1. io.at # "idle" /\ io.at \in InPass
    BY <1>1 DEF InPass
  <2> QED BY <2>1, PassFacts
<1>3. Stage /\ "DTO" \in rints => hw = NoData \/ (hw.op = "stop" /\ "ACD" \notin rints /\ io.n > 1)
  BY DEF Stage
<1>4. CASE io.n > 1 /\ io' = [io EXCEPT !.at = "stop"] /\ UNCHANGED result
  <2>1. /\ io' \in Calls /\ io'.at = "stop" /\ io'.op = io.op /\ io'.lba = io.lba /\ io'.pos = io.pos
        /\ io'.left = io.left /\ io'.n = io.n /\ io'.todo = io.todo
    BY <1>4 DEF IInv, TypeInv, Calls, InPass
  <2>2. IoInv' /\ StartInv' /\ DmaInv'
    BY <1>1, <1>2, <2>1 DEF IInv, IoInv, StartInv, DmaInv, InPass, BetweenPasses, Pass
  <2>3. FlowInv'
    <3>1. InOrder => InOrder'
      BY <1>1, <2>1 DEF InOrder, Wanted, Current
    <3>2. late \/ StopInv'
      BY <1>3, <2>1, <3>1 DEF StopInv
    <3> QED BY <2>1, <3>2 DEF FlowInv
  <2>4. ToldInv'
    BY <1>1, <1>2, <1>4 DEF IInv, ToldInv, NeverShort, SuccessIsReal, Current
  <2>5. HwType' /\ HistType'
    BY <1>1, Nothings DEF IInv, TypeInv, HwType, HistType
  <2> QED BY <1>1, <2>1, <2>2, <2>3, <2>4, <2>5 DEF IInv, TypeInv
<1>5. CASE ~(io.n > 1) /\ NextPass
  <2>1. late \/ (Len(moved) = io.pos + io.n /\ InOrder /\ hw = NoData)
    BY <1>3, <1>5
  <2>2. rints' \subseteq rints /\ l \in {"data", "done", "stop"}
    OBVIOUS
  <2> QED BY <1>5, <2>1, <2>2, NextPassStep
<1> QED BY <1>4, <1>5 DEF DataOver

\* The flow does not depend on where the driver polls.
LEMMA SameFlow ==
    ASSUME UNCHANGED <<moved, fifo, rints, held, hw, dma, unsure, mDmaUsable, names, info>>,
           io'.op = io.op, io'.lba = io.lba, io'.pos = io.pos, io'.n = io.n, io'.todo = io.todo
    PROVE  (Stage' <=> Stage) /\ (Flow' <=> Flow) /\ (InOrder' <=> InOrder)
BY Zenon DEF Stage, Flow, InOrder, Wanted, CardMoved, Current

\* MshcRecover.
LEMMA RecoverFacts ==
    ASSUME HwType, MshcRecover, dma' \in {dma, Disarmed}, resp' = resp
    PROVE  HwType' /\ (late' \/ Quiet')
<1>1. <<>> \in Seq(Units) /\ Len(<<>>) <= 1
  OBVIOUS
<1> QED BY <1>1, Nothings DEF HwType, MshcRecover, Quiet

\* MshcPrepareTransfer.
LEMMA MshcPrepareTransferStep == IInv /\ MshcPrepareTransfer => IInv'
<1> SUFFICES ASSUME IInv, MshcPrepareTransfer PROVE IInv'
  OBVIOUS
<1> DEFINE n == Pass(io.left)
<1>0. /\ Driver("prepare") /\ fifo' = <<>> /\ rints' = {} /\ (NoFault \/ Fault)
      /\ late' = (late /\ (io.pos > 0 \/ held # NoCommand \/ hw # NoData))
      /\ UNCHANGED <<resp, held, hw, busy, moved>>
      /\ \/ /\ dma' = (IF mDmaUsable THEN [on |-> TRUE, n |-> n] ELSE dma) /\ result' = result
            /\ io' = [io EXCEPT !.at = "send", !.n = n, !.todo = n]
         \/ dma' = dma /\ Returns("ERROR", "map")
  BY DEF MshcPrepareTransfer
<1>1. /\ DetType' /\ DetInv' /\ NameInv' /\ MediaIdNamesOneCard' /\ CardType' /\ CardInv'
      /\ SureInv' /\ io.at = "prepare" /\ det.at = "idle"
      /\ UNCHANGED <<det, info, mDmaUsable, names, blurred, unsure>>
  BY <1>0, DriverFrame
<1>2. /\ n \in 1 .. io.left /\ n \in 0 .. MaxPass /\ n >= 1 /\ io.left \in 1 .. MaxLen
      /\ io.lba \in Nat /\ io.pos \in Nat /\ io.op \in {"read", "write"} /\ io.pos <= io.lba
  BY <1>1, PassFacts, Sizes
<1>3. dma' \in [on : BOOLEAN, n : 0 .. MaxPass]
  <2>1. [on |-> TRUE, n |-> n] \in [on : BOOLEAN, n : 0 .. MaxPass]
    BY <1>2
  <2>2. dma' = dma \/ dma' = [on |-> TRUE, n |-> n]
    BY <1>0
  <2> QED BY <2>1, <2>2 DEF IInv, TypeInv, HwType
<1>4. late' \in BOOLEAN /\ (~late' => Quiet /\ (late => io.pos = 0))
  <2>1. CASE late /\ (io.pos > 0 \/ held # NoCommand \/ hw # NoData)
    BY <1>0, <2>1
  <2>2. CASE ~(late /\ (io.pos > 0 \/ held # NoCommand \/ hw # NoData))
    <3>1. late' = FALSE
      BY <1>0, <2>2
    <3>2. Quiet
      BY <1>1, <2>2 DEF IInv, FlowInv, Quiet
    <3>3. late => io.pos = 0
      BY <1>2, <2>2
    <3> QED BY <3>1, <3>2, <3>3
  <2> QED BY <2>1, <2>2
<1>5. HwType' /\ HistType'
  <2>1. <<>> \in Seq(Units) /\ Len(<<>>) <= 1
    OBVIOUS
  <2> QED BY <1>0, <1>1, <1>3, <1>4, <2>1 DEF IInv, TypeInv, HwType, HistType
<1>6. CASE dma' = dma /\ Returns("ERROR", "map")
  <2>1. late' \/ Quiet'
    BY <1>0, <1>4 DEF Quiet
  <2>2. moved' \in Seq(Units)
    BY <1>5 DEF HistType
  <2> QED BY <1>0, <1>5, <1>6, <2>1, <2>2, ErrorReturn
<1>7. CASE /\ dma' = (IF mDmaUsable THEN [on |-> TRUE, n |-> n] ELSE dma) /\ result' = result
           /\ io' = [io EXCEPT !.at = "send", !.n = n, !.todo = n]
  <2>1. /\ io' \in Calls /\ io'.at = "send" /\ io'.op = io.op /\ io'.lba = io.lba /\ io'.pos = io.pos
        /\ io'.left = io.left /\ io'.n = n /\ io'.todo = n
    BY <1>2, <1>7 DEF IInv, TypeInv, Calls, InPass
  <2>2. mDmaUsable => dma'.n = n
    BY <1>7
  <2>3. IoInv'
    BY <1>2, <2>1 DEF IoInv, Pass
  <2>4. StartInv'
    BY <1>1, <2>1, <2>2 DEF StartInv
  <2>5. DmaInv'
    <3>1. ~mDmaUsable => ~dma'.on
      BY <1>7 DEF IInv, DmaInv
    <3> QED BY <1>1, <2>1, <3>1 DEF DmaInv, BetweenPasses
  <2>6. FlowInv'
    <3>1. ~late' => Len(moved) = io.pos /\ InOrder
      <4>1. CASE ~late
        BY <1>1, <4>1 DEF IInv, FlowInv
      <4>2. CASE late /\ ~late'
        <5>1. moved = <<>> /\ io.pos = 0
          BY <1>1, <1>4, <4>2 DEF IInv, StartInv
        <5> QED BY <5>1 DEF InOrder
      <4> QED BY <4>1, <4>2
    <3>2. InOrder => InOrder'
      BY <1>0, <1>1, <2>1 DEF InOrder, Wanted, Current
    <3>3. ~late' => Fresh' /\ Quiet'
      BY <1>0, <1>1, <1>4, <2>1, <2>2, <3>1, <3>2 DEF Fresh, Quiet
    <3> QED BY <1>0, <2>1, <3>3 DEF FlowInv
  <2>7. ToldInv'
    BY <1>0, <1>1, <1>7 DEF IInv, ToldInv, NeverShort, SuccessIsReal, Current
  <2> QED BY <1>1, <1>5, <2>1, <2>3, <2>4, <2>5, <2>6, <2>7 DEF IInv, TypeInv
<1> QED BY <1>0, <1>6, <1>7

\* MshcSendCmd.
LEMMA MshcSendCmdStep == IInv /\ MshcSendCmd => IInv'
<1> SUFFICES ASSUME IInv, MshcSendCmd PROVE IInv'
  OBVIOUS
<1> DEFINE c == [op |-> io.op, arg |-> CmdArgument, n |-> io.n]
<1>0. /\ Driver("send") /\ io' = [io EXCEPT !.at = "cmd"]
      /\ UNCHANGED <<dma, resp, busy, count, moved, result>>
      /\ \/ /\ held' = c /\ hw' = NoData /\ fifo' = <<>> /\ rints' = {}
            /\ late' = (late /\ (io.pos > 0 \/ moved # <<>>))
         \/ held = NoCommand /\ held' = c /\ rints' = {} /\ UNCHANGED <<hw, fifo, late>>
         \/ held # NoCommand /\ rints' = {"HLE"} /\ UNCHANGED <<held, hw, fifo, late>>
  BY DEF MshcSendCmd
<1>1. /\ DetType' /\ DetInv' /\ NameInv' /\ MediaIdNamesOneCard' /\ CardType' /\ CardInv'
      /\ SureInv' /\ io.at = "send" /\ det.at = "idle"
      /\ UNCHANGED <<det, info, mDmaUsable, names, blurred, unsure>>
  BY <1>0, DriverFrame DEF NoFault, InPass
<1>2. /\ io.n \in 1 .. io.left /\ io.n \in 0 .. MaxPass /\ io.left \in 1 .. MaxLen
      /\ io.lba \in Nat /\ io.pos \in Nat /\ io.op \in {"read", "write"} /\ io.pos <= io.lba
  BY <1>1, PassFacts, Sizes DEF InPass
<1>3. c \in Commands
  <2>1. \A x, y \in Nat : x * y \in Nat
    BY SMT
  <2>2. CmdArgument \in Nat
    BY <1>2, <2>1, Sizes DEF CmdArgument
  <2> QED BY <1>2, <2>2 DEF Commands
<1>4. /\ io' \in Calls /\ io'.at = "cmd" /\ io'.op = io.op /\ io'.lba = io.lba /\ io'.pos = io.pos
      /\ io'.left = io.left /\ io'.n = io.n /\ io'.todo = io.todo
  BY <1>0 DEF IInv, TypeInv, Calls, InPass
<1>5. MyCommand' = c
  BY <1>1, <1>4 DEF MyCommand, CmdArgument
<1> HIDE DEF c
<1>6. late' \in BOOLEAN /\ (~late' => ~late \/ (hw' = NoData /\ held' = c /\ fifo' = <<>> /\ rints' = {}
                                               /\ io.pos = 0 /\ moved = <<>>))
  <2>0. late \in BOOLEAN
    BY DEF IInv, TypeInv, HwType
  <2>1. CASE UNCHANGED late
    BY <2>0, <2>1
  <2>2. CASE /\ held' = c /\ hw' = NoData /\ fifo' = <<>> /\ rints' = {}
             /\ late' = (late /\ (io.pos > 0 \/ moved # <<>>))
    <3>1. CASE late /\ (io.pos > 0 \/ moved # <<>>)
      BY <2>0, <2>2, <3>1
    <3>2. CASE ~(late /\ (io.pos > 0 \/ moved # <<>>))
      <4>1. late' = FALSE
        BY <2>2, <3>2
      <4>2. late => io.pos = 0 /\ moved = <<>>
        BY <1>2, <3>2
      <4> QED BY <2>2, <4>1, <4>2
    <3> QED BY <3>1, <3>2
  <2> QED BY <1>0, <2>1, <2>2
<1>7. HwType' /\ HistType'
  <2>1. <<>> \in Seq(Units) /\ Len(<<>>) <= 1
    OBVIOUS
  <2>2. rints' \subseteq Bits
    BY <1>0 DEF Bits
  <2> QED BY <1>0, <1>1, <1>3, <1>6, <2>1, <2>2, Nothings DEF IInv, TypeInv, HwType, HistType
<1>8. IoInv' /\ StartInv'
  BY <1>1, <1>2, <1>4 DEF IInv, IoInv, StartInv, InPass, Pass
<1>9. DmaInv'
  BY <1>0, <1>1, <1>4 DEF IInv, DmaInv, BetweenPasses
<1>10. FlowInv'
  <2>1. InOrder => InOrder'
    BY <1>0, <1>1, <1>4 DEF InOrder, Wanted, Current
  <2>2. ASSUME ~late' PROVE held' = c /\ hw' = NoData /\ rints' = {} /\ Fresh'
    <3>1. CASE ~late
      <4>1. Quiet /\ Fresh
        BY <1>1, <3>1 DEF IInv, FlowInv
      <4>2. held' = c /\ hw' = NoData /\ rints' = {} /\ fifo' = <<>>
        BY <1>0, <4>1 DEF Quiet, Fresh
      <4> QED BY <1>0, <1>1, <1>4, <2>1, <4>1, <4>2 DEF Fresh
    <3>2. CASE late
      <4>1. /\ hw' = NoData /\ held' = c /\ fifo' = <<>> /\ rints' = {} /\ io.pos = 0 /\ moved = <<>>
        BY <1>6, <2>2, <3>2
      <4>2. io.todo = io.n /\ (mDmaUsable => dma.n = io.n)
        BY <1>1, <4>1 DEF IInv, StartInv, IoInv
      <4>3. InOrder' /\ Len(moved') = io'.pos
        BY <1>0, <1>4, <4>1 DEF InOrder
      <4> QED BY <1>0, <1>1, <1>4, <4>1, <4>2, <4>3 DEF Fresh
    <3> QED BY <3>1, <3>2
  <2>3. ~late' => CmdInv'
    BY <1>5, <2>2 DEF CmdInv
  <2> QED BY <1>4, <2>3 DEF FlowInv
<1>11. ToldInv'
  BY <1>0, <1>1 DEF IInv, ToldInv, NeverShort, SuccessIsReal, Current
<1> QED BY <1>1, <1>4, <1>7, <1>8, <1>9, <1>10, <1>11 DEF IInv, TypeInv

\* The driver goes on polling, or from one poll to the next.
LEMMA PollOn ==
    ASSUME IInv, NEW l \in InPass, Driver(l), UNCHANGED <<dma, resp, busy, count, result>>,
           io' \in Calls, io'.op = io.op, io'.lba = io.lba, io'.pos = io.pos, io'.n = io.n,
           io'.left = io.left, io'.todo <= io.n, io'.at \in {"data", "pio", "done"},
           UNCHANGED <<held, hw, rints, late>>, held = NoCommand,
           fifo' \in Seq(Units), Len(fifo') <= 1, moved' \in Seq(Units),
           io'.at \in {"pio", "done"} => ~mDmaUsable,
           io'.at \in {"data", "pio"} /\ ~mDmaUsable => io'.todo >= 1,
           io'.at = "done" => io'.todo = 0,
           io'.at = "pio" => io'.seen = rints,
           late \/ (Stage' /\ Flow')
    PROVE  IInv'
<1>1. /\ DetType' /\ DetInv' /\ NameInv' /\ MediaIdNamesOneCard' /\ CardType' /\ CardInv'
      /\ SureInv' /\ io.at = l /\ det.at = "idle"
      /\ UNCHANGED <<det, info, mDmaUsable, names, blurred, unsure>>
  BY DriverFrame DEF NoFault
<1>2. io.at \in InPass /\ io.at # "idle"
  BY <1>1 DEF InPass
<1>3. /\ io.n \in 1 .. io.left /\ io.n \in 1 .. MaxPass /\ io.left \in 1 .. MaxLen
      /\ io.op \in {"read", "write"} /\ io.pos <= io.lba
  BY <1>2, PassFacts
<1>4. IoInv' /\ StartInv'
  BY <1>1, <1>2, <1>3 DEF IInv, IoInv, StartInv, InPass, Pass
<1>5. DmaInv'
  BY <1>1 DEF IInv, DmaInv, BetweenPasses
<1>6. FlowInv'
  BY <1>1 DEF FlowInv
<1>7. ToldInv'
  BY <1>1, <1>2 DEF IInv, ToldInv, NeverShort, SuccessIsReal, Current
<1>8. HwType' /\ HistType'
  BY <1>1 DEF IInv, TypeInv, HwType, HistType
<1> QED BY <1>1, <1>4, <1>5, <1>6, <1>7, <1>8 DEF IInv, TypeInv

\* The answer to the command.
LEMMA CmdAnsweredStep == IInv /\ CmdAnswered => IInv'
<1> SUFFICES ASSUME IInv, CmdAnswered PROVE IInv'
  OBVIOUS
<1>0. Driver("cmd") /\ UNCHANGED <<dma, resp, busy, count, moved>> /\ io.at = "cmd" /\ NoFault
  BY DEF CmdAnswered, Driver, NoFault
<1>1. HwType /\ moved' \in Seq(Units) /\ "cmd" \in InPass /\ unsure \in BOOLEAN
  BY <1>0 DEF IInv, TypeInv, HistType, InPass
<1>2. CASE /\ rints \intersect {"RTO", "RERR"} # {} /\ rints' = {} /\ Returns("ERROR", "command")
           /\ late' = (late \/ hw # NoData) /\ UNCHANGED <<held, hw, fifo>>
  <2>1. held = NoCommand
    BY <1>0, <1>2 DEF IInv, DmaInv
  <2>2. late' \in BOOLEAN /\ (late' \/ Quiet')
    <3>1. CASE late \/ hw # NoData
      BY <1>2, <3>1
    <3>2. CASE ~(late \/ hw # NoData)
      <4>1. late' = FALSE
        BY <1>2, <3>2
      <4> QED BY <1>2, <2>1, <3>2, <4>1 DEF Quiet
    <3> QED BY <3>1, <3>2
  <2>3. HwType'
    BY <1>0, <1>1, <1>2, <2>2 DEF HwType
  <2> QED BY <1>0, <1>1, <1>2, <2>2, <2>3, ErrorReturn
<1>3. CASE MshcRecover /\ Returns("ERROR", "rejected")
  <2>1. HwType' /\ (late' \/ Quiet')
    BY <1>0, <1>1, <1>3, RecoverFacts
  <2> QED BY <1>0, <1>1, <1>3, <2>1, ErrorReturn
<1>4. CASE /\ rints \intersect {"CDONE", "RTO", "RERR"} = {"CDONE"}
           /\ io' = [io EXCEPT !.at = "data"] /\ UNCHANGED <<result, held, hw, fifo, rints, late>>
  <2>1. /\ io' \in Calls /\ io'.at = "data" /\ io'.op = io.op /\ io'.lba = io.lba /\ io'.pos = io.pos
        /\ io'.left = io.left /\ io'.n = io.n /\ io'.todo = io.todo
    BY <1>4 DEF IInv, TypeInv, Calls, InPass
  <2>2. io.n \in Nat /\ io.n >= 1 /\ io.todo = io.n
    <3>1. io.n \in 1 .. io.left /\ io.left \in Nat
      BY <1>0, PassFacts DEF InPass
    <3> QED BY <1>0, <3>1 DEF IInv, IoInv
  <2>3. held = NoCommand
    BY <1>0, <1>4 DEF IInv, DmaInv
  <2>4. late \/ (Stage /\ Flow)
    <3>1. "CDONE" \in rints /\ "RTO" \notin rints /\ "RERR" \notin rints
      BY <1>4
    <3> QED BY <1>0, <3>1 DEF IInv, FlowInv, CmdInv
  <2>5. UNCHANGED <<unsure, mDmaUsable, names, info>>
    BY <1>0 DEF Driver, detVars
  <2>6. late \/ (Stage' /\ Flow')
    BY <1>0, <1>4, <2>1, <2>4, <2>5, SameFlow
  <2>7. fifo' \in Seq(Units) /\ Len(fifo') <= 1 /\ io'.todo <= io.n /\ io'.todo >= 1
    BY <1>1, <1>4, <2>1, <2>2 DEF HwType
  <2> QED BY <1>0, <1>1, <1>4, <2>1, <2>3, <2>6, <2>7, PollOn
<1> QED BY <1>2, <1>3, <1>4 DEF CmdAnswered

\* No answer in time.
LEMMA CmdTimesOutStep == IInv /\ CmdTimesOut => IInv'
<1> SUFFICES ASSUME IInv, CmdTimesOut PROVE IInv'
  OBVIOUS
<1>0. /\ Driver("cmd") /\ late' = TRUE /\ Returns("ERROR", "timeout") /\ NoFault
      /\ UNCHANGED <<dma, rints, fifo, resp, held, hw, busy, count, moved>> /\ "cmd" \in InPass
  BY DEF CmdTimesOut, NoFault, InPass
<1>1. HwType' /\ moved' \in Seq(Units)
  BY <1>0 DEF IInv, TypeInv, HwType, HistType
<1> QED BY <1>0, <1>1, ErrorReturn

\* MshcFinishDma.
LEMMA MshcFinishDmaStep == IInv /\ MshcFinishDma => IInv'
<1> SUFFICES ASSUME IInv, MshcFinishDma PROVE IInv'
  OBVIOUS
<1>0. /\ mDmaUsable /\ Driver("data") /\ dma' = Disarmed /\ UNCHANGED <<resp, busy, count, moved>>
      /\ NoFault /\ io.at = "data" /\ "data" \in InPass
  BY DEF MshcFinishDma, NoFault, Driver, InPass
<1>1. HwType /\ moved' \in Seq(Units) /\ ~dma'.on /\ Len(moved) \in Nat /\ io.pos \in Nat
  BY <1>0 DEF IInv, TypeInv, HistType, Disarmed, Calls
<1>2. CASE MshcRecover /\ Returns("ERROR", "data")
  <2>1. HwType' /\ (late' \/ Quiet')
    BY <1>0, <1>1, <1>2, RecoverFacts
  <2> QED BY <1>0, <1>1, <1>2, <2>1, ErrorReturn
<1>3. CASE /\ "DTO" \in rints /\ rints' = rints \ {"DTO"} /\ DataOver
           /\ UNCHANGED <<held, hw, fifo, late>>
  <2>1. held = NoCommand
    BY <1>0 DEF IInv, DmaInv
  <2>2. late \/ (Stage /\ Flow)
    BY <1>0 DEF IInv, FlowInv
  <2>3. Stage /\ Flow => Len(moved) = io.pos + io.n /\ InOrder
    <3> SUFFICES ASSUME Stage, Flow PROVE Len(moved) = io.pos + io.n /\ InOrder
      OBVIOUS
    <3>1. CardMoved = io.n /\ fifo = <<>> /\ InOrder
      BY <1>0, <1>3 DEF Stage, Flow
    <3>2. Len(moved) - io.pos = io.n
      <4>1. Len(fifo) = 0
        BY <3>1
      <4> QED BY <1>1, <3>1, <4>1 DEF CardMoved
    <3>3. io.n \in Nat
      BY <1>0, PassFacts
    <3> QED BY <1>1, <3>1, <3>2, <3>3
  <2> QED BY <1>0, <1>1, <1>3, <2>1, <2>2, <2>3, DataOverStep
<1> QED BY <1>2, <1>3 DEF MshcFinishDma

\* The status is read before the FIFO.
LEMMA PioStatusStep == IInv /\ PioStatus => IInv'
<1> SUFFICES ASSUME IInv, PioStatus PROVE IInv'
  OBVIOUS
<1>0. /\ ~mDmaUsable /\ Driver("data") /\ UNCHANGED <<dma, resp, busy, count, moved>>
      /\ NoFault /\ io.at = "data" /\ "data" \in InPass
  BY DEF PioStatus, NoFault, Driver, InPass
<1>1. HwType /\ moved' \in Seq(Units)
  BY <1>0 DEF IInv, TypeInv, HistType
<1>2. CASE MshcRecover /\ Returns("ERROR", "data")
  <2>1. HwType' /\ (late' \/ Quiet')
    BY <1>0, <1>1, <1>2, RecoverFacts
  <2> QED BY <1>0, <1>1, <1>2, <2>1, ErrorReturn
<1>3. CASE /\ io' = [io EXCEPT !.at = "pio", !.seen = rints]
           /\ UNCHANGED <<result, held, hw, fifo, rints, late>>
  <2>1. /\ io' \in Calls /\ io'.at = "pio" /\ io'.op = io.op /\ io'.lba = io.lba /\ io'.pos = io.pos
        /\ io'.left = io.left /\ io'.n = io.n /\ io'.todo = io.todo /\ io'.seen = rints
    BY <1>1, <1>3 DEF IInv, TypeInv, Calls, InPass, HwType
  <2>2. held = NoCommand
    BY <1>0 DEF IInv, DmaInv
  <2>3. late \/ (Stage /\ Flow)
    BY <1>0 DEF IInv, FlowInv
  <2>4. UNCHANGED <<unsure, mDmaUsable, names, info>>
    BY <1>0 DEF Driver, detVars
  <2>5. late \/ (Stage' /\ Flow')
    BY <1>0, <1>3, <2>1, <2>3, <2>4, SameFlow
  <2>6. fifo' \in Seq(Units) /\ Len(fifo') <= 1 /\ io'.todo <= io.n /\ io'.todo >= 1
    BY <1>0, <1>1, <1>3, <2>1 DEF HwType, IInv, IoInv
  <2> QED BY <1>0, <1>1, <1>3, <2>1, <2>2, <2>5, <2>6, PollOn
<1> QED BY <1>2, <1>3 DEF PioStatus

\* A poll takes k blocks.
LEMMA TakenFacts ==
    ASSUME IInv, io.at = "pio", NEW k \in {0, 1}, io' = Taken(k)
    PROVE  /\ io' \in Calls /\ io'.op = io.op /\ io'.lba = io.lba /\ io'.pos = io.pos
           /\ io'.left = io.left /\ io'.n = io.n /\ io'.todo = io.todo - k
           /\ io'.at = IF io.todo = k THEN "done" ELSE "data"
           /\ ~mDmaUsable /\ held = NoCommand /\ io.todo \in Nat /\ io.todo >= 1 /\ io.todo <= io.n
           /\ io.n \in Nat /\ io'.todo <= io.n /\ io.pos \in Nat
           /\ io'.at = "done" => io'.todo = 0
           /\ io'.at = "data" => io'.todo >= 1
<1>1. ~mDmaUsable /\ held = NoCommand
  BY DEF IInv, DmaInv
<1>2. io.todo \in 1 .. MaxPass /\ io.n \in Nat /\ io.todo <= io.n /\ io.pos \in Nat
  BY <1>1 DEF IInv, TypeInv, IoInv, Calls
<1>3. io.todo - k \in 0 .. MaxPass
  BY <1>2, Sizes
<1>4. io' \in Calls
  BY <1>3 DEF Taken, IInv, TypeInv, Calls, InPass
<1>5. /\ io'.op = io.op /\ io'.lba = io.lba /\ io'.pos = io.pos
      /\ io'.left = io.left /\ io'.n = io.n /\ io'.todo = io.todo - k
      /\ io'.at = IF io.todo = k THEN "done" ELSE "data"
  BY DEF Taken, IInv, TypeInv, Calls
<1> QED BY <1>1, <1>2, <1>4, <1>5

\* A poll that takes nothing.
LEMMA TakesNothing ==
    ASSUME IInv, Driver("pio"), io' = Taken(0), UNCHANGED <<dma, resp, busy, count>>,
           UNCHANGED <<result, held, hw, fifo, rints, late, moved>>
    PROVE  IInv'
<1>0. io.at = "pio" /\ "pio" \in InPass
  BY DEF Driver, InPass
<1>1. /\ io' \in Calls /\ io'.op = io.op /\ io'.lba = io.lba /\ io'.pos = io.pos
      /\ io'.left = io.left /\ io'.n = io.n /\ io'.todo = io.todo
      /\ io'.at \in {"done", "data"}
      /\ ~mDmaUsable /\ held = NoCommand /\ io'.todo <= io.n
      /\ io'.at = "done" => io'.todo = 0
      /\ io'.at = "data" => io'.todo >= 1
  BY <1>0, TakenFacts
<1>2. late \/ (Stage /\ Flow)
  BY <1>0 DEF IInv, FlowInv
<1>3. UNCHANGED <<unsure, mDmaUsable, names, info>>
  BY DEF Driver, detVars
<1>4. late \/ (Stage' /\ Flow')
  BY <1>1, <1>2, <1>3, SameFlow
<1>5. fifo' \in Seq(Units) /\ Len(fifo') <= 1 /\ moved' \in Seq(Units)
  BY DEF IInv, TypeInv, HwType, HistType
<1> QED BY <1>0, <1>1, <1>4, <1>5, PollOn

\* Appending the block in the FIFO to the buffer.
LEMMA TakeOne ==
    ASSUME NEW s \in Seq(Units), NEW f \in Seq(Units), f # <<>>, Len(f) <= 1
    PROVE  /\ Len(f) = 1 /\ SubSeq(f, 2, 1) = <<>>
           /\ s \o SubSeq(f, 1, 1) \in Seq(Units) /\ Len(s \o SubSeq(f, 1, 1)) = Len(s) + 1
           /\ \A i \in 1 .. Len(s) : (s \o SubSeq(f, 1, 1))[i] = s[i]
           /\ (s \o SubSeq(f, 1, 1))[Len(s) + 1] = f[1]
<1>1. Len(f) = 1 /\ Len(s) \in Nat
  <2>1. Len(f) \in Nat /\ Len(f) # 0 /\ Len(s) \in Nat
    BY SMT
  <2>2. Len(f) <= 1
    OBVIOUS
  <2>3. \A m \in Nat : m # 0 /\ m <= 1 => m = 1
    BY SMT
  <2> QED BY <2>1, <2>2, <2>3, Zenon
<1>2. SubSeq(f, 2, 1) = <<>>
  BY <1>1, SMT
<1>3. SubSeq(f, 1, 1) \in Seq(Units) /\ Len(SubSeq(f, 1, 1)) = 1 /\ SubSeq(f, 1, 1)[1] = f[1]
  BY <1>1, SMT
<1>4. ASSUME NEW t \in Seq(Units), Len(t) = 1
      PROVE  /\ s \o t \in Seq(Units) /\ Len(s \o t) = Len(s) + 1
             /\ \A i \in 1 .. Len(s) : (s \o t)[i] = s[i]
             /\ (s \o t)[Len(s) + 1] = t[1]
  BY <1>4, SMT
<1> QED BY <1>1, <1>2, <1>3, <1>4

\* MshcReadData never finds the FIFO empty after the data is over.
LEMMA MshcReadDataStep == IInv /\ MshcReadData => IInv'
<1> SUFFICES ASSUME IInv, MshcReadData PROVE IInv'
  OBVIOUS
<1>0. /\ io.op = "read" /\ Driver("pio") /\ UNCHANGED <<dma, resp, busy, count>>
      /\ NoFault /\ io.at = "pio" /\ "pio" \in InPass
  BY DEF MshcReadData, NoFault, Driver, InPass
<1>1. /\ HwType /\ fifo \in Seq(Units) /\ Len(fifo) <= 1 /\ moved \in Seq(Units) /\ Len(moved) \in Nat
      /\ io.pos \in Nat /\ io.n \in Nat /\ io.todo \in Nat /\ io.todo >= 1 /\ io.todo <= io.n
      /\ ~mDmaUsable /\ held = NoCommand
  BY <1>0 DEF IInv, TypeInv, HwType, HistType, Calls, IoInv, DmaInv
<1>2. late \/ (Stage /\ Flow /\ ("DTO" \in io.seen => "DTO" \in rints))
  BY <1>0 DEF IInv, FlowInv
<1>3. CASE /\ fifo = <<>> /\ CardSentTooFew(io.seen)
           /\ MshcRecover /\ Returns("ERROR", "short") /\ UNCHANGED moved
  <2>1. late
    <3> SUFFICES ASSUME ~late PROVE FALSE
      OBVIOUS
    <3>1. CardMoved = io.n /\ Len(moved) - io.pos = io.n - io.todo
      BY <1>0, <1>1, <1>2, <1>3 DEF CardSentTooFew, Stage, Flow
    <3>2. CardMoved = Len(moved) - io.pos
      <4>1. Len(fifo) = 0
        BY <1>3
      <4> QED BY <1>0, <1>1, <4>1 DEF CardMoved
    <3> QED BY <1>1, <3>1, <3>2
  <2>2. HwType' /\ (late' \/ Quiet')
    BY <1>0, <1>1, <1>3, RecoverFacts
  <2>3. moved' \in Seq(Units)
    BY <1>1, <1>3
  <2> QED BY <1>0, <1>3, <2>1, <2>2, <2>3, ErrorReturn
<1>4. CASE io' = Taken(0) /\ UNCHANGED <<result, held, hw, fifo, rints, late, moved>>
  BY <1>0, <1>4, TakesNothing
<1>5. CASE /\ fifo # <<>>
           /\ LET k == IF Len(fifo) < io.todo THEN Len(fifo) ELSE io.todo IN
              /\ moved' = moved \o SubSeq(fifo, 1, k)
              /\ fifo' = SubSeq(fifo, k + 1, Len(fifo))
              /\ io' = Taken(k)
           /\ UNCHANGED <<result, held, hw, rints, late>>
  <2>1. Len(fifo) = 1
    BY <1>1, <1>5, TakeOne
  <2>2. (IF Len(fifo) < io.todo THEN Len(fifo) ELSE io.todo) = 1
    BY <1>1, <2>1
  <2>3. moved' = moved \o SubSeq(fifo, 1, 1) /\ fifo' = SubSeq(fifo, 2, 1) /\ io' = Taken(1)
    BY <1>5, <2>1, <2>2
  <2>4. /\ fifo' = <<>> /\ moved' \in Seq(Units) /\ Len(moved') = Len(moved) + 1
        /\ \A i \in 1 .. Len(moved) : moved'[i] = moved[i]
        /\ moved'[Len(moved) + 1] = fifo[1]
    BY <1>1, <1>5, <2>3, TakeOne
  <2>5. /\ io' \in Calls /\ io'.op = io.op /\ io'.lba = io.lba /\ io'.pos = io.pos
        /\ io'.left = io.left /\ io'.n = io.n /\ io'.todo = io.todo - 1
        /\ io'.at \in {"done", "data"} /\ io'.todo <= io.n
        /\ io'.at = "done" => io'.todo = 0
        /\ io'.at = "data" => io'.todo >= 1
    BY <1>0, <2>3, TakenFacts
  <2>6. UNCHANGED <<unsure, mDmaUsable, names, info>>
    BY <1>0 DEF Driver, detVars
  <2>7. CardMoved' = CardMoved
    <3>1. Len(fifo') = 0
      BY <2>4
    <3>2. Len(moved') = Len(moved) + 1 /\ io'.op = "read" /\ io'.pos = io.pos
      BY <1>0, <2>4, <2>5
    <3>3. CardMoved = Len(moved) - io.pos + Len(fifo) /\ CardMoved' = Len(moved') - io'.pos + Len(fifo')
      BY <1>0, <3>2 DEF CardMoved
    <3>4. \A a, b, c, d \in Int : d = a + 1 => d - b + 0 = a - b + 1
      BY SMT
    <3>5. Len(moved) \in Int /\ Len(moved') \in Int /\ io.pos \in Int
      BY <1>1, <3>2
    <3> QED BY <2>1, <3>1, <3>2, <3>3, <3>4, <3>5
  <2>8. ASSUME ~late PROVE Stage' /\ Flow'
    <3>0. Stage /\ Flow
      BY <1>2, <2>8
    <3>1. Stage'
      BY <1>5, <2>5, <2>6, <2>7, <3>0 DEF Stage
    <3>2. InOrder'
      <4> SUFFICES ASSUME ~unsure, NEW i \in 1 .. Len(moved) + 1 PROVE moved'[i] = Wanted(i)'
        BY <2>4, <2>6 DEF InOrder
      <4>1. Wanted(i)' = Wanted(i)
        BY <2>5, <2>6 DEF Wanted, Current
      <4>2. CASE i \in 1 .. Len(moved)
        BY <2>4, <3>0, <4>1, <4>2 DEF Flow, InOrder
      <4>3. CASE i = Len(moved) + 1
        BY <1>0, <1>1, <1>5, <2>4, <3>0, <4>1, <4>3 DEF Flow
      <4> QED BY <1>1, <4>2, <4>3
    <3>3. io'.pos <= Len(moved')
      BY <1>1, <2>4, <2>5, <3>0 DEF Flow
    <3>4. Len(moved') - io'.pos = io'.n - io'.todo
      <4>1. Len(moved) - io.pos = io.n - io.todo
        BY <1>0, <1>1, <3>0 DEF Flow
      <4>2. Len(moved') = Len(moved) + 1 /\ io'.pos = io.pos /\ io'.n = io.n /\ io'.todo = io.todo - 1
        BY <2>4, <2>5
      <4>3. \A a, b, c, d \in Int : a - b = c - d => a + 1 - b = c - (d - 1)
        BY SMT
      <4>4. Len(moved) \in Int /\ io.pos \in Int /\ io.n \in Int /\ io.todo \in Int
        BY <1>1
      <4> QED BY <4>1, <4>2, <4>3, <4>4
    <3> QED BY <1>0, <1>1, <2>4, <2>5, <2>6, <3>1, <3>2, <3>3, <3>4 DEF Flow
  <2>9. fifo' \in Seq(Units) /\ Len(fifo') <= 1
    BY <2>4
  <2> QED BY <1>0, <1>1, <1>5, <2>4, <2>5, <2>8, <2>9, PollOn
<1> QED BY <1>3, <1>4, <1>5 DEF MshcReadData

\* MshcWriteData.
LEMMA MshcWriteDataStep == IInv /\ MshcWriteData => IInv'
<1> SUFFICES ASSUME IInv, MshcWriteData PROVE IInv'
  OBVIOUS
<1>0. /\ io.op = "write" /\ Driver("pio") /\ UNCHANGED <<dma, resp, busy, count>>
      /\ UNCHANGED <<rints, held, hw, late, moved, result>>
      /\ NoFault /\ io.at = "pio" /\ "pio" \in InPass
  BY DEF MshcWriteData, NoFault, Driver, InPass
<1>1. CASE io' = Taken(0) /\ UNCHANGED fifo
  BY <1>0, <1>1, TakesNothing
<1>2. CASE fifo = <<>> /\ fifo' = <<NoCard>> /\ io' = Taken(1)
  <2>1. /\ io' \in Calls /\ io'.op = io.op /\ io'.lba = io.lba /\ io'.pos = io.pos
        /\ io'.left = io.left /\ io'.n = io.n /\ io'.todo = io.todo - 1
        /\ io'.at \in {"done", "data"} /\ io'.todo <= io.n
        /\ ~mDmaUsable /\ held = NoCommand /\ io.todo \in Nat /\ io.n \in Nat /\ io.pos \in Nat
        /\ io'.at = "done" => io'.todo = 0
        /\ io'.at = "data" => io'.todo >= 1
    BY <1>0, <1>2, TakenFacts
  <2>2. fifo' \in Seq(Units) /\ Len(fifo') = 1 /\ Len(fifo) = 0
    BY <1>2 DEF Units
  <2>3. moved' \in Seq(Units) /\ Len(moved) \in Nat
    BY <1>0 DEF IInv, TypeInv, HistType
  <2>4. UNCHANGED <<unsure, mDmaUsable, names, info>>
    BY <1>0 DEF Driver, detVars
  <2>5. ASSUME ~late PROVE Stage' /\ Flow'
    <3>0. Stage /\ Flow
      BY <1>0, <2>5 DEF IInv, FlowInv
    <3>1. CardMoved' = CardMoved
      BY <1>0, <2>1 DEF CardMoved
    <3>2. Stage'
      BY <1>0, <2>1, <2>4, <3>0, <3>1 DEF Stage
    <3>3. InOrder'
      BY <1>0, <2>1, <2>4, <3>0 DEF Flow, InOrder, Wanted, Current
    <3>4. Len(moved') - io'.pos + Len(fifo') = io'.n - io'.todo /\ io'.pos <= Len(moved')
      <4>1. Len(moved) - io.pos + Len(fifo) = io.n - io.todo /\ io.pos <= Len(moved)
        BY <1>0, <2>1, <3>0 DEF Flow
      <4> QED BY <1>0, <2>1, <2>2, <2>3, <4>1
    <3> QED BY <1>0, <2>1, <2>4, <3>2, <3>3, <3>4 DEF Flow
  <2>6. Len(fifo') <= 1
    BY <2>2
  <2> QED BY <1>0, <2>1, <2>2, <2>3, <2>5, <2>6, PollOn
<1> QED BY <1>1, <1>2 DEF MshcWriteData

\* The polls are used up.
LEMMA PioTimesOutStep == IInv /\ PioTimesOut => IInv'
<1> SUFFICES ASSUME IInv, PioTimesOut PROVE IInv'
  OBVIOUS
<1>0. /\ Driver("pio") /\ UNCHANGED <<dma, resp, busy, count, moved>> /\ MshcRecover
      /\ Returns("ERROR", "data") /\ NoFault /\ "pio" \in InPass
  BY DEF PioTimesOut, NoFault, InPass
<1>1. HwType /\ moved' \in Seq(Units)
  BY <1>0 DEF IInv, TypeInv, HistType
<1>2. HwType' /\ (late' \/ Quiet')
  BY <1>0, <1>1, RecoverFacts
<1> QED BY <1>0, <1>1, <1>2, ErrorReturn

\* An error return without MshcRecover, after the command was answered.
LEMMA PlainReturn ==
    ASSUME IInv, NEW l \in {"done", "stop"}, Driver(l), NEW why, Returns("ERROR", why), why # "short",
           late' = (late \/ hw # NoData), UNCHANGED rints,
           UNCHANGED <<dma, fifo, resp, held, hw, busy, count, moved>>
    PROVE  IInv'
<1>0. NoFault /\ l \in InPass /\ io.at = l
  BY DEF NoFault, InPass, Driver
<1>1. held = NoCommand
  BY <1>0 DEF IInv, DmaInv
<1>2. late' \in BOOLEAN /\ (late' \/ Quiet')
  <2>1. CASE late \/ hw # NoData
    BY <2>1
  <2>2. CASE ~(late \/ hw # NoData)
    <3>1. late' = FALSE
      BY <2>2
    <3> QED BY <1>1, <2>2, <3>1 DEF Quiet
  <2> QED BY <2>1, <2>2
<1>3. HwType' /\ moved' \in Seq(Units)
  BY <1>2 DEF IInv, TypeInv, HwType, HistType
<1> QED BY <1>0, <1>2, <1>3, ErrorReturn

\* MshcWaitTransferDone.
LEMMA MshcWaitTransferDoneStep == IInv /\ MshcWaitTransferDone => IInv'
<1> SUFFICES ASSUME IInv, MshcWaitTransferDone PROVE IInv'
  OBVIOUS
<1>0. /\ Driver("done") /\ UNCHANGED <<dma, fifo, resp, held, hw, busy, count, moved>>
      /\ io.at = "done" /\ "done" \in InPass
  BY DEF MshcWaitTransferDone, Driver, InPass
<1>1. CASE Returns("ERROR", "data") /\ late' = (late \/ hw # NoData) /\ UNCHANGED rints
  BY <1>0, <1>1, PlainReturn
<1>2. CASE "DTO" \in rints /\ rints' = rints \ {"DTO"} /\ DataOver /\ UNCHANGED late
  <2>1. held = NoCommand /\ ~mDmaUsable /\ ~dma.on
    BY <1>0 DEF IInv, DmaInv
  <2>2. late \/ (Stage /\ Flow /\ io.todo = 0)
    BY <1>0 DEF IInv, FlowInv
  <2>3. Stage /\ Flow /\ io.todo = 0 => Len(moved) = io.pos + io.n /\ InOrder
    <3> SUFFICES ASSUME Stage, Flow, io.todo = 0 PROVE Len(moved) = io.pos + io.n /\ InOrder
      OBVIOUS
    <3>0. io.op \in {"read", "write"} /\ io.pos \in Nat /\ io.n \in Nat /\ Len(moved) \in Nat
      BY <1>0, PassFacts DEF IInv, TypeInv, HistType
    <3>1. CASE io.op = "read"
      <4>1. Len(moved) - io.pos = io.n - io.todo /\ InOrder
        BY <2>1, <3>1 DEF Flow
      <4> QED BY <3>0, <4>1
    <3>2. CASE io.op = "write"
      <4>1. CardMoved = io.n /\ InOrder
        BY <1>2 DEF Stage, Flow
      <4>2. Len(moved) - io.pos = io.n
        BY <3>0, <3>2, <4>1 DEF CardMoved
      <4> QED BY <3>0, <4>1, <4>2
    <3> QED BY <3>0, <3>1, <3>2
  <2> QED BY <1>0, <1>2, <2>1, <2>2, <2>3, DataOverStep
<1> QED BY <1>1, <1>2 DEF MshcWaitTransferDone

\* MshcWaitAutoStop.
LEMMA MshcWaitAutoStopStep == IInv /\ MshcWaitAutoStop => IInv'
<1> SUFFICES ASSUME IInv, MshcWaitAutoStop PROVE IInv'
  OBVIOUS
<1>0. /\ Driver("stop") /\ UNCHANGED <<dma, fifo, resp, held, hw, busy, count, moved>>
      /\ io.at = "stop" /\ "stop" \in InPass
  BY DEF MshcWaitAutoStop, Driver, InPass
<1>1. CASE Returns("ERROR", "stop") /\ late' = (late \/ hw # NoData) /\ UNCHANGED rints
  BY <1>0, <1>1, PlainReturn
<1>2. CASE "ACD" \in rints /\ rints' = rints \ {"ACD"} /\ NextPass /\ UNCHANGED late
  <2>1. held = NoCommand /\ ~dma.on
    BY <1>0 DEF IInv, DmaInv
  <2>2. late \/ (Len(moved) = io.pos + io.n /\ InOrder /\ hw = NoData)
    BY <1>0, <1>2 DEF IInv, FlowInv, StopInv
  <2> QED BY <1>0, <1>2, <2>1, <2>2, NextPassStep
<1> QED BY <1>1, <1>2 DEF MshcWaitAutoStop

-----------------------------------------------------------------------------
(* The controller's steps.                                                  *)

\* What a step of the controller leaves alone.
LEMMA HwFrame ==
    ASSUME IInv, UNCHANGED <<detVars, io, late, supply, seated, card, names, blurred, unsure, result>>,
           NoFault \/ Fault, busy' \in BOOLEAN, moved' = moved \/ io.at # "idle"
    PROVE  /\ DetType' /\ DetInv' /\ NameInv' /\ MediaIdNamesOneCard' /\ CardType' /\ CardInv'
           /\ SureInv' /\ IoInv' /\ io' \in Calls /\ ToldInv'
           /\ UNCHANGED <<det, info, mDmaUsable>>
<1>1. count' \in Counts /\ count'.calls = count.calls /\ count.calls \in Nat
  BY FaultFacts DEF IInv, TypeInv, CardType, Counts
<1>2. DetType' /\ DetInv' /\ NameInv' /\ MediaIdNamesOneCard'
  <2>1. count'.calls >= count.calls
    BY <1>1
  <2>2. io'.at # "idle" => phase = "installed"
    BY DEF IInv, DetInv
  <2> QED BY <1>1, <2>1, <2>2, DetSame
<1>3. CardType' /\ CardInv'
  BY <1>1 DEF IInv, TypeInv, CardType, CardInv, detVars
<1>4. SureInv' /\ IoInv' /\ io' \in Calls
  BY DEF IInv, TypeInv, SureInv, IoInv, Current, Pass, detVars
<1>5. ToldInv'
  BY DEF IInv, ToldInv, NeverShort, SuccessIsReal, Current, detVars
<1> QED BY <1>2, <1>3, <1>4, <1>5 DEF detVars

\* The answer to the command was bad: the driver is about to return an error.
Failing == io.at = "cmd" /\ held = NoCommand /\ ("RTO" \in rints \/ "RERR" \in rints)

\* The data stage of the pass is under way.
Moves ==
    /\ "HLE" \notin rints /\ "DERR" \notin rints /\ "DTO" \notin rints /\ "ACD" \notin rints
    /\ hw.op = io.op /\ hw.multi = (io.n > 1) /\ hw.left = io.n - CardMoved
    /\ unsure \/ hw.block = io.lba + CardMoved

\* Data that moves is of the pass at hand.
LEMMA AtData ==
    ASSUME IInv, ~late, hw.op \in {"read", "write"}
    PROVE  /\ io.at \in {"cmd", "data", "pio", "done"}
           /\ Failing \/ (Moves /\ Flow /\ (io.at = "cmd" => io.todo = io.n /\ "CDONE" \in rints))
<1>1. hw # NoData /\ hw.op # "stop"
  BY DEF NoData
<1>2. io.at \in {"cmd", "data", "pio", "done"}
  <2>1. io.at \in InPass \union {"idle", "prepare"}
    BY DEF IInv, TypeInv, Calls
  <2>2. io.at \notin {"idle", "prepare", "send", "stop"}
    BY <1>1 DEF IInv, FlowInv, Quiet, StopInv
  <2> QED BY <2>1, <2>2 DEF InPass
<1>3. Stage => Moves
  BY <1>1 DEF Stage, Moves
<1>4. CASE io.at = "cmd"
  <2>1. CmdInv
    BY <1>4 DEF IInv, FlowInv
  <2> QED BY <1>1, <1>2, <1>3, <1>4, <2>1 DEF CmdInv, Failing
<1>5. CASE io.at \in {"data", "pio", "done"}
  BY <1>2, <1>3, <1>5 DEF IInv, FlowInv
<1> QED BY <1>2, <1>4, <1>5

\* A step of the data stage keeps the pass in order.
LEMMA DataFlow ==
    ASSUME IInv, UNCHANGED <<io, late, held, mDmaUsable>>, hw.op \in {"read", "write"},
           rints' \in {rints, rints \union {"DTO"}, rints \union {"DERR"}},
           ~late /\ ~Failing => Stage' /\ Flow'
    PROVE  FlowInv'
<1> SUFFICES ASSUME ~late PROVE FlowInv'
  BY DEF FlowInv
<1>1. /\ io.at \in {"cmd", "data", "pio", "done"}
      /\ Failing \/ (io.at = "cmd" => io.todo = io.n /\ "CDONE" \in rints)
  BY AtData
<1>2. CASE Failing
  BY <1>2 DEF Failing, FlowInv, CmdInv
<1>3. CASE ~Failing /\ io.at = "cmd"
  <2>1. held = NoCommand
    BY <1>1, <1>3 DEF IInv, DmaInv
  <2>2. "RTO" \notin rints /\ "RERR" \notin rints
    BY <1>3, <2>1 DEF Failing
  <2>3. CmdInv'
    BY <1>1, <1>3, <2>1, <2>2 DEF CmdInv
  <2> QED BY <1>3, <2>3 DEF FlowInv
<1>4. CASE ~Failing /\ io.at # "cmd"
  <2>1. io.at = "pio" => ("DTO" \in io.seen => "DTO" \in rints)
    BY DEF IInv, FlowInv
  <2>2. io.at = "done" => io.todo = 0
    BY DEF IInv, FlowInv
  <2> QED BY <1>1, <1>4, <2>1, <2>2 DEF FlowInv
<1> QED BY <1>2, <1>3, <1>4

\* The data comes to its end.
LEMMA HwDataDoneStep == IInv /\ HwDataDone => IInv'
<1> SUFFICES ASSUME IInv, HwDataDone PROVE IInv'
  OBVIOUS
<1>0. /\ hw.op \in {"read", "write"} /\ hw.left = 0 /\ rints' = rints \union {"DTO"}
      /\ hw' = (IF hw.multi THEN [hw EXCEPT !.op = "stop"] ELSE NoData)
      /\ UNCHANGED <<detVars, io, dma, fifo, resp, held, late, supply, seated, card, count, histVars>>
      /\ busy' = (busy \/ hw.op = "write") /\ NoFault
  BY DEF HwDataDone, NoFault
<1>1. busy' \in BOOLEAN
  <2>1. CASE busy \/ hw.op = "write"
    BY <1>0, <2>1
  <2>2. CASE ~(busy \/ hw.op = "write")
    BY <1>0, <2>2
  <2> QED BY <2>1, <2>2
<1>2. /\ DetType' /\ DetInv' /\ NameInv' /\ MediaIdNamesOneCard' /\ CardType' /\ CardInv'
      /\ SureInv' /\ IoInv' /\ io' \in Calls /\ ToldInv'
      /\ UNCHANGED <<det, info, mDmaUsable>>
  BY <1>0, <1>1, HwFrame DEF histVars
<1>3. hw' \in Stages /\ (hw.multi => hw'.op = "stop" /\ hw'.multi) /\ (~hw.multi => hw' = NoData)
  BY <1>0, Nothings DEF IInv, TypeInv, HwType, Stages
<1>4. HwType' /\ HistType'
  BY <1>0, <1>3 DEF IInv, TypeInv, HwType, HistType, histVars, Bits
<1>5. hw # NoData
  BY <1>0 DEF NoData
<1>6. StartInv' /\ DmaInv'
  BY <1>0, <1>2, <1>5 DEF IInv, StartInv, DmaInv, BetweenPasses, histVars
<1>7. FlowInv'
  <2>1. ASSUME ~late, ~Failing PROVE Stage' /\ Flow'
    <3>1. Moves /\ Flow /\ io.at \in {"cmd", "data", "pio", "done"}
      BY <1>0, <2>1, AtData
    <3>2. CardMoved' = CardMoved /\ Flow'
      BY <1>0, <1>2, <3>1 DEF Flow, InOrder, Wanted, Current, CardMoved, histVars
    <3>3. CardMoved = io.n
      <4>1. io.n \in Int /\ CardMoved \in Int
        <5>1. io.n \in Int /\ io.pos \in Int /\ Len(moved) \in Int /\ Len(fifo) \in Int
          BY DEF IInv, TypeInv, HwType, HistType, Calls
        <5> QED BY <5>1 DEF CardMoved
      <4>2. io.n - CardMoved = 0
        BY <1>0, <3>1 DEF Moves
      <4> QED BY <4>1, <4>2
    <3> QED BY <1>0, <1>3, <3>1, <3>2, <3>3 DEF Stage, Moves
  <2> QED BY <1>0, <1>2, <2>1, DataFlow
<1> QED BY <1>2, <1>4, <1>6, <1>7 DEF IInv, TypeInv

\* The data stage breaks.
LEMMA HwDataErrorStep == IInv /\ HwDataError => IInv'
<1> SUFFICES ASSUME IInv, HwDataError PROVE IInv'
  OBVIOUS
<1>0. /\ hw.op \in {"read", "write"} /\ rints' = rints \union {"DERR"} /\ hw' = NoData
      /\ UNCHANGED <<detVars, io, dma, fifo, resp, held, late, cardVars, histVars>>
      /\ NoFault \/ Fault
  BY DEF HwDataError, Moving
<1>1. busy' \in BOOLEAN
  BY <1>0 DEF IInv, TypeInv, CardType, cardVars
<1>2. /\ DetType' /\ DetInv' /\ NameInv' /\ MediaIdNamesOneCard' /\ CardType' /\ CardInv'
      /\ SureInv' /\ IoInv' /\ io' \in Calls /\ ToldInv'
      /\ UNCHANGED <<det, info, mDmaUsable>>
  BY <1>0, <1>1, HwFrame DEF histVars, cardVars
<1>3. HwType' /\ HistType'
  BY <1>0, Nothings DEF IInv, TypeInv, HwType, HistType, histVars, Bits
<1>4. hw # NoData
  BY <1>0 DEF NoData
<1>5. StartInv' /\ DmaInv'
  BY <1>0, <1>2, <1>4 DEF IInv, StartInv, DmaInv, BetweenPasses, histVars
<1>6. FlowInv'
  <2>1. ASSUME ~late, ~Failing PROVE Stage' /\ Flow'
    <3>1. Moves /\ Flow
      BY <1>0, <2>1, AtData
    <3>2. Flow'
      BY <1>0, <1>2, <3>1 DEF Flow, InOrder, Wanted, Current, CardMoved, histVars
    <3> QED BY <1>0, <3>1, <3>2 DEF Stage, Moves
  <2> QED BY <1>0, <1>2, <2>1, DataFlow
<1> QED BY <1>2, <1>3, <1>5, <1>6 DEF IInv, TypeInv

\* CMD12 is done.
LEMMA HwAutoStopStep == IInv /\ HwAutoStop => IInv'
<1> SUFFICES ASSUME IInv, HwAutoStop PROVE IInv'
  OBVIOUS
<1>0. /\ hw.op = "stop" /\ rints' = rints \union {"ACD"} /\ hw' = NoData
      /\ UNCHANGED <<detVars, io, dma, fifo, resp, held, late, cardVars, count, histVars>>
      /\ NoFault
  BY DEF HwAutoStop, NoFault
<1>1. busy' \in BOOLEAN
  BY <1>0 DEF IInv, TypeInv, CardType, cardVars
<1>2. /\ DetType' /\ DetInv' /\ NameInv' /\ MediaIdNamesOneCard' /\ CardType' /\ CardInv'
      /\ SureInv' /\ IoInv' /\ io' \in Calls /\ ToldInv'
      /\ UNCHANGED <<det, info, mDmaUsable>>
  BY <1>0, <1>1, HwFrame DEF histVars, cardVars
<1>3. HwType' /\ HistType'
  BY <1>0, Nothings DEF IInv, TypeInv, HwType, HistType, histVars, Bits
<1>4. hw # NoData
  BY <1>0 DEF NoData
<1>5. StartInv' /\ DmaInv'
  BY <1>0, <1>2, <1>4 DEF IInv, StartInv, DmaInv, BetweenPasses, histVars
<1>6. FlowInv'
  <2> SUFFICES ASSUME ~late PROVE FlowInv'
    BY <1>0 DEF FlowInv
  <2>0. (InOrder' <=> InOrder) /\ (Flow' <=> Flow) /\ CardMoved' = CardMoved
    BY <1>0, <1>2, Zenon DEF Flow, InOrder, Wanted, Current, CardMoved, histVars
  <2>1. Stage => Stage'
    <3> SUFFICES ASSUME Stage PROVE Stage'
      OBVIOUS
    <3>1. io.op # "stop"
      BY DEF IInv, TypeInv, Calls
    <3>2. "DTO" \in rints
      BY <1>0, <1>4, <3>1 DEF Stage
    <3> QED BY <1>0, <2>0, <3>2 DEF Stage
  <2>2. CmdInv => CmdInv'
    BY <1>0, <1>4, <2>0, <2>1 DEF CmdInv
  <2>3. StopInv => StopInv'
    BY <1>0, <2>0 DEF StopInv, histVars
  <2> QED BY <1>0, <1>4, <2>0, <2>1, <2>2, <2>3 DEF IInv, FlowInv, Quiet
<1> QED BY <1>2, <1>3, <1>5, <1>6 DEF IInv, TypeInv

\* The command of a call that is not late, when the controller comes to send it.
LEMMA AtCommand ==
    ASSUME IInv, ~late, held # NoCommand
    PROVE  io.at = "cmd" /\ held = MyCommand /\ hw = NoData /\ Fresh /\ rints = {}
<1>1. io.at \in InPass \union {"idle", "prepare"}
  BY DEF IInv, TypeInv, Calls
<1>2. io.at \notin {"idle", "prepare", "send", "data", "pio", "done", "stop"}
  BY DEF IInv, FlowInv, Quiet, DmaInv
<1>3. io.at = "cmd"
  BY <1>1, <1>2 DEF InPass
<1>4. CmdInv
  BY <1>3 DEF IInv, FlowInv
<1> QED BY <1>3, <1>4 DEF CmdInv

\* The card finds the block in the argument that MshcSendCmd made for it.
LEMMA BlockOfArgument ==
    ASSUME IInv, ~unsure, io.at # "idle", Hears("tran")
    PROVE  seated = Current /\ Block(CmdArgument) = io.lba
<1>1. info.cid = Current /\ Current \in Cards
  <2>1. names # <<>> /\ names \in Seq([id : Nat, card : Cards])
    BY DEF IInv, DetInv, TypeInv, HistType
  <2>2. Len(names) \in 1 .. Len(names)
    BY <2>1
  <2>3. names[Len(names)] \in [id : Nat, card : Cards]
    BY <2>1, <2>2, ElementOfSeq
  <2> QED BY <2>3 DEF IInv, SureInv, Current
<1>2. info.cid # NoCard
  BY <1>1, MshcAssumption
<1>3. seated = info.cid /\ info.hc = (seated \in HighCap)
  BY <1>2 DEF IInv, CardInv, Hears
<1>4. io.lba \in Nat
  BY DEF IInv, TypeInv, Calls
<1>5. CASE seated \in HighCap
  BY <1>1, <1>3, <1>5 DEF Block, CmdArgument
<1>6. CASE seated \notin HighCap
  <2>1. \A a, b \in Nat : b >= 1 => (a * b) \div b = a
    OBVIOUS
  <2>2. (io.lba * BlockSize) \div BlockSize = io.lba
    BY <1>4, <2>1, Sizes
  <2>3. ~info.hc
    BY <1>3, <1>6, Zenon
  <2> QED BY <1>1, <1>3, <1>6, <2>2, <2>3 DEF Block, CmdArgument
<1> QED BY <1>5, <1>6

\* The data stage of a command.
LEMMA StageOfCommand ==
    ASSUME IInv
    PROVE  DataOf(held) \in Stages
<1>1. held.op \in {"none", "read", "write"} /\ held.arg \in Nat /\ held.n \in 0 .. MaxPass
  BY DEF IInv, TypeInv, HwType, Commands
<1>2. \A a, b \in Nat : b >= 1 => a \div b \in Nat
  OBVIOUS
<1>3. Block(held.arg) \in Nat
  BY <1>1, <1>2, Sizes DEF Block
<1>4. (held.n > 1) \in BOOLEAN
  BY <1>1
<1> QED BY <1>1, <1>3, <1>4 DEF DataOf, Stages

\* The controller sends the command.
LEMMA HwCommandStep == IInv /\ HwCommand => IInv'
<1> SUFFICES ASSUME IInv, HwCommand PROVE IInv'
  OBVIOUS
<1>0. /\ held # NoCommand /\ hw = NoData /\ held' = NoCommand
      /\ UNCHANGED <<detVars, io, dma, fifo, late, cardVars, histVars>>
      /\ NoFault \/ Fault
  BY DEF HwCommand
<1>1. \/ Hears("tran") /\ rints' = rints \union {"CDONE"} /\ hw' = DataOf(held)
      \/ /\ rints' \in {rints \union {"RTO"}, rints \union {"RERR"}}
         /\ hw' \in {NoData, DataOf(held)}
  BY <1>0 DEF HwCommand
<1>2. resp' \in BOOLEAN
  <2>1. resp' = resp \/ resp' = ~InRange(held.arg)
    BY DEF HwCommand
  <2>2. CASE InRange(held.arg)
    BY <2>1, <2>2 DEF IInv, TypeInv, HwType
  <2>3. CASE ~InRange(held.arg)
    BY <2>1, <2>3 DEF IInv, TypeInv, HwType
  <2> QED BY <2>2, <2>3
<1>3. busy' \in BOOLEAN
  BY <1>0 DEF IInv, TypeInv, CardType, cardVars
<1>4. /\ DetType' /\ DetInv' /\ NameInv' /\ MediaIdNamesOneCard' /\ CardType' /\ CardInv'
      /\ SureInv' /\ IoInv' /\ io' \in Calls /\ ToldInv'
      /\ UNCHANGED <<det, info, mDmaUsable>>
  BY <1>0, <1>3, HwFrame DEF histVars, cardVars
<1>5. HwType' /\ HistType'
  <2>1. hw' \in Stages
    BY <1>1, StageOfCommand, Nothings
  <2>2. rints' \subseteq Bits
    BY <1>1 DEF IInv, TypeInv, HwType, Bits
  <2> QED BY <1>0, <1>2, <2>1, <2>2, Nothings DEF IInv, TypeInv, HwType, HistType, histVars
<1>6. StartInv' /\ DmaInv'
  BY <1>0, <1>4 DEF IInv, StartInv, DmaInv, BetweenPasses, histVars
<1>7. FlowInv'
  <2> SUFFICES ASSUME ~late PROVE FlowInv'
    BY <1>0 DEF FlowInv
  <2>0. io.at = "cmd" /\ held = MyCommand /\ Fresh /\ rints = {}
    BY <1>0, AtCommand
  <2>1. CASE rints' \in {rints \union {"RTO"}, rints \union {"RERR"}}
    BY <1>0, <2>0, <2>1 DEF FlowInv, CmdInv
  <2>2. CASE Hears("tran") /\ rints' = rints \union {"CDONE"} /\ hw' = DataOf(held)
    <3>1. UNCHANGED <<io, moved, fifo, dma, unsure, names, seated, mDmaUsable>>
      BY <1>0, <1>4 DEF histVars, cardVars
    <3>2. Len(moved) = io.pos /\ InOrder /\ fifo = <<>> /\ io.todo = io.n /\ (mDmaUsable => dma.n = io.n)
      BY <2>0 DEF Fresh
    <3>3. io.n \in Nat /\ io.pos \in Nat /\ io.lba \in Nat
      BY DEF IInv, TypeInv, Calls
    <3>4. CardMoved = 0 /\ CardMoved' = 0
      <4>1. CardMoved = 0
        BY <3>2, <3>3 DEF CardMoved
      <4> QED BY <3>1, <4>1 DEF CardMoved
    <3>5. unsure \/ hw'.block = io.lba
      BY <2>0, <2>2, BlockOfArgument DEF DataOf, MyCommand
    <3>6. hw'.op = io.op /\ hw'.left = io.n /\ hw'.multi = (io.n > 1)
      BY <2>0, <2>2 DEF DataOf, MyCommand
    <3>7. io.n - 0 = io.n /\ io.lba + 0 = io.lba
      BY <3>3
    <3>8. Stage'
      BY <2>0, <2>2, <3>1, <3>4, <3>5, <3>6, <3>7 DEF Stage
    <3>9. Flow'
      <4>1. InOrder'
        BY <3>1, <3>2 DEF InOrder, Wanted, Current
      <4>2. io.pos - io.pos = 0 /\ io.n - io.n = 0 /\ io.pos <= io.pos /\ Len(<<>>) = 0
        BY <3>3
      <4> QED BY <3>1, <3>2, <3>4, <3>7, <4>1, <4>2 DEF Flow
    <3>10. CmdInv'
      BY <1>0, <2>0, <2>2, <3>1, <3>2, <3>8, <3>9 DEF CmdInv
    <3> QED BY <2>0, <3>1, <3>10 DEF FlowInv
  <2> QED BY <1>1, <2>1, <2>2
<1> QED BY <1>4, <1>5, <1>6, <1>7 DEF IInv, TypeInv

\* The next block of the request joins the buffer.
LEMMA OneMore ==
    ASSUME IInv, UNCHANGED <<io, names, unsure>>, InOrder, NEW u \in Units,
           moved' = Append(moved, u), unsure \/ u = Wanted(Len(moved) + 1)
    PROVE  InOrder' /\ Len(moved') = Len(moved) + 1 /\ moved' \in Seq(Units)
<1>1. moved \in Seq(Units) /\ Len(moved) \in Nat
  BY DEF IInv, TypeInv, HistType
<1>2. /\ moved' \in Seq(Units) /\ Len(moved') = Len(moved) + 1
      /\ \A i \in 1 .. Len(moved) : moved'[i] = moved[i]
      /\ moved'[Len(moved) + 1] = u
  BY <1>1, AppendProperties
<1>3. InOrder'
  <2> SUFFICES ASSUME ~unsure, NEW i \in 1 .. Len(moved) + 1 PROVE moved'[i] = Wanted(i)'
    BY <1>2 DEF InOrder
  <2>1. Wanted(i)' = Wanted(i)
    BY DEF Wanted, Current
  <2>2. CASE i \in 1 .. Len(moved)
    BY <1>2, <2>1, <2>2 DEF InOrder
  <2>3. CASE i = Len(moved) + 1
    BY <1>2, <2>1, <2>3
  <2> QED BY <1>1, <2>2, <2>3
<1> QED BY <1>2, <1>3

\* The controller moves a block.
LEMMA HwMoveStep == IInv /\ HwMove => IInv'
<1> SUFFICES ASSUME IInv, HwMove PROVE IInv'
  OBVIOUS
<1> DEFINE unit == <<seated, hw.block>>
           mine == io.at \notin {"idle", "prepare"}
<1>0. /\ hw.op \in {"read", "write"} /\ hw.left > 0 /\ Hears("tran") /\ Room
      /\ hw' = [hw EXCEPT !.block = @ + 1, !.left = @ - 1]
      /\ UNCHANGED <<detVars, io, rints, resp, held, late, cardVars, count, names, blurred, unsure,
                     result>>
      /\ NoFault
  BY DEF HwMove, Moving, Sends, NoFault
<1>1. /\ mDmaUsable =>
            /\ dma' = [dma EXCEPT !.n = @ - 1] /\ UNCHANGED fifo
            /\ moved' = IF mine THEN Append(moved, unit) ELSE moved
      /\ ~mDmaUsable =>
            /\ fifo' = (IF hw.op = "read" THEN <<unit>> ELSE <<>>) /\ UNCHANGED dma
            /\ moved' = IF mine /\ hw.op = "write" THEN Append(moved, unit) ELSE moved
  BY DEF HwMove
<1>2. unit \in Units /\ hw.block \in Nat /\ hw.left \in Nat
  <2>1. seated \in Cards
    BY <1>0 DEF Hears, IInv, TypeInv, CardType, Slot
  <2>2. hw.block \in Nat /\ hw.left \in Nat
    BY DEF IInv, TypeInv, HwType, Stages
  <2> QED BY <2>1, <2>2 DEF Units
<1> HIDE DEF unit
<1>3. /\ hw' \in Stages /\ hw'.op = hw.op /\ hw'.multi = hw.multi
      /\ hw'.block = hw.block + 1 /\ hw'.left = hw.left - 1
  <2>1. hw \in Stages
    BY DEF IInv, TypeInv, HwType
  <2>2. hw.left - 1 \in 0 .. MaxPass /\ hw.block + 1 \in Nat
    BY <1>0, <1>2, <2>1, Sizes DEF Stages
  <2> QED BY <1>0, <2>1, <2>2 DEF Stages
<1>4. busy' \in BOOLEAN
  BY <1>0 DEF IInv, TypeInv, CardType, cardVars
<1>5. /\ DetType' /\ DetInv' /\ NameInv' /\ MediaIdNamesOneCard' /\ CardType' /\ CardInv'
      /\ SureInv' /\ IoInv' /\ io' \in Calls /\ ToldInv'
      /\ UNCHANGED <<det, info, mDmaUsable>>
  <2>1. moved' = moved \/ io.at # "idle"
    BY <1>1
  <2> QED BY <1>0, <1>4, <2>1, HwFrame DEF cardVars
<1>6. moved \in Seq(Units) /\ fifo \in Seq(Units) /\ Len(fifo) <= 1 /\ dma \in [on : BOOLEAN, n : 0 .. MaxPass]
  BY DEF IInv, TypeInv, HwType, HistType
<1>7. /\ dma' \in [on : BOOLEAN, n : 0 .. MaxPass] /\ dma'.on = dma.on
      /\ mDmaUsable => dma'.n = dma.n - 1
  <2>1. CASE mDmaUsable
    <3>1. dma.n > 0
      BY <1>0, <2>1 DEF Room
    <3>2. dma.n - 1 \in 0 .. MaxPass
      BY <1>6, <3>1, Sizes
    <3> QED BY <1>1, <1>6, <2>1, <3>2
  <2>2. CASE ~mDmaUsable
    BY <1>1, <1>6, <2>2
  <2> QED BY <2>1, <2>2
<1>8. HwType' /\ HistType'
  <2>1. fifo' \in Seq(Units) /\ Len(fifo') <= 1
    <3>1. <<unit>> \in Seq(Units) /\ Len(<<unit>>) = 1 /\ <<>> \in Seq(Units) /\ Len(<<>>) = 0
      BY <1>2
    <3>2. fifo' \in {fifo, <<unit>>, <<>>}
      BY <1>1
    <3>3. 1 <= 1 /\ 0 <= 1
      OBVIOUS
    <3> QED BY <1>6, <3>1, <3>2, <3>3
  <2>2. moved' \in Seq(Units)
    <3>1. Append(moved, unit) \in Seq(Units)
      BY <1>2, <1>6, AppendProperties
    <3>2. moved' \in {moved, Append(moved, unit)}
      BY <1>1
    <3> QED BY <1>6, <3>1, <3>2
  <2> QED BY <1>0, <1>3, <1>7, <2>1, <2>2 DEF IInv, TypeInv, HwType, HistType
<1>9. hw # NoData
  BY <1>0 DEF NoData
<1>10. DmaInv'
  BY <1>0, <1>5, <1>7, <1>9 DEF IInv, DmaInv, BetweenPasses
<1>11. StartInv'
  <2>1. io.at = "prepare" => moved' = moved
    BY <1>1
  <2>2. io.at = "send" /\ mDmaUsable => moved' # <<>>
    BY <1>1, <1>2, <1>6, AppendProperties
  <2> QED BY <1>0, <1>5, <2>1, <2>2 DEF IInv, StartInv
<1>12. ASSUME ~late, ~Failing PROVE Stage' /\ Flow'
  <2>0. Moves /\ Flow /\ mine
    BY <1>0, <1>12, AtData
  <2>1. UNCHANGED <<io, rints, unsure, names, mDmaUsable>>
    BY <1>0, <1>5
  <2>2. io.pos \in Int /\ io.n \in Int /\ io.todo \in Int /\ io.lba \in Int /\ Len(moved) \in Int /\ dma.n \in Int
    BY <1>6 DEF IInv, TypeInv, Calls
  <2>3. unsure \/ unit = <<Current, io.lba + CardMoved>>
    <3>1. unsure \/ seated = Current
      BY <1>0, <2>0, BlockOfArgument
    <3> QED BY <2>0, <3>1 DEF Moves, unit
  <2>4. io.op = hw.op
    BY <2>0 DEF Moves
  <2>5. InOrder /\ io.pos <= Len(moved)
    BY <2>0 DEF Flow
  <2>6. \A a, b, p \in Int : b + (a - p) = b - p + (a + 1) - 1
    OBVIOUS
  <2>7. ASSUME CardMoved = Len(moved) - io.pos PROVE unsure \/ unit = Wanted(Len(moved) + 1)
    BY <2>2, <2>3, <2>6, <2>7 DEF Wanted
  <2>8. CardMoved \in Int
    BY <2>2 DEF CardMoved
  <2>9. ASSUME CardMoved' = CardMoved + 1 PROVE Stage'
    <3>1. \A a, b \in Int : (b - a) - 1 = b - (a + 1) /\ (b + a) + 1 = b + (a + 1)
      OBVIOUS
    <3>2. hw'.left = io.n - CardMoved'
      BY <1>3, <2>0, <2>2, <2>8, <2>9, <3>1 DEF Moves
    <3>3. unsure \/ hw'.block = io.lba + CardMoved'
      BY <1>3, <2>0, <2>2, <2>8, <2>9, <3>1 DEF Moves
    <3> QED BY <1>3, <2>0, <2>1, <3>2, <3>3 DEF Moves, Stage
  <2>10. CASE mDmaUsable
    <3>1. fifo = <<>> /\ fifo' = <<>> /\ dma.n = io.n - CardMoved
      BY <1>1, <2>0, <2>10 DEF Flow
    <3>2. moved' = Append(moved, unit)
      BY <1>1, <2>0, <2>10
    <3>3. CardMoved = Len(moved) - io.pos
      BY <2>2, <3>1 DEF CardMoved
    <3>4. InOrder' /\ Len(moved') = Len(moved) + 1
      BY <1>2, <2>1, <2>5, <2>7, <3>2, <3>3, OneMore
    <3>5. CardMoved' = CardMoved + 1
      <4>1. CardMoved' = Len(moved') - io.pos + 0
        BY <2>1, <3>1, <3>4, <2>2 DEF CardMoved
      <4>2. \A a, p \in Int : a + 1 - p + 0 = a - p + 1
        OBVIOUS
      <4> QED BY <2>2, <3>3, <3>4, <4>1, <4>2
    <3>6. dma'.n = io.n - CardMoved'
      <4>1. \A a, b \in Int : (b - a) - 1 = b - (a + 1)
        OBVIOUS
      <4> QED BY <1>7, <2>2, <2>8, <2>10, <3>1, <3>5, <4>1
    <3>7. io.pos <= Len(moved')
      BY <2>2, <2>5, <3>4
    <3>8. Flow'
      BY <2>1, <2>10, <3>1, <3>4, <3>6, <3>7 DEF Flow
    <3> QED BY <2>9, <3>5, <3>8
  <2>11. CASE ~mDmaUsable /\ hw.op = "read"
    <3>1. fifo = <<>> /\ fifo' = <<unit>> /\ moved' = moved /\ io.op = "read"
      BY <1>0, <1>1, <2>4, <2>11 DEF Room
    <3>2. Len(fifo) = 0 /\ Len(fifo') = 1 /\ fifo'[1] = unit
      BY <3>1
    <3>3. CardMoved = Len(moved) - io.pos
      BY <2>2, <3>1, <3>2 DEF CardMoved
    <3>4. CardMoved' = CardMoved + 1
      BY <2>1, <2>2, <3>1, <3>2, <3>3 DEF CardMoved
    <3>5. InOrder'
      BY <2>1, <2>5, <3>1 DEF InOrder, Wanted, Current
    <3>6. Wanted(Len(moved) + 1)' = Wanted(Len(moved) + 1)
      BY <2>1, <3>1 DEF Wanted, Current
    <3>7. unsure' \/ fifo'[1] = Wanted(Len(moved) + 1)'
      BY <2>1, <2>7, <3>2, <3>3, <3>6
    <3>8. Len(moved') - io'.pos = io'.n - io'.todo /\ io'.pos <= Len(moved')
      BY <2>0, <2>1, <2>11, <3>1 DEF Flow
    <3>9. Flow'
      BY <2>1, <2>11, <3>1, <3>5, <3>7, <3>8 DEF Flow
    <3> QED BY <2>9, <3>4, <3>9
  <2>12. CASE ~mDmaUsable /\ hw.op = "write"
    <3>1. fifo # <<>> /\ fifo' = <<>> /\ moved' = Append(moved, unit) /\ io.op = "write"
      BY <1>0, <1>1, <2>0, <2>4, <2>12 DEF Room
    <3>2. Len(fifo) = 1 /\ Len(fifo') = 0
      BY <1>6, <3>1, TakeOne
    <3>3. CardMoved = Len(moved) - io.pos
      BY <2>2, <3>1 DEF CardMoved
    <3>4. InOrder' /\ Len(moved') = Len(moved) + 1
      BY <1>2, <2>1, <2>5, <2>7, <3>1, <3>3, OneMore
    <3>5. CardMoved' = CardMoved + 1
      <4>1. CardMoved' = Len(moved') - io.pos + 0
        BY <2>1, <3>1 DEF CardMoved
      <4>2. \A a, p \in Int : a + 1 - p + 0 = a - p + 1
        OBVIOUS
      <4> QED BY <2>2, <3>3, <3>4, <4>1, <4>2
    <3>6. Len(moved') - io.pos + Len(fifo') = io.n - io.todo
      <4>1. Len(moved) - io.pos + Len(fifo) = io.n - io.todo
        BY <2>0, <2>12, <3>1 DEF Flow
      <4>2. \A a, p \in Int : a + 1 - p + 0 = a - p + 1
        OBVIOUS
      <4> QED BY <2>2, <3>2, <3>4, <4>1, <4>2
    <3>7. io.pos <= Len(moved')
      BY <2>2, <2>5, <3>4
    <3>8. Flow'
      BY <2>1, <2>12, <3>1, <3>4, <3>6, <3>7 DEF Flow
    <3> QED BY <2>9, <3>5, <3>8
  <2> QED BY <1>0, <2>10, <2>11, <2>12
<1>13. FlowInv'
  BY <1>0, <1>5, <1>12, DataFlow
<1> QED BY <1>5, <1>8, <1>10, <1>11, <1>13 DEF IInv, TypeInv

-----------------------------------------------------------------------------
(* The theorems.                                                            *)

\* Every step keeps the inductive invariant.
LEMMA NextInv == IInv /\ [Next]_vars => IInv'
<1> SUFFICES ASSUME IInv, [Next]_vars PROVE IInv'
  OBVIOUS
<1>1. CASE Detection
  BY <1>1, MshcInitializeStep, GoIdleStep, SendIfCondStep, SendOpCondStep, MmcSendOpCondStep,
     SwitchTo1V8Step, AllSendCidStep, SendCsdStep, SelectStep, SetAccessModeStep, DetectDoneStep,
     RecoverCardStep DEF Detection
<1>2. CASE Transfer
  BY <1>2, MshcPrepareTransferStep, MshcSendCmdStep, CmdAnsweredStep, CmdTimesOutStep,
     MshcFinishDmaStep, PioStatusStep, MshcReadDataStep, MshcWriteDataStep, PioTimesOutStep,
     MshcWaitTransferDoneStep, MshcWaitAutoStopStep DEF Transfer
<1>3. CASE Controller
  BY <1>3, HwCommandStep, HwMoveStep, HwDataDoneStep, HwDataErrorStep, HwAutoStopStep DEF Controller
<1>4. CASE MshcReset \/ MshcResetAll \/ MshcReadWrite \/ CardReady \/ Swap
  BY <1>4, MshcResetStep, MshcResetAllStep, MshcReadWriteStep, CardReadyStep, SwapStep
<1>5. CASE UNCHANGED vars
  BY <1>5, StutterStep
<1> QED BY <1>1, <1>2, <1>3, <1>4, <1>5 DEF Next

\* The inductive invariant holds in every state.
THEOREM Invariance == Spec => []IInv
BY InitInv, NextInv, PTL DEF Spec

\* What is left of a request never underflows, a pass is never longer than the
\* rest, and neither the FIFO nor the descriptors ever hold more than a pass
\* (MshcReadWrite, MshcStartDma).
THEOREM TypeCorrect == Spec => []TypeOK
<1>1. IInv => TypeOK
  <2> SUFFICES ASSUME IInv PROVE TypeOK
    OBVIOUS
  <2>1. /\ phase \in {"entry", "installed", "gone"}
        /\ det.at \in {"idle", "init", "cmd0", "cmd8", "acmd41", "cmd1", "cmd11", "cmd2", "cmd9",
                       "cmd7", "mode", "done", "cycle"}
    BY DEF IInv, TypeInv, DetType, Dets, Detecting
  <2>2. media.present \in BOOLEAN /\ media.last \in 0 .. NumBlocks
    BY DEF IInv, TypeInv, DetType, Medias
  <2>3. media.id \in 0 .. MaxCalls
    <3>1. media.id \in Nat /\ count.calls \in 0 .. MaxCalls /\ media.id <= count.calls
      BY DEF IInv, TypeInv, DetType, CardType, Medias, Counts, NameInv
    <3> QED BY <3>1, Sizes
  <2>4. info.cid \in Cards \union {NoCard} /\ info.blocks \in {0, NumBlocks}
    BY DEF IInv, TypeInv, DetType, Infos, Slot
  <2>5. /\ io.left \in 0 .. MaxLen /\ io.n \in 0 .. MaxPass /\ io.todo \in 0 .. io.n
        /\ io.n <= io.left
    <3>1. /\ io.at \in InPass \union {"idle", "prepare"} /\ io.left \in 0 .. MaxLen
          /\ io.n \in 0 .. MaxPass /\ io.todo \in 0 .. MaxPass /\ io.todo <= io.n
      BY DEF IInv, TypeInv, Calls, IoInv
    <3>2. io.todo \in 0 .. io.n
      BY <3>1, Sizes
    <3>3. io.n <= io.left
      <4>1. CASE io.at \in {"idle", "prepare"}
        <5>1. io.n = 0
          BY <4>1 DEF IInv, IoInv, NoCall
        <5> QED BY <3>1, <5>1, Sizes
      <4>2. CASE io.at \in InPass
        <5>1. io.n = Pass(io.left)
          BY <4>2 DEF IInv, IoInv
        <5> QED BY <3>1, <5>1, Sizes DEF Pass
      <4> QED BY <3>1, <4>1, <4>2
    <3> QED BY <3>1, <3>2, <3>3
  <2>6. dma.n \in 0 .. MaxPass /\ Len(fifo) <= MaxPass /\ rints \subseteq Bits
    <3>1. dma.n \in 0 .. MaxPass /\ Len(fifo) <= 1 /\ Len(fifo) \in Nat /\ rints \subseteq Bits
      BY DEF IInv, TypeInv, HwType
    <3> QED BY <3>1, Sizes
  <2>7. card.volt \in {"3V3", "1V8"} /\ supply \in {"off", "3V3", "1V8"}
    BY DEF IInv, TypeInv, CardType, CardStates
  <2> QED BY <2>1, <2>2, <2>3, <2>4, <2>5, <2>6, <2>7 DEF TypeOK
<1> QED BY <1>1, Invariance, PTL

\* A MediaId is never published for two cards, unless a detection that failed
\* after CMD2 has left another card's CID in gCardInfo.
THEOREM OneCardPerMediaId == Spec => []MediaIdNamesOneCard
<1>1. IInv => MediaIdNamesOneCard
  BY DEF IInv
<1> QED BY <1>1, Invariance, PTL

\* The IDMAC that an error return leaves enabled on the caller's buffer is not
\* used after the return, unless the command's data was still to come.
THEOREM QuietAfterCalls == Spec => []QuietAfterReturn
<1>1. IInv => QuietAfterReturn
  BY DEF IInv, DmaInv, QuietAfterReturn
<1> QED BY <1>1, Invariance, PTL

\* MshcReadData, which reads the status before the count of the FIFO, never
\* takes a transfer for short.
THEOREM NeverFoundShort == Spec => []NeverShort
<1>1. IInv => NeverShort
  BY DEF IInv, ToldInv
<1> QED BY <1>1, Invariance, PTL

\* EFI_SUCCESS from ReadBlocks or WriteBlocks means that each block of the
\* request, and no other, went between the buffer and the card published.
THEOREM SuccessesAreReal == Spec => []SuccessIsReal
<1>1. IInv => SuccessIsReal
  BY DEF IInv, ToldInv
<1> QED BY <1>1, Invariance, PTL
=============================================================================
