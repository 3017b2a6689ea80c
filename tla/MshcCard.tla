------------------------------ MODULE MshcCard ------------------------------
(***************************************************************************)
(* MshcDxe: identification of a removable SD card or an eMMC, the media it *)
(* publishes, and ReadBlocks, WriteBlocks and Reset of its Block I/O.      *)
(*                                                                         *)
(* The driver polls with bounded loops.  Beside it run the controller      *)
(* (commands, data stages, the IDMAC) and the card, which may be pulled or *)
(* swapped at any time.  A command of the identification is one step, as   *)
(* MshcInitialize left no other command in the controller; a command of a  *)
(* transfer is the steps MshcSendCmd, the controller and the wait.         *)
(*                                                                         *)
(* Data is counted in blocks.                                              *)
(***************************************************************************)
EXTENDS Integers, Sequences

CONSTANTS
    Cards,       \* the cards that may be seated
    HighCap,     \* those addressed by block
    Uhs,         \* those that can signal at 1.8 V
    Emmc,        \* those that are eMMCs
    NoCard,
    BlockSize,   \* 0x200, for byte addresses
    NumBlocks,   \* capacity of a card
    MaxPass,     \* MAX_MSHC_TRANSFER_SIZE in blocks
    MaxLen,      \* longest request of a client
    MaxCalls,    \* bound on the calls of clients
    MaxSwaps,    \* bound on the times the slot is opened
    MaxFaults    \* bound on the steps that go wrong

ASSUME MshcAssumption ==
    /\ HighCap \subseteq Cards /\ Emmc \subseteq Cards /\ Uhs \subseteq HighCap \ Emmc
    /\ NoCard \notin Cards
    /\ BlockSize \in Nat \ {0} /\ NumBlocks \in Nat \ {0}
    /\ MaxPass \in Nat \ {0} /\ MaxLen \in Nat \ {0}
    /\ MaxCalls \in Nat /\ MaxSwaps \in Nat /\ MaxFaults \in Nat

VARIABLES
    phase,       \* "entry", "installed" or "gone"
    det,         \* MshcDetectCard and what called it
    media,       \* mSdMedia
    info,        \* gCardInfo
    mSkipUhs,
    mDmaUsable,
    io,          \* the MshcReadWrite being made
    dma,         \* the descriptors the IDMAC was given
    rints,       \* MSHCI_RINTSTS
    fifo,
    resp,        \* the R1_ERROR_MASK bits of MSHCI_RESP0
    held,        \* the command in MSHCI_CMD that has not been sent yet
    hw,          \* the data stage the controller is in
    busy,        \* the card holds DAT0
    supply,      \* VQMMC
    seated,
    card,
    count,       \* calls, swaps and faults so far
    moved,       \* history: <<card, block>> of each block of the call's buffer
    names,       \* history: [id, card] of each publication
    blurred,     \* history: a failed detection left another card's CID in gCardInfo
    unsure,      \* history: gCardInfo is not of the card published, or a Reset cut the call
    late,        \* history: an error return left a command or its data to the controller,
                 \* which the call may have met
    result       \* history: what the last call was and returned

detVars  == <<phase, det, media, info, mSkipUhs, mDmaUsable>>
hwVars   == <<dma, rints, fifo, resp, held, hw, late>>
cardVars == <<busy, supply, seated, card>>
histVars == <<moved, names, blurred, unsure, result>>
vars     == <<detVars, io, hwVars, cardVars, count, histVars>>

NoInfo      == [cid |-> NoCard, type |-> "none", hc |-> FALSE, blocks |-> 0]
NoDetection == [at |-> "idle", op |-> "none", prev |-> NoCard, blocks |-> 0, again |-> FALSE]
NoCall      == [at |-> "idle", op |-> "none", lba |-> 0, pos |-> 0, left |-> 0, n |-> 0,
                todo |-> 0, seen |-> {}]
NoCommand   == [op |-> "none", arg |-> 0, n |-> 0]
NoData      == [op |-> "none", block |-> 0, left |-> 0, multi |-> FALSE]
Disarmed    == [on |-> FALSE, n |-> 0]
NoResult    == [status |-> "none", op |-> "none", lba |-> 0, len |-> 0, why |-> "none",
                sure |-> TRUE]

FreshCard == [st |-> "idle", volt |-> "3V3"]

\* MshcBoardInit has powered the slot and found a card in it.
Init ==
    /\ phase = "entry" /\ media = [present |-> FALSE, id |-> 0, last |-> 0]
    /\ det = [NoDetection EXCEPT !.at = "init", !.op = "entry"]
    /\ info = NoInfo /\ mSkipUhs = FALSE /\ mDmaUsable = FALSE
    /\ io = NoCall /\ dma = Disarmed
    /\ rints = {} /\ fifo = <<>> /\ resp = FALSE /\ held = NoCommand /\ hw = NoData
    /\ busy = FALSE /\ late = FALSE
    /\ supply = "3V3" /\ seated \in Cards /\ card = FreshCard
    /\ count = [calls |-> 0, swaps |-> 0, faults |-> 0]
    /\ moved = <<>> /\ names = <<>> /\ blurred = FALSE /\ unsure = FALSE /\ result = NoResult

Fault == count.faults < MaxFaults /\ count' = [count EXCEPT !.faults = @ + 1]
NoFault == count' = count

-----------------------------------------------------------------------------
(* MshcDetectCard.                                                          *)

\* The card is in a state where it answers, and signals at the bus voltage.
Hears(st) == seated # NoCard /\ card.st = st /\ card.volt = supply

Goto(l) == det' = [det EXCEPT !.at = l]

\* The card the current MediaId was published for.
Current == names[Len(names)].card

\* MshcDetectCard returned an error with gCardInfo as i.  MshcReset then calls
\* MshcRecoverCard, which takes from gCardInfo what the card was before.
DetectFails(i) ==
    /\ info' = i
    /\ \/ /\ det.op = "entry"
          /\ phase' = "gone" /\ det' = NoDetection /\ UNCHANGED <<media, result>>
       \/ /\ det.op = "reset" /\ ~det.again
          /\ det' = [det EXCEPT !.at = "cycle", !.prev = i.cid, !.blocks = i.blocks,
                                !.again = TRUE]
          /\ UNCHANGED <<phase, media, result>>
       \/ /\ det.op = "reset" /\ det.again
          /\ media' = [media EXCEPT !.present = FALSE, !.last = 0]
          /\ det' = NoDetection /\ UNCHANGED phase
          /\ result' = [NoResult EXCEPT !.status = "ERROR", !.op = "reset"]
    /\ blurred' = (blurred \/ (names # <<>> /\ i.cid \notin {NoCard, Current}))

\* A step of the identification: what it does to gCardInfo and the card when
\* it succeeds, and the error return.
Succeeds(l, i, c) ==
    /\ info' = i /\ card' = c /\ Goto(l)
    /\ NoFault /\ UNCHANGED <<phase, media, result, blurred>>

\* The command is not answered, or something goes wrong with it; the card
\* may have acted on it.
Refused(heard, c) ==
    /\ DetectFails(info)
    /\ \/ ~heard /\ NoFault /\ card' = card
       \/ heard /\ Fault /\ card' \in {card, c}

Identifying(l) ==
    /\ det.at = l
    /\ UNCHANGED <<mDmaUsable, io, hwVars, busy, seated, moved, names, unsure>>

\* MshcCtrlReset of the command and the FIFO; CTRL_RESET_ALL includes the IDMAC.
ResetAll ==
    /\ held' = NoCommand /\ hw' = NoData /\ fifo' = <<>> /\ rints' = {} /\ dma' = Disarmed
    /\ late' = (late /\ io.pos > 0)

\* gCardInfo is zero before anything can fail.
MshcInitialize ==
    /\ det.at = "init"
    /\ \/ /\ NoFault
          /\ info' = NoInfo /\ Goto("cmd0") /\ UNCHANGED <<phase, media, result, blurred>>
       \/ Fault /\ DetectFails(NoInfo)
    /\ mDmaUsable' \in {mDmaUsable, TRUE}
    /\ ResetAll
    /\ UNCHANGED <<mSkipUhs, io, resp, busy, supply, seated, card, moved, names, unsure>>

ResetTimesOut ==
    /\ det.at = "init"
    /\ Fault /\ DetectFails(NoInfo) /\ rints' = {}
    /\ UNCHANGED <<mSkipUhs, mDmaUsable, io, dma, fifo, resp, held, hw, late, cardVars, moved,
                   names, unsure>>

\* CMD0 has no response.
Idled ==
    IF card.st = "off" \/ card.volt # supply THEN card ELSE [card EXCEPT !.st = "idle"]

GoIdle ==
    /\ Identifying("cmd0")
    /\ \/ Succeeds("cmd8", info, Idled)
       \/ Refused(TRUE, Idled)
    /\ UNCHANGED <<mSkipUhs, supply>>

\* CMD8: no answer means a card of version 1.
SendIfCond ==
    /\ Identifying("cmd8")
    /\ LET v2 == Hears("idle") /\ seated \in HighCap \ Emmc IN
       \/ v2 /\ Succeeds("acmd41", [info EXCEPT !.type = "SD2"], card)
       \/ ~v2 /\ Succeeds("acmd41", [info EXCEPT !.type = "SD1"], card)
       \/ Fault /\ info' = [info EXCEPT !.type = "SD1"] /\ Goto("acmd41")
          /\ UNCHANGED <<phase, media, result, blurred, card>>
       \/ Refused(TRUE, card)
    /\ UNCHANGED <<mSkipUhs, supply>>

\* S18A: only a card at 3.3 V that was asked offers the switch.
Offers18 == seated \in Uhs /\ card.volt = "3V3" /\ info.type = "SD2"

\* The loop over ACMD41.  A card addressed by block stays in its power up phase
\* unless the host declared that it can do this, which it does after CMD8.
SendOpCond ==
    /\ Identifying("acmd41")
    /\ LET sd    == Hears("idle") /\ seated \notin Emmc
           ready == sd /\ (seated \in HighCap => info.type = "SD2")
           hc    == info.type = "SD2" /\ seated \in HighCap
       IN  \/ /\ ready
              /\ Succeeds(IF Offers18 /\ ~mSkipUhs THEN "cmd11" ELSE "cmd2",
                          [info EXCEPT !.hc = hc], [card EXCEPT !.st = "ready"])
           \/ ~sd /\ Succeeds("cmd1", info, Idled)
           \/ sd /\ Fault /\ info' = info /\ Goto("cmd1") /\ card' = Idled
              /\ UNCHANGED <<phase, media, result, blurred>>
           \/ sd /\ Refused(ready, card)
    /\ UNCHANGED <<mSkipUhs, supply>>

\* MshcMmcIdentify.
MmcSendOpCond ==
    /\ Identifying("cmd1")
    /\ LET mmc == Hears("idle") /\ seated \in Emmc IN
       \/ mmc /\ Succeeds("cmd2", [info EXCEPT !.type = "MMC", !.hc = (seated \in HighCap)],
                          [card EXCEPT !.st = "ready"])
       \/ Refused(mmc, card)
    /\ UNCHANGED <<mSkipUhs, supply>>

\* MshcBoardPowerCycle: a success; no PMIC; a rail that does not come back.
Absent == [FreshCard EXCEPT !.st = "off"]
Power(c, v) == card' = c /\ supply' = v
PowerCycle == Power(IF seated = NoCard THEN Absent ELSE FreshCard, "3V3")
PowerCycleFails == Power(card, supply) \/ Power(Absent, "off")

\* MshcSwitchTo1V8.  When it fails the card is power cycled, unless the error
\* was in the response to CMD11, and detection begins anew without it.
SwitchTo1V8 ==
    /\ Identifying("cmd11")
    /\ \/ /\ Hears("ready")
          /\ Succeeds("cmd2", info, [card EXCEPT !.volt = "1V8"])
          /\ supply' = "1V8" /\ UNCHANGED mSkipUhs
       \/ /\ IF Hears("ready") THEN Fault ELSE NoFault
          /\ mSkipUhs' = TRUE /\ Goto("init")
          /\ PowerCycle \/ PowerCycleFails \/ Power(Absent, supply)
          /\ UNCHANGED <<phase, media, info, result, blurred>>

AllSendCid ==
    /\ Identifying("cmd2")
    /\ LET c == [card EXCEPT !.st = "ident"] IN
       \/ Hears("ready") /\ Succeeds("cmd9", [info EXCEPT !.cid = seated], c)
       \/ Refused(Hears("ready"), c)
    /\ UNCHANGED <<mSkipUhs, supply>>

\* CMD3, CMD9 and MshcDecodeCsd; the size of an eMMC is read later.
SendCsd ==
    /\ Identifying("cmd9")
    /\ LET c == [card EXCEPT !.st = "stby"] IN
       \/ /\ Hears("ident")
          /\ Succeeds("cmd7", IF info.type = "MMC" THEN info
                              ELSE [info EXCEPT !.blocks = NumBlocks], c)
       \/ Refused(Hears("ident"), c)
    /\ UNCHANGED <<mSkipUhs, supply>>

\* CMD7, the configuration registers, CMD16 and the bus width.
Select ==
    /\ Identifying("cmd7")
    /\ LET c == [card EXCEPT !.st = "tran"] IN
       \/ Hears("stby") /\ Succeeds("mode", [info EXCEPT !.blocks = NumBlocks], c)
       \/ Refused(Hears("stby"), c)
    /\ UNCHANGED <<mSkipUhs, supply>>

\* MshcConfigureCard from the access mode on.  A failed switch or tuning is no
\* error, a clock that cannot be set is, except for an eMMC.
SetAccessMode ==
    /\ Identifying("mode")
    /\ \/ Succeeds("done", info, card)
       \/ info.type # "MMC" /\ Fault /\ UNCHANGED card /\ DetectFails(info)
    /\ UNCHANGED <<mSkipUhs, supply>>

\* MshcRecoverCard compares the size too.
DifferentSize == det.again /\ det.blocks # info.blocks
Different == det.prev # info.cid \/ (det.again /\ det.blocks # info.blocks)

DetectDone ==
    /\ det.at = "done"
    /\ LET change == det.op = "reset" /\ Different IN
       /\ media' = [present |-> TRUE, last |-> info.blocks - 1,
                    id |-> IF change THEN media.id + 1 ELSE media.id]
       /\ result' = [NoResult EXCEPT !.op = det.op,
                        !.status = IF change /\ det.again THEN "MEDIA_CHANGED" ELSE "SUCCESS"]
    /\ names' = Append(names, [id |-> media'.id, card |-> info.cid])
    /\ det' = NoDetection
    /\ \/ phase' = "installed" /\ NoFault
       \/ det.op = "entry" /\ phase' = "gone" /\ Fault
    /\ UNCHANGED <<info, mSkipUhs, mDmaUsable, io, hwVars, cardVars, moved, blurred, unsure>>

\* The power cycle of MshcRecoverCard.  If it fails the media stays as it was.
RecoverCard ==
    /\ det.at = "cycle"
    /\ \/ PowerCycle /\ NoFault /\ Goto("init") /\ UNCHANGED result
       \/ /\ PowerCycleFails /\ Fault /\ det' = NoDetection
          /\ result' = [NoResult EXCEPT !.op = "reset", !.status = "ERROR"]
    /\ UNCHANGED <<phase, media, info, mSkipUhs, mDmaUsable, io, hwVars, busy, seated,
                   moved, names, blurred, unsure>>

Detection ==
    \/ MshcInitialize \/ ResetTimesOut \/ GoIdle \/ SendIfCond \/ SendOpCond \/ MmcSendOpCond
    \/ SwitchTo1V8 \/ AllSendCid \/ SendCsd \/ Select \/ SetAccessMode \/ DetectDone
    \/ RecoverCard

-----------------------------------------------------------------------------
(* Reset, ReadBlocks and WriteBlocks.                                       *)

\* Between two passes of a transfer TPL is restored: a notification may call.
BetweenPasses == io.at = "prepare" /\ io.pos > 0

MayCall ==
    /\ phase = "installed" /\ det.at = "idle" /\ count.calls < MaxCalls

MshcReset ==
    /\ MayCall /\ (io.at = "idle" \/ BetweenPasses)
    /\ count' = [count EXCEPT !.calls = @ + 1]
    /\ det' = [NoDetection EXCEPT !.at = "init", !.op = "reset", !.prev = info.cid]
    /\ unsure' = BetweenPasses /\ result' = NoResult
    /\ UNCHANGED <<phase, media, info, mSkipUhs, mDmaUsable, io, hwVars, cardVars, moved, names,
                   blurred>>

\* Reset without extended verification; the reset may time out.
MshcResetAll ==
    /\ MayCall /\ (io.at = "idle" \/ BetweenPasses)
    /\ \/ count' = [count EXCEPT !.calls = @ + 1] /\ ResetAll
       \/ /\ count.faults < MaxFaults
          /\ count' = [count EXCEPT !.calls = @ + 1, !.faults = @ + 1]
          /\ rints' = {} /\ UNCHANGED <<dma, fifo, held, hw, late>>
    /\ UNCHANGED <<detVars, io, resp, cardVars, histVars>>

\* Only the first block is compared with LastBlock.
MshcReadWrite ==
    /\ MayCall /\ io.at = "idle" /\ media.present
    /\ \E op \in {"read", "write"}, lba \in 0 .. media.last, len \in 1 .. MaxLen :
          io' = [NoCall EXCEPT !.at = "prepare", !.op = op, !.lba = lba, !.left = len]
    /\ count' = [count EXCEPT !.calls = @ + 1]
    /\ moved' = <<>> /\ unsure' = (info.cid # Current) /\ result' = NoResult
    /\ UNCHANGED <<detVars, hwVars, cardVars, names, blurred>>

Returns(status, why) ==
    /\ io' = NoCall
    /\ result' = [status |-> status, op |-> io.op, lba |-> io.lba - io.pos,
                  len |-> io.pos + io.left, why |-> why,
                  sure |-> ~unsure /\ ~late]

Driver(l) ==
    /\ det.at = "idle" /\ io.at = l
    /\ UNCHANGED <<detVars, names, blurred, unsure, supply, seated, card>>

Pass(left) == IF left < MaxPass THEN left ELSE MaxPass

\* The FIFO is reset and, with DMA, the descriptors are written and the IDMAC
\* enabled; the buffer may not be mappable.
MshcPrepareTransfer ==
    /\ Driver("prepare")
    /\ fifo' = <<>> /\ rints' = {}
    /\ LET n == Pass(io.left) IN
       \/ /\ NoFault /\ dma' = (IF mDmaUsable THEN [on |-> TRUE, n |-> n] ELSE dma)
          /\ io' = [io EXCEPT !.at = "send", !.n = n, !.todo = n] /\ UNCHANGED result
       \/ mDmaUsable /\ Fault /\ UNCHANGED dma /\ Returns("ERROR", "map")
    /\ late' = (late /\ (io.pos > 0 \/ held # NoCommand \/ hw # NoData))
    /\ UNCHANGED <<resp, held, hw, busy, moved>>

CmdArgumentPlain == io.lba
CmdArgument == IF info.hc THEN io.lba ELSE io.lba * BlockSize

\* MshcWaitDataBusy gives up on a card that stays busy, after a reset of the
\* controller.  The command is lost if the one before was not sent yet.
MshcSendCmd ==
    /\ Driver("send")
    /\ LET c == [op |-> io.op, arg |-> CmdArgument, n |-> io.n] IN
       IF busy
       THEN /\ held' = c /\ hw' = NoData /\ fifo' = <<>> /\ rints' = {}
            /\ late' = (late /\ (io.pos > 0 \/ moved # <<>>))
       ELSE IF held = NoCommand
       THEN held' = c /\ rints' = {} /\ UNCHANGED <<hw, fifo, late>>
       ELSE rints' = {"HLE"} /\ UNCHANGED <<held, hw, fifo, late>>
    /\ io' = [io EXCEPT !.at = "cmd"]
    /\ UNCHANGED <<dma, resp, busy, count, moved, result>>

\* MshcRecover leaves the IDMAC alone.
RecoverNot == UNCHANGED <<held, hw, fifo, rints, late>>
MshcRecover ==
    held' = NoCommand /\ hw' = NoData /\ fifo' = <<>> /\ rints' = {} /\ late' = FALSE

CmdAnswered ==
    /\ Driver("cmd")
    /\ \/ /\ rints \intersect {"RTO", "RERR"} # {}
          /\ rints' = {} /\ Returns("ERROR", "command")
          /\ late' = (late \/ hw # NoData) /\ UNCHANGED <<held, hw, fifo>>
       \/ /\ rints \intersect {"CDONE", "RTO", "RERR"} = {"CDONE"} /\ resp
          /\ MshcRecover /\ Returns("ERROR", "rejected")
       \/ /\ rints \intersect {"CDONE", "RTO", "RERR"} = {"CDONE"} /\ ~resp
          /\ io' = [io EXCEPT !.at = "data"]
          /\ UNCHANGED <<result, held, hw, fifo, rints, late>>
    /\ UNCHANGED <<dma, resp, busy, count, moved>>

\* A second has passed: something kept the controller from sending it.
CannotSendNever == FALSE
CannotSend == held = NoCommand \/ busy \/ hw # NoData

CmdTimesOut ==
    /\ Driver("cmd")
    /\ rints \intersect {"CDONE", "RTO", "RERR"} = {} /\ CannotSend
    /\ late' = TRUE /\ Returns("ERROR", "timeout")
    /\ UNCHANGED <<dma, rints, fifo, resp, held, hw, busy, count, moved>>

DATA_ERR == {"DERR", "HLE"}

\* What follows the data of a pass.
NextPass ==
    IF io.left = io.n
    THEN Returns("SUCCESS", "none")
    ELSE /\ io' = [io EXCEPT !.at = "prepare", !.lba = @ + io.n, !.pos = @ + io.n,
                             !.left = @ - io.n, !.n = 0, !.todo = 0]
         /\ UNCHANGED result
DataOver == IF io.n > 1 THEN io' = [io EXCEPT !.at = "stop"] /\ UNCHANGED result ELSE NextPass

\* Nothing came for a second.
Silent == rints \intersect (DATA_ERR \union {"DTO"}) = {}

MshcFinishDma ==
    /\ mDmaUsable /\ Driver("data")
    /\ dma' = Disarmed
    /\ \/ /\ rints \intersect DATA_ERR # {} \/ Silent
          /\ MshcRecover /\ Returns("ERROR", "data")
       \/ /\ rints \intersect DATA_ERR = {} /\ "DTO" \in rints
          /\ rints' = rints \ {"DTO"} /\ DataOver /\ UNCHANGED <<held, hw, fifo, late>>
    /\ UNCHANGED <<resp, busy, count, moved>>

\* MshcReadData and MshcWriteData without DMA: the status is read before the
\* count of the FIFO.
PioStatus ==
    /\ ~mDmaUsable /\ Driver("data")
    /\ IF rints \intersect DATA_ERR # {}
       THEN MshcRecover /\ Returns("ERROR", "data")
       ELSE io' = [io EXCEPT !.at = "pio", !.seen = rints]
            /\ UNCHANGED <<result, held, hw, fifo, rints, late>>
    /\ UNCHANGED <<dma, resp, busy, count, moved>>

Taken(k) == [io EXCEPT !.at = IF io.todo = k THEN "done" ELSE "data", !.todo = @ - k,
                       !.seen = {}]

CardSentAny(seen) == "CDONE" \in seen
CardSentTooFew(seen) == "DTO" \in seen

MshcReadData ==
    /\ io.op = "read" /\ Driver("pio")
    /\ \/ /\ fifo = <<>> /\ CardSentTooFew(io.seen)
          /\ MshcRecover /\ Returns("ERROR", "short") /\ UNCHANGED moved
       \/ /\ fifo = <<>> /\ ~CardSentTooFew(io.seen)
          /\ io' = Taken(0)
          /\ UNCHANGED <<result, held, hw, fifo, rints, late, moved>>
       \/ /\ fifo # <<>>
          /\ LET k == IF Len(fifo) < io.todo THEN Len(fifo) ELSE io.todo IN
             /\ moved' = moved \o SubSeq(fifo, 1, k)
             /\ fifo' = SubSeq(fifo, k + 1, Len(fifo))
             /\ io' = Taken(k)
          /\ UNCHANGED <<result, held, hw, rints, late>>
    /\ UNCHANGED <<dma, resp, busy, count>>

\* One block at a time fits the FIFO.
MshcWriteData ==
    /\ io.op = "write" /\ Driver("pio")
    /\ IF fifo = <<>> THEN fifo' = <<NoCard>> /\ io' = Taken(1)
                      ELSE io' = Taken(0) /\ UNCHANGED fifo
    /\ UNCHANGED <<dma, rints, resp, held, hw, late, busy, count, moved, result>>

PioTimesOut ==
    /\ Driver("pio")
    /\ IF io.op = "read" THEN fifo = <<>> /\ ~CardSentTooFew(io.seen) ELSE fifo # <<>>
    /\ MshcRecover /\ Returns("ERROR", "data")
    /\ UNCHANGED <<dma, resp, busy, count, moved>>

\* No MshcRecover here.
MshcWaitTransferDone ==
    /\ Driver("done")
    /\ \/ /\ rints \intersect DATA_ERR # {} \/ Silent
          /\ Returns("ERROR", "data") /\ late' = (late \/ hw # NoData) /\ UNCHANGED rints
       \/ /\ rints \intersect DATA_ERR = {} /\ "DTO" \in rints
          /\ rints' = rints \ {"DTO"} /\ DataOver /\ UNCHANGED late
    /\ UNCHANGED <<dma, fifo, resp, held, hw, busy, count, moved>>

MshcWaitAutoStop ==
    /\ Driver("stop")
    /\ \/ "ACD" \in rints /\ rints' = rints \ {"ACD"} /\ NextPass /\ UNCHANGED late
       \/ /\ "ACD" \notin rints /\ UNCHANGED rints
          /\ Returns("ERROR", "stop") /\ late' = (late \/ hw # NoData)
    /\ UNCHANGED <<dma, fifo, resp, held, hw, busy, count, moved>>

Transfer ==
    \/ MshcPrepareTransfer \/ MshcSendCmd \/ CmdAnswered \/ CmdTimesOut \/ MshcFinishDma
    \/ PioStatus \/ MshcReadData \/ MshcWriteData \/ PioTimesOut \/ MshcWaitTransferDone
    \/ MshcWaitAutoStop

-----------------------------------------------------------------------------
(* The controller and the card.                                             *)

\* What the card makes of an argument.
Block(arg) == IF seated \in HighCap THEN arg ELSE arg \div BlockSize
InRange(arg) ==
    Block(arg) < NumBlocks /\ (seated \notin HighCap => arg % BlockSize = 0)

DataOf(c) == [op |-> c.op, block |-> Block(c.arg), left |-> c.n, multi |-> c.n > 1]

\* The response may be lost on a command the card has taken.
HwCommand ==
    /\ held # NoCommand /\ hw = NoData /\ ~busy
    /\ held' = NoCommand
    /\ \/ /\ Hears("tran") /\ NoFault
          /\ rints' = rints \union {"CDONE"} /\ resp' = ~InRange(held.arg) /\ hw' = DataOf(held)
       \/ ~Hears("tran") /\ NoFault /\ rints' = rints \union {"RTO"} /\ UNCHANGED <<resp, hw>>
       \/ /\ Hears("tran") /\ Fault
          /\ \/ rints' = rints \union {"RTO"} /\ UNCHANGED <<resp, hw>>
             \/ /\ rints' = rints \union {"RERR"} /\ resp' = ~InRange(held.arg)
                /\ hw' \in {NoData, DataOf(held)}
    /\ UNCHANGED <<detVars, io, dma, fifo, late, cardVars, histVars>>

Moving == hw.op \in {"read", "write"} /\ hw.left > 0
Sends  == Hears("tran") /\ ~resp /\ hw.block < NumBlocks
Room   == IF mDmaUsable THEN dma.on /\ dma.n > 0
          ELSE IF hw.op = "read" THEN fifo = <<>> ELSE fifo # <<>>

HwMove ==
    /\ Moving /\ Sends /\ Room
    /\ hw' = [hw EXCEPT !.block = @ + 1, !.left = @ - 1]
    /\ LET unit == <<seated, hw.block>>
           mine == io.at \notin {"idle", "prepare"}
       IN  IF mDmaUsable
           THEN /\ dma' = [dma EXCEPT !.n = @ - 1] /\ UNCHANGED fifo
                /\ moved' = IF mine THEN Append(moved, unit) ELSE moved
           ELSE /\ fifo' = (IF hw.op = "read" THEN <<unit>> ELSE <<>>) /\ UNCHANGED dma
                /\ moved' = IF mine /\ hw.op = "write" THEN Append(moved, unit) ELSE moved
    /\ UNCHANGED <<detVars, io, rints, resp, held, late, cardVars, count, names, blurred, unsure,
                   result>>

\* A card that was written to is busy.
HwDataDone ==
    /\ hw.op \in {"read", "write"} /\ hw.left = 0
    /\ rints' = rints \union {"DTO"}
    /\ hw' = (IF hw.multi THEN [hw EXCEPT !.op = "stop"] ELSE NoData)
    /\ busy' = (busy \/ hw.op = "write")
    /\ UNCHANGED <<detVars, io, dma, fifo, resp, held, late, supply, seated, card, count,
                   histVars>>

HwDataError ==
    /\ Moving
    /\ \/ NoFault /\ (~Sends \/ (mDmaUsable /\ ~Room))
       \/ Fault
    /\ rints' = rints \union {"DERR"} /\ hw' = NoData
    /\ UNCHANGED <<detVars, io, dma, fifo, resp, held, late, cardVars, histVars>>

HwAutoStop ==
    /\ hw.op = "stop"
    /\ rints' = rints \union {"ACD"} /\ hw' = NoData
    /\ UNCHANGED <<detVars, io, dma, fifo, resp, held, late, cardVars, count, histVars>>

CardReady ==
    /\ busy /\ busy' = FALSE
    /\ UNCHANGED <<detVars, io, hwVars, supply, seated, card, count, histVars>>

Swap ==
    /\ count.swaps < MaxSwaps /\ count' = [count EXCEPT !.swaps = @ + 1]
    /\ seated' \in (Cards \union {NoCard}) \ {seated}
    /\ card' = (IF seated' = NoCard \/ supply = "off" THEN Absent ELSE FreshCard)
    /\ busy' = FALSE
    /\ UNCHANGED <<detVars, io, hwVars, supply, histVars>>

Controller == HwCommand \/ HwMove \/ HwDataDone \/ HwDataError \/ HwAutoStop

Next ==
    \/ Detection \/ Transfer \/ Controller
    \/ MshcReset \/ MshcResetAll \/ MshcReadWrite
    \/ CardReady \/ Swap

Spec == Init /\ [][Next]_vars

\* Polls are counted, so the loop on the FIFO ends too.  A command that can be
\* sent is answered or times out in the controller; nothing is asked of the card.
FairSpec ==
    /\ Spec /\ WF_vars(Detection) /\ WF_vars(Transfer) /\ SF_vars(PioTimesOut)
    /\ WF_vars(HwCommand)

-----------------------------------------------------------------------------
(* Properties.                                                              *)

Bits == {"CDONE", "RTO", "RERR", "HLE", "DERR", "DTO", "ACD"}

\* The ranges of the driver's and the controller's state: what is left of a
\* request never underflows, and a FIFO or a descriptor list never holds more
\* than a pass (MshcReadWrite, MshcStartDma).
TypeOK ==
    /\ phase \in {"entry", "installed", "gone"}
    /\ det.at \in {"idle", "init", "cmd0", "cmd8", "acmd41", "cmd1", "cmd11", "cmd2", "cmd9",
                   "cmd7", "mode", "done", "cycle"}
    /\ media.present \in BOOLEAN /\ media.id \in 0 .. MaxCalls /\ media.last \in 0 .. NumBlocks
    /\ info.cid \in Cards \union {NoCard} /\ info.blocks \in {0, NumBlocks}
    /\ io.left \in 0 .. MaxLen /\ io.n \in 0 .. MaxPass /\ io.todo \in 0 .. io.n
    /\ io.n <= io.left
    /\ dma.n \in 0 .. MaxPass /\ Len(fifo) <= MaxPass /\ rints \subseteq Bits
    /\ card.volt \in {"3V3", "1V8"} /\ supply \in {"off", "3V3", "1V8"}

\* ReadBlocks and WriteBlocks return EFI_SUCCESS only when every block of the
\* request went between the buffer and the block of that number on the card
\* the MediaId was published for.  Exempt are a call that a Reset cut in two,
\* one made while gCardInfo, after a Reset that failed, is zero or another
\* card's, and one that met the data of a command MshcSendCmd had given up.
SuccessIsReal ==
    (result.status = "SUCCESS" /\ result.op \in {"read", "write"} /\ result.sure)
    => moved = [i \in 1 .. result.len |-> <<Current, result.lba + i - 1>>]

\* After a call has returned, the IDMAC, which error returns leave enabled on
\* the caller's buffer, is not used by a data stage, unless MshcSendCmd failed
\* on a command whose data was still to come.
QuietAfterReturn ==
    (io.at = "idle" /\ dma.on /\ (held # NoCommand \/ hw # NoData)) => late

\* A MediaId is never published for two cards: MshcReset and MshcRecoverCard
\* notice every other card, unless a detection that failed after CMD2 has left
\* its CID in gCardInfo.
MediaIdNamesOneCard ==
    ~blurred => \A i, j \in 1 .. Len(names) :
                   names[i].id = names[j].id => names[i].card = names[j].card

\* MshcReadData never takes a transfer for short: the status is read before the
\* count, so DTO with an empty FIFO means that nothing is under way.
NeverShort == result.why = "short" => ~result.sure

\* Every call returns, and detection ends, however long the card stays busy.
CallsReturn == []<>(det.at = "idle" /\ io.at = "idle")
=============================================================================
