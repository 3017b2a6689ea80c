------------------------------ MODULE MsdcHost ------------------------------
(***************************************************************************)
(* MsdcDxe: one host of the loop in InitMsdc, from MsdcInit over the two   *)
(* card detection routines to the commands clients send through            *)
(* EFI_SD_MMC_PASS_THRU_PROTOCOL.                                          *)
(*                                                                         *)
(* The driver polls and has no timeout of its own; the controller executes *)
(* commands, fills and empties the FIFO and raises interrupt status bits   *)
(* beside it.  A bit stays until the driver writes it back.                *)
(*                                                                         *)
(* Data is counted in units, a fraction of the FIFO and at least one word. *)
(* A response is the one bit of it that is looked at.                      *)
(***************************************************************************)
EXTENDS Integers, Sequences

CONSTANTS
    FifoSize,     \* MSDC_FIFO_SIZE in units
    BlockUnits,   \* BLOCK_SIZE in units
    MaxBlocks,    \* longest transfer of a client, in blocks
    MaxCalls,     \* bound on the calls of PassThru by clients
    MaxBusy,      \* SEND_OP_COND commands a card may answer with "busy"
    Faults        \* what may go wrong

AllFaults == {"cmd", "data", "acmd", "overrun", "switch", "memory"}

ASSUME MsdcAssumption ==
    /\ FifoSize \in Nat \ {0} /\ BlockUnits \in Nat \ {0}
    /\ MaxBlocks \in Nat \ {0} /\ MaxCalls \in Nat /\ MaxBusy \in Nat
    /\ Faults \subseteq AllFaults

EmmcIdentification ==
    <<"CardReset", "EMMCSendOpCond", "CardAllSendCid", "EMMCSetRca",
      "CardSelect", "EMMCSwitch", "CardSendStatus">>

\* SdCardSendOpCond is the application prefix and the command; the first one
\* only asks for the voltages.
SdCardIdentification ==
    <<"CardReset", "SdSendIfCond", "AppCmd", "SdAskOpCond", "AppCmd", "SdCardSendOpCond",
      "CardAllSendCid", "SdCardSetRca", "CardSelect", "SdCardSwitch", "CardSendStatus">>

CardDetectRoutineTable == <<EmmcIdentification, SdCardIdentification>>

VARIABLES
    phase,      \* "alloc", "detect", "install", "installed", "freed" or "leaked"
    routine,    \* j of InitMsdc, from 1
    step,       \* position in the routine
    CardType,
    Mclk,       \* "none", "400kHz" or "50MHz"
    pc,         \* where MsdcSendCmd is
    cmd,        \* the packet
    seen,       \* IntStatus of MsdcPioRead
    RemainSize,
    burst,      \* units MsdcFifoWrite has still to write
    result,     \* what the last call returned
    calls,      \* number of calls by clients
    int,        \* MSDC_INT
    rx, tx,     \* the FIFO, by direction
    resp,       \* SDC_RESP0: the bit looked at
    hw,         \* the command being executed
    card,
    moved,      \* history: units read into the buffer, or written to the card
    erred,      \* history: an error was raised for this command
    stray,      \* history: auto CMD12 has raised a bit
    dirty,      \* history: a data stage was broken off, or run by a failed command
    lost        \* history: a unit was written to a full FIFO

hostVars == <<phase, routine, step, CardType, Mclk>>
callVars == <<pc, cmd, seen, RemainSize, burst, result, calls>>
hwVars   == <<int, rx, tx, resp, hw, card>>
histVars == <<moved, erred, stray, dirty, lost>>
vars     == <<hostVars, callVars, hwVars, histVars>>

Can(f) == f \in Faults

Packet(what, len) == [what |-> what, len |-> len]
NoPacket == Packet("none", 0)

Reads  == {"READ_SINGLE_BLOCK", "SEND_EXT_CSD", "READ_MULTIPLE_BLOCK"}
Writes == {"WRITE_SINGLE_BLOCK", "WRITE_MULTIPLE_BLOCK"}
Multi  == {"READ_MULTIPLE_BLOCK", "WRITE_MULTIPLE_BLOCK"}

\* What clients send.  "R5B" is a packet with a response type that is refused.
Packets ==
    {Packet(w, BlockUnits) : w \in (Reads \union Writes) \ Multi}
    \union {Packet(w, n * BlockUnits) : w \in Multi, n \in 1 .. MaxBlocks}
    \union {Packet(w, 0) : w \in {"CardSendStatus", "STOP_TRANSMISSION", "R5B"}}

IsDataTransfer(c) == c.what \in Reads \union Writes
AUTO12(c) == c.what \in Multi /\ CardType = "SdCard"

\* SDC_BLK_NUM, in units.
BlkLen(c) == IF c.what \in Multi THEN c.len ELSE BlockUnits

CMDSTS == {"CMDRDY", "CMDTMO", "CMDCRCERR", "ACMDRDY", "ACMDTMO", "ACMDCRCERR"}
DATSTS == {"DATTMO", "DATCRCERR", "XFER_COMPL"}

Idle == [stage |-> "idle", cmd |-> NoPacket, done |-> 0, call |-> 0]

\* What the FIFO holds for the k-th unit of a call's data.  MsdcFifoRead takes
\* whole words from it; MsdcFifoWrite stores *ByteBuffer, one byte of the
\* buffer, in each word.
Unit(call, k, whole) == [call |-> call, k |-> k, whole |-> whole]

\* The registers are as an earlier boot stage left them.
Init ==
    /\ phase = "alloc" /\ routine = 1 /\ step = 1 /\ CardType = "UnknownCard" /\ Mclk = "none"
    /\ pc = "idle" /\ cmd = NoPacket /\ seen = {} /\ RemainSize = 0 /\ burst = 0
    /\ result = "none" /\ calls = 0
    /\ int \in {{}, {"CMDRDY"}, {"ACMDRDY"}, {"XFER_COMPL"}, {"CMDTMO"}}
    /\ rx \in {<<>>, <<Unit(-1, 1, TRUE)>>} /\ tx = <<>> /\ resp = FALSE /\ hw = Idle
    /\ card \in [kind : {"none", "EmmcCard", "SdCard"}, st : {"idle"}, busy : 0 .. MaxBusy,
                 error : {FALSE}]
    /\ moved = <<>> /\ erred = FALSE /\ stray = FALSE /\ dirty = FALSE /\ lost = FALSE

-----------------------------------------------------------------------------
(* InitMsdc.                                                                *)

\* The beginning of a detection routine.
Detect(r) == routine' = r /\ step' = 1 /\ Mclk' = "400kHz"

\* Reset, then clear FIFO and interrupt status.
MsdcInitDirty == int' = int /\ rx' = rx /\ tx' = tx
MsdcInit == int' = {} /\ rx' = <<>> /\ tx' = <<>>

\* A missing memory region leaves both allocations behind.
StartHost ==
    /\ phase = "alloc"
    /\ \/ phase' = "detect" /\ MsdcInit /\ Detect(1)
       \/ Can("memory") /\ phase' = "leaked" /\ UNCHANGED <<int, rx, tx, routine, step, Mclk>>
    /\ UNCHANGED <<CardType, callVars, resp, hw, card, histVars>>

InstallHost ==
    /\ phase = "install"
    /\ \/ phase' = "installed"
       \/ Can("memory") /\ phase' = "freed"
    /\ UNCHANGED <<routine, step, CardType, Mclk, callVars, hwVars, histVars>>

Command == CardDetectRoutineTable[routine][step]

RoutineFails ==
    /\ IF routine < Len(CardDetectRoutineTable)
       THEN Detect(routine + 1) /\ UNCHANGED phase
       ELSE phase' = "freed" /\ UNCHANGED <<routine, step, Mclk>>
    /\ UNCHANGED CardType

\* (Ocr & BIT31) == 0 repeats the command, with its prefix for an SD card.
NotReady == ~resp /\ Command \in {"EMMCSendOpCond", "SdCardSendOpCond"}
AskAgain == step' = step - (IF Command = "SdCardSendOpCond" THEN 1 ELSE 0)

\* DevStatus & BIT7
SwitchError == resp /\ Command = "CardSendStatus"

\* A detection routine goes on after a command.
Identify(status) ==
    /\ phase = "detect"
    /\ \/ (status # "SUCCESS" \/ SwitchError) /\ RoutineFails
       \/ /\ status = "SUCCESS" /\ NotReady
          /\ AskAgain /\ UNCHANGED <<phase, routine, CardType, Mclk>>
       \/ /\ status = "SUCCESS" /\ ~NotReady /\ ~SwitchError
          /\ CardType' = CASE Command = "EMMCSetRca"   -> "EmmcCard"
                           [] Command = "SdCardSetRca" -> "SdCard"
                           [] OTHER                    -> CardType
          /\ IF step = Len(CardDetectRoutineTable[routine])
             THEN phase' = "install" /\ Mclk' = "50MHz" /\ UNCHANGED step
             ELSE step' = step + 1 /\ UNCHANGED <<phase, Mclk>>
          /\ UNCHANGED routine

-----------------------------------------------------------------------------
(* MsdcSendCmd.                                                             *)

\* MsdcSendCmd returns to a detection routine or to the client.
Return(status) ==
    /\ pc' = "idle" /\ result' = status
    /\ Identify(status) \/ (phase = "installed" /\ UNCHANGED hostVars)

Begin(c) ==
    /\ pc = "idle"
    /\ pc' = "busy" /\ cmd' = c
    /\ moved' = <<>> /\ erred' = FALSE
    /\ UNCHANGED <<hostVars, seen, RemainSize, burst, hwVars, stray, dirty, lost>>

SendDetect == phase = "detect" /\ Begin(Packet(Command, 0)) /\ UNCHANGED <<result, calls>>

\* MsdcPassThru.
PassThru(c) ==
    /\ phase = "installed" /\ calls < MaxCalls /\ calls' = calls + 1
    /\ \/ c.what # "R5B" /\ Begin(c) /\ UNCHANGED result
       \/ /\ c.what = "R5B" /\ pc = "idle" /\ Return("INVALID_PARAMETER")
          /\ cmd' = c /\ moved' = <<>> /\ erred' = FALSE
          /\ UNCHANGED <<seen, RemainSize, burst, hwVars, stray, dirty, lost>>

\* Waits for MsdcCheckBusy, then writes SDC_CMD.  No status bit is cleared.
WriteCmd ==
    /\ pc = "busy" /\ hw = Idle
    /\ pc' = "poll" /\ hw' = [Idle EXCEPT !.stage = "cmd", !.cmd = cmd, !.call = calls]
    /\ UNCHANGED <<hostVars, cmd, seen, RemainSize, burst, result, calls,
                   int, rx, tx, resp, card, histVars>>

\* The order in which MsdcIntTrackError looks at the bits.
StatusOf(bits) ==
    CASE "CMDTMO" \in bits      -> "TIMEOUT"
      [] "CMDCRCERR" \in bits   -> "CRC_ERROR"
      [] "ACMDTMO" \in bits     -> "TIMEOUT"
      [] "ACMDCRCERR" \in bits  -> "CRC_ERROR"
      [] "DATTMO" \in bits      -> "TIMEOUT"
      [] "DATCRCERR" \in bits   -> "CRC_ERROR"
      [] OTHER                  -> "DEVICE_ERROR"

MsdcIntTrackError(mask, bits) == int' = int \ (bits \intersect mask) /\ Return(StatusOf(bits))

\* MsdcPollInterrupts: any bit of CMDSTS ends the wait, CMDRDY is success.
AwaitedOnlyReady == {"CMDRDY"}
Awaited == CMDSTS

MsdcPollInterrupts ==
    /\ pc = "poll" /\ int \intersect Awaited # {}
    /\ \/ /\ "CMDRDY" \in int
          /\ int' = int \ {"CMDRDY"}
          /\ \/ IsDataTransfer(cmd) /\ RemainSize' = cmd.len /\ UNCHANGED <<hostVars, result>>
                /\ pc' = IF cmd.what \in Reads THEN "read" ELSE "write"
             \/ ~IsDataTransfer(cmd) /\ Return("SUCCESS") /\ UNCHANGED RemainSize
       \/ "CMDRDY" \notin int /\ MsdcIntTrackError(CMDSTS, int) /\ UNCHANGED RemainSize
    /\ UNCHANGED <<cmd, seen, burst, calls, rx, tx, resp, hw, card, histVars>>

ChunkSize == IF RemainSize > FifoSize THEN FifoSize ELSE RemainSize

\* MsdcFifoRead.  An empty FIFO reads as anything.
MsdcFifoRead(n) == [k \in 1 .. n |-> IF k <= Len(rx) THEN rx[k] ELSE Unit(-2, k, TRUE)]

ReadErrors  == {"DATTMO", "DATCRCERR", "ACMDTMO", "ACMDCRCERR"}
WriteErrors == {"DATTMO", "DATCRCERR"}

\* MsdcPioRead reads the interrupt status first and the FIFO after it.
PioReadStatus ==
    /\ pc = "read"
    /\ \/ /\ int \intersect ReadErrors # {}
          /\ MsdcIntTrackError(DATSTS, int) /\ UNCHANGED seen
       \/ /\ int \intersect ReadErrors = {}
          /\ seen' = int /\ pc' = "drain" /\ UNCHANGED <<hostVars, result, int>>
    /\ UNCHANGED <<cmd, RemainSize, burst, calls, rx, tx, resp, hw, card, histVars>>

\* RxBytes >= ChunkSize
RxAny == rx # <<>> \/ RemainSize = 0
RxEnough == Len(rx) >= ChunkSize

\* XFER_COMPL is written back, for both directions.
XferKept == int
XferCleared == int \ {"XFER_COMPL"}

PioReadFifo ==
    /\ pc = "drain"
    /\ IF RxEnough
       THEN /\ moved' = moved \o MsdcFifoRead(ChunkSize)
            /\ rx' = SubSeq(rx, ChunkSize + 1, Len(rx))
            /\ RemainSize' = RemainSize - ChunkSize
       ELSE UNCHANGED <<moved, rx, RemainSize>>
    /\ seen' = {}
    /\ IF "XFER_COMPL" \in seen
       THEN /\ int' = XferCleared
            /\ Return(IF RemainSize' = 0 THEN "SUCCESS" ELSE "ABORTED")
       ELSE pc' = "read" /\ UNCHANGED <<hostVars, result, int>>
    /\ UNCHANGED <<cmd, burst, calls, tx, resp, hw, card, erred, stray, dirty, lost>>

\* MsdcFifoTxBytes leaves the count in bits 16 to 23, so the difference to
\* MSDC_FIFO_SIZE wraps around for a FIFO that is not empty (2^24 stands for
\* the UINT32).
TxRoom == (FifoSize - Len(tx) * 2^16) % 2^24

PioWrite ==
    /\ pc = "write"
    /\ \/ /\ int \intersect WriteErrors # {}
          /\ MsdcIntTrackError(DATSTS, int) /\ UNCHANGED burst
       \/ /\ int \intersect WriteErrors = {} /\ "XFER_COMPL" \in int
          /\ int' = XferCleared
          /\ Return(IF RemainSize = 0 THEN "SUCCESS" ELSE "ABORTED") /\ UNCHANGED burst
       \/ /\ int \intersect (WriteErrors \union {"XFER_COMPL"}) = {}
          /\ ChunkSize > 0 /\ TxRoom >= ChunkSize
          /\ pc' = "push" /\ burst' = ChunkSize /\ UNCHANGED <<hostVars, result, int>>
    /\ UNCHANGED <<cmd, seen, RemainSize, calls, rx, tx, resp, hw, card, histVars>>

\* MsdcFifoWrite.  A full FIFO makes the write wait, or swallows it.
FifoWriteUnit ==
    /\ pc = "push"
    /\ \/ /\ Len(tx) < FifoSize
          /\ tx' = Append(tx, Unit(calls, cmd.len - RemainSize + 1, FALSE)) /\ UNCHANGED lost
       \/ /\ Len(tx) >= FifoSize /\ Can("overrun")
          /\ lost' = TRUE /\ UNCHANGED tx
    /\ RemainSize' = RemainSize - 1 /\ burst' = burst - 1
    /\ pc' = IF burst = 1 THEN "write" ELSE "push"
    /\ UNCHANGED <<hostVars, cmd, seen, result, calls, int, rx, resp, hw, card,
                   moved, erred, stray, dirty>>

-----------------------------------------------------------------------------
(* The controller and the card.                                             *)

Is(kind, st) == card.kind = kind /\ card.st = st

\* The card answers the command in the state it is in.
Answers(what) ==
    CASE what = "CardReset"      -> TRUE
      [] what = "EMMCSendOpCond" -> Is("EmmcCard", "idle")
      [] what \in {"SdSendIfCond", "AppCmd", "SdAskOpCond", "SdCardSendOpCond"} -> Is("SdCard", "idle")
      [] what = "CardAllSendCid" -> card.st = "ready"
      [] what = "EMMCSetRca"     -> Is("EmmcCard", "ident")
      [] what = "SdCardSetRca"   -> Is("SdCard", "ident")
      [] what = "CardSelect"     -> card.st = "stby"
      [] what = "EMMCSwitch"     -> Is("EmmcCard", "tran")
      [] what = "SdCardSwitch"   -> Is("SdCard", "tran")
      [] OTHER                   -> card.st = "tran"

OpCond == {"EMMCSendOpCond", "SdCardSendOpCond"}

\* What the command makes of the card; an eMMC may refuse the switch
\* to high speed (the answer of an SD card's switch is never read).
CardAfter(what, switched) ==
    [card EXCEPT
        !.st = CASE what = "CardReset" -> "idle"
                 [] what \in OpCond /\ card.busy = 0 -> "ready"
                 [] what = "CardAllSendCid" -> "ident"
                 [] what \in {"EMMCSetRca", "SdCardSetRca"} -> "stby"
                 [] what = "CardSelect" -> "tran"
                 [] OTHER -> @,
        !.busy = IF what \in OpCond /\ @ > 0 THEN @ - 1 ELSE @,
        !.error = IF what = "EMMCSwitch" THEN ~switched
                  ELSE @ /\ what \notin {"CardSendStatus", "CardReset"}]

HwAnswer(switched) ==
    /\ hw.stage = "cmd" /\ Answers(hw.cmd.what)
    /\ ~switched => Can("switch") /\ hw.cmd.what = "EMMCSwitch"
    /\ int' = int \union {"CMDRDY"}
    /\ resp' = CASE hw.cmd.what \in OpCond         -> card.busy = 0
                 [] hw.cmd.what = "CardSendStatus" -> card.error
                 [] OTHER                          -> FALSE
    /\ card' = CardAfter(hw.cmd.what, switched)
    /\ hw' = IF IsDataTransfer(hw.cmd) THEN [hw EXCEPT !.stage = "data"] ELSE Idle
    /\ UNCHANGED <<hostVars, callVars, rx, tx, histVars>>

\* No answer, or a broken one; the card may have obeyed all the same, and a
\* read may go on to its data.
HwNoAnswer(bit) ==
    /\ hw.stage = "cmd" /\ hw.cmd.what # "CardReset"
    /\ Answers(hw.cmd.what) => Can("cmd")
    /\ ~Answers(hw.cmd.what) => bit = "CMDTMO"
    /\ int' = int \union {bit} /\ erred' = TRUE
    /\ \/ UNCHANGED card
       \/ Answers(hw.cmd.what) /\ card' = CardAfter(hw.cmd.what, TRUE)
    /\ \/ hw' = Idle /\ UNCHANGED dirty
       \/ bit = "CMDCRCERR" /\ hw.cmd.what \in Reads
          /\ hw' = [hw EXCEPT !.stage = "data"] /\ dirty' = TRUE
    /\ UNCHANGED <<hostVars, callVars, rx, tx, resp, moved, stray, lost>>

\* A unit of data goes through the FIFO.
HwMove ==
    /\ hw.stage = "data" /\ hw.done < BlkLen(hw.cmd)
    /\ \/ /\ hw.cmd.what \in Reads /\ Len(rx) < FifoSize
          /\ rx' = Append(rx, Unit(hw.call, hw.done + 1, TRUE)) /\ UNCHANGED <<tx, moved>>
       \/ /\ hw.cmd.what \in Writes /\ tx # <<>>
          /\ tx' = Tail(tx) /\ moved' = Append(moved, Head(tx)) /\ UNCHANGED rx
    /\ hw' = [hw EXCEPT !.done = @ + 1]
    /\ UNCHANGED <<hostVars, callVars, int, resp, card, erred, stray, dirty, lost>>

HwXferDone ==
    /\ hw.stage = "data" /\ hw.done = BlkLen(hw.cmd)
    /\ int' = int \union {"XFER_COMPL"}
    /\ hw' = IF AUTO12(hw.cmd) THEN [hw EXCEPT !.stage = "stop"] ELSE Idle
    /\ UNCHANGED <<hostVars, callVars, rx, tx, resp, card, histVars>>

HwDataError(bit) ==
    /\ hw.stage = "data" /\ Can("data")
    /\ int' = int \union {bit} /\ hw' = Idle
    /\ erred' = TRUE /\ dirty' = TRUE
    /\ UNCHANGED <<hostVars, callVars, rx, tx, resp, card, moved, stray, lost>>

\* The controller has sent CMD12 by itself, and may say so.
HwAutoStop(bits) ==
    /\ hw.stage = "stop" /\ hw' = Idle
    /\ bits # {} => Can("acmd")
    /\ int' = int \union bits
    /\ stray' = (stray \/ bits # {})
    /\ UNCHANGED <<hostVars, callVars, rx, tx, resp, card, moved, erred, dirty, lost>>

-----------------------------------------------------------------------------

Driver ==
    \/ StartHost \/ InstallHost \/ SendDetect
    \/ WriteCmd \/ MsdcPollInterrupts
    \/ PioReadStatus \/ PioReadFifo \/ PioWrite \/ FifoWriteUnit

Controller ==
    \/ \E s \in BOOLEAN : HwAnswer(s)
    \/ \E b \in {"CMDTMO", "CMDCRCERR"} : HwNoAnswer(b)
    \/ HwMove \/ HwXferDone
    \/ \E b \in WriteErrors : HwDataError(b)
    \/ \E b \in {{}, {"ACMDRDY"}, {"ACMDTMO"}, {"ACMDCRCERR"}} : HwAutoStop(b)

Next == Driver \/ Controller \/ \E c \in Packets : PassThru(c)

Spec == Init /\ [][Next]_vars

\* The driver is the running program.  The controller ends every command with
\* a bit: its own timers (MsdcSetTimeout) see to it.
FairSpec == Spec /\ WF_vars(Driver) /\ WF_vars(Controller)

-----------------------------------------------------------------------------
(* Properties.                                                              *)

\* The state is well-formed; the byte counters of MsdcPioRead and MsdcPioWrite
\* stay within the packet and the FIFO within its size.
TypeOK ==
    /\ phase \in {"alloc", "detect", "install", "installed", "freed", "leaked"}
    /\ routine \in 1 .. Len(CardDetectRoutineTable)
    /\ step \in 1 .. Len(CardDetectRoutineTable[routine])
    /\ CardType \in {"UnknownCard", "EmmcCard", "SdCard"}
    /\ Mclk \in {"none", "400kHz", "50MHz"}
    /\ pc \in {"idle", "busy", "poll", "read", "drain", "write", "push"}
    /\ RemainSize \in 0 .. MaxBlocks * BlockUnits /\ burst \in 0 .. FifoSize
    /\ seen \subseteq CMDSTS \union DATSTS /\ int \subseteq CMDSTS \union DATSTS
    /\ Len(rx) <= FifoSize /\ Len(tx) <= FifoSize
    /\ resp \in BOOLEAN /\ hw.stage \in {"idle", "cmd", "data", "stop"}
    /\ hw.done \in 0 .. MaxBlocks * BlockUnits /\ calls \in 0 .. MaxCalls

\* MsdcPollInterrupts takes a CMDRDY for the command's own, and reads its
\* response, only when the controller has executed that command; except after
\* an auto CMD12 that raised a bit, which MsdcPollInterrupts waits for too.
ResponseIsMine ==
    (pc = "poll" /\ int \intersect CMDSTS # {} /\ ~stray) => hw.stage # "cmd"

\* MsdcSendCmd fails only for a command that met an error: what an earlier
\* command left in MSDC_INT or in the FIFO does not fail it, and the last chunk
\* of a read is not missed when the transfer is complete.  (Refused packets, and
\* the leavings of auto CMD12 and of broken data stages, apart.)
FailsForAReason ==
    (result \notin {"none", "SUCCESS", "INVALID_PARAMETER"} /\ pc = "idle"
       /\ phase = "installed" /\ ~stray /\ ~dirty /\ ~lost) => erred

Succeeded ==
    /\ phase = "installed" /\ pc = "idle" /\ result = "SUCCESS" /\ IsDataTransfer(cmd)
    /\ ~dirty /\ ~lost /\ ~stray

\* The data of a packet, and the places of units in the data of their packets.
Data(c) == [k \in 1 .. c.len |-> Unit(calls, k, TRUE)]
Places(s) == [k \in DOMAIN s |-> <<s[k].call, s[k].k>>]

\* A transfer that succeeds has put every unit of its packet through the FIFO
\* once and in order, and no unit of another one, and a read has brought the data
\* itself.  What a write leaves on the card in these places is not the data: that
\* is exempt here and the subject of DataMoved.  (Not after a broken data stage:
\* nothing clears the FIFO.)
MovedInOrder ==
    Succeeded => /\ Places(moved) = Places(Data(cmd))
                 /\ cmd.what \in Reads => moved = Data(cmd)

\* A transfer that succeeds has moved the data of its packet, in both
\* directions: what MsdcPioRead and MsdcPioWrite mean when they refuse to
\* return EFI_SUCCESS for data "not fully read" or "not fully wrote".  The code
\* does not keep this for writes.
DataMoved == Succeeded => moved = Data(cmd)

\* The detection ends and every call returns, if the controller ends every
\* command and the FIFO swallowed nothing.
CallsReturn ==
    [](phase \in {"alloc", "detect", "install"} \/ pc # "idle" =>
         <>((phase \in {"installed", "freed", "leaked"} /\ pc = "idle") \/ lost))
=============================================================================
