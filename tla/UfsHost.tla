------------------------------ MODULE UfsHost -------------------------------
(***************************************************************************)
(* UfsDxe: the bring-up of the Exynos UFS host, the scan of its logical    *)
(* units and the block I/O on them, against the controller that executes   *)
(* UIC commands and the one transfer request slot the driver uses.         *)
(*                                                                         *)
(* The driver is one thread that polls; the controller runs beside it.  A  *)
(* wait that runs into its timeout leaves the command with the controller: *)
(* nothing aborts it, and the next command is written over its descriptor. *)
(*                                                                         *)
(* Register layouts, UPIU contents and byte counts are abstracted: lengths *)
(* count blocks, and an answer is its OCS, Response and Status.            *)
(***************************************************************************)
EXTENDS Integers, Sequences

CONSTANTS
    Luns,              \* logical units 0 .. 7 of the loop in InitUfsDriver
    QUERY_REQ_RETRIES,
    NOP_OUT_RETRY,
    FlagRetry,         \* Retry = 100 in UfsEndBootMode
    MaxBlksPerChunk,   \* UFS_MAX_XFER_LEN / BlkSize
    LbaSpace,          \* number of values of the UINT32 Lba
    Lbas, Counts,      \* what callers ask for
    MaxRequests,       \* bound on the calls of ReadBlocks and WriteBlocks
    Faults             \* what may go wrong

AllFaults == {"timeout", "fatal", "ocs", "reject", "refused", "check",
              "uic", "phy", "nomem"}

ASSUME UfsAssumption ==
    /\ Luns \in Nat \ {0}
    /\ QUERY_REQ_RETRIES \in Nat \ {0} /\ NOP_OUT_RETRY \in Nat \ {0}
    /\ FlagRetry \in Nat /\ MaxRequests \in Nat
    /\ MaxBlksPerChunk \in Nat \ {0} /\ LbaSpace \in Nat \ {0}
    /\ Lbas \subseteq Nat /\ Counts \subseteq Nat
    /\ Faults \subseteq AllFaults

(* The bring-up as a program: the driver executes UfsInitInterface, and the *)
(* query InitUfsDriver makes after it, step by step.  A calibration is DME   *)
(* accesses ("dme") followed by waits for the PHY ("phy").                   *)
Calibrate(what) == << <<"dme", what>>, <<"phy", what>> >>

UfsUpdateMaxGear    == << <<"uic", "MaxGear">> >>
UfsUpdateActiveLane == << <<"uic", "ActiveTxLanes">>, <<"uic", "ActiveRxLanes">> >>
UfsEndBootMode      == << <<"nop", "NopOut">>, <<"query", "SetDeviceInit">>,
                          <<"query", "ReadDeviceInit">> >>
UfsCheck2Lane       == << <<"uic", "GetLanes">>, <<"uic", "SetLanes">> >>
UfsRefClkSetup      == << <<"query", "ReadRefClk">>, <<"query", "WriteRefClk">> >>
UfsPmcCommon        == << <<"uic", "Gear">>, <<"uic", "PowerMode">> >>

Program ==
    << <<"setup", "PreSetup">>, <<"uic", "AvailableLanes">> >>
    \o Calibrate("PreLink") \o << <<"uic", "LinkStartup">> >>
    \o UfsUpdateMaxGear \o Calibrate("PostLink") \o UfsUpdateActiveLane
    \o << <<"vendor", "VendorSetup">> >>
    \o UfsEndBootMode \o UfsCheck2Lane \o UfsRefClkSetup
    \o << <<"query", "DeviceDesc">>, <<"query", "GeometryDesc">> >>
    \o Calibrate("PrePmc") \o UfsPmcCommon \o UfsUpdateActiveLane \o Calibrate("PostPmc")
    \o << <<"query", "BootLunEn">> >>

VARIABLES
    phase,     \* "bringup", "scan", "ready" or "failed"
    step,      \* position in Program
    lun,       \* the Lun of the scan loop
    sub,       \* what the scan does with it: "unit", "sense" or "capacity"
    wait,      \* "none", "written" (descriptor set up), "utp" or "uic"
    tries,     \* attempts left of the retry loop, the current one included
    polls,     \* Retry of UfsEndBootMode
    Ufs,       \* what the driver knows: fDeviceInit, gear, bLUEnable
    Disk,      \* block size of the Block I/O instance of a unit, or "none"
    capacity,  \* the buffer of UfsReadCapacity
    req,       \* the ReadBlocks or WriteBlocks in progress
    result,    \* what the last such call that sent a command returned
    desc,      \* command in the request descriptor of slot 0
    rsp,       \* its response UPIU and OCS, while the driver may read them
    doorbell,  \* slot 0 of the doorbell register
    is,        \* INTERRUPT_STATUS
    hw,        \* command slot 0 is executing
    uic,       \* UIC command being executed; served: the driver's last one has been
    dev,       \* the device and the link
    moved,     \* history: blocks moved for req, with their place in its buffer
    overrun,   \* history: the slot was in use when this command, or an earlier
               \* chunk of req, was written to it
    suspect,   \* history: an answer that was not a good one of its own was believed
    requests   \* number of calls made

progVars == <<phase, step, lun, sub, tries, polls>>
hwVars   == <<doorbell, is, hw, uic>>
ioVars   == <<req, result, moved, requests>>
memVars  == <<desc, rsp, capacity>>
histVars == <<overrun, suspect>>
vars     == <<progVars, wait, Ufs, Disk, ioVars, memVars, hwVars, dev, histVars>>

LunIds == 0 .. Luns - 1
NoReq  == [dir |-> "none", lun |-> 0, at |-> 0, from |-> 0, count |-> 0, left |-> 0]
NoUic  == [what |-> "none", mine |-> FALSE, served |-> FALSE]
Cmd(what, l, at, len, buf) == [what |-> what, lun |-> l, at |-> at, len |-> len, buf |-> buf]
Plain(what, l) == Cmd(what, l, 0, 0, 0)
Zero   == Plain("NopOut", 0)
NoCmd  == [cmd |-> Plain("none", 0), mine |-> FALSE]
ScsiCmds == {"sense", "capacity", "read", "write"}

\* UfsUtpInit clears the response; UfsWriteUtrd presets an invalid OCS.
Cleared(what) == [ocs |-> what = "NopOut", Response |-> FALSE, Status |-> FALSE,
                  mine |-> FALSE, value |-> 0, of |-> Zero]

At == IF phase = "bringup" THEN Program[step] ELSE <<"none", "none">>
Can(f) == f \in Faults

\* InitUfsDriver, UfsAllocHost and UfsInitHost have succeeded.
Init ==
    /\ phase = "bringup" /\ step = 1 /\ lun = 0 /\ sub = "unit"
    /\ wait = "none" /\ tries = QUERY_REQ_RETRIES /\ polls = FlagRetry
    /\ Ufs = [flag |-> 0, gear |-> "none", LUEnable |-> [l \in LunIds |-> 0]]
    /\ Disk = [l \in LunIds |-> "none"] /\ capacity = "free"
    /\ req = NoReq /\ result = "none" /\ moved = <<>> /\ requests = 0
    /\ desc = Zero /\ rsp = Cleared("NopOut")
    /\ doorbell = 0 /\ is = {} /\ hw = NoCmd /\ uic = NoUic
    /\ dev \in [link : {FALSE}, list : {FALSE}, fast : {FALSE}, init : {0},
                refclk : {0, 1}, enabled : SUBSET LunIds]
    /\ overrun = FALSE /\ suspect = FALSE

-----------------------------------------------------------------------------
(* Moving through the bring-up.                                             *)

TriesFor(s) == IF s[1] = "nop" THEN NOP_OUT_RETRY ELSE QUERY_REQ_RETRIES

\* UfsRefClkSetup writes the attribute only if it is not 1 yet.
Following(attr) == IF step < Len(Program) /\ Program[step + 1][2] = "WriteRefClk" /\ attr = 1
                   THEN step + 2 ELSE step + 1

\* The step is done; after the last one the scan begins with unit 0.
Advance(attr) ==
    LET n == Following(attr)
    IN /\ polls' = FlagRetry
       /\ IF n > Len(Program)
          THEN /\ phase' = "scan" /\ lun' = 0 /\ sub' = "unit" /\ tries' = QUERY_REQ_RETRIES
               /\ UNCHANGED step
          ELSE /\ step' = n /\ tries' = TriesFor(Program[n])
               /\ UNCHANGED <<phase, lun, sub>>

\* InitUfsDriver returns the error.
Fail == phase' = "failed" /\ UNCHANGED <<step, lun, sub, tries, polls>>

\* UfsPreSetup resets the controller and the device.
UfsPreSetup ==
    /\ wait = "none" /\ At[1] = "setup"
    /\ doorbell' = 0 /\ is' = {} /\ hw' = NoCmd /\ uic' = NoUic
    /\ desc' = Zero /\ rsp' = Cleared("NopOut")
    /\ Advance(0)
    /\ UNCHANGED <<wait, Ufs, Disk, ioVars, capacity, dev, histVars>>

\* UfsVendorSetup starts the request lists.
UfsVendorSetup ==
    /\ wait = "none" /\ At[1] = "vendor"
    /\ dev' = [dev EXCEPT !.list = TRUE]
    /\ Advance(0)
    /\ UNCHANGED <<wait, Ufs, Disk, ioVars, memVars, hwVars, histVars>>

\* UfsCalPostLink has no table for a gear of 0.
GearKnown == At[2] = "PostLink" => Ufs.gear # "zero"

\* The calibration waits for a lock, and may give up.
CalWait ==
    /\ wait = "none" /\ At[1] = "phy"
    /\ \/ GearKnown /\ Advance(0)
       \/ (Can("phy") \/ ~GearKnown) /\ Fail
    /\ UNCHANGED <<wait, Ufs, Disk, ioVars, memVars, hwVars, dev, histVars>>

-----------------------------------------------------------------------------
(* UIC commands: UfsSendUicCmd.                                             *)

\* Nothing asks whether the previous command is finished: if it is not, the
\* controller may drop either of the two.
UicSend ==
    /\ wait = "none" /\ At[1] \in {"uic", "dme"}
    /\ wait' = "uic"
    /\ \/ uic' = [what |-> At[2], mine |-> TRUE, served |-> FALSE]
       \/ uic.what # "none" /\ uic' = [uic EXCEPT !.served = FALSE]
    /\ UNCHANGED <<progVars, Ufs, Disk, ioVars, memVars, doorbell, is, hw, dev, histVars>>

\* Both bits have to be there for a power mode change.
UfsHandleUicInt ==
    /\ "UCCS" \in is
    /\ At[2] = "PowerMode" => "UPMS" \in is

\* The command's error is ignored for LinkStartup, whose result code is not.
UicError == "UE" \in is /\ At[2] # "LinkStartup"

Fatal == "FATAL" \in is

\* UPMCRS after a power mode change.
PwrLocal == At[2] = "PowerMode" => dev.fast

\* UfsCalAdapterLib does not look at what UfsSendUicCmd returns.
ResultDropped == At[1] = "dme"

\* UfsSendUicCmd returns; a DME_GET reads back ARG_3, for the gear's sake.
UicDone(ok) ==
    /\ wait' = "none" /\ is' = {}
    /\ uic' = [uic EXCEPT !.mine = FALSE, !.served = FALSE]
    /\ suspect' = (suspect \/ (ok /\ ~uic.served))
    /\ Ufs' = [Ufs EXCEPT !.gear = IF At[2] # "MaxGear" THEN @
                                   ELSE IF uic.served THEN "real" ELSE "zero"]
    /\ IF (ok /\ PwrLocal) \/ ResultDropped THEN Advance(0) ELSE Fail
    /\ UNCHANGED <<Disk, ioVars, memVars, doorbell, hw, dev, overrun>>

\* The loop of UfsSendUicCmd ends; the result code in ARG_2 may be an error.
\* A timeout may be that of a last look just before the command finished.
UicReturns ==
    /\ wait = "uic"
    /\ \/ UfsHandleUicInt /\ ~UicError /\ ~Fatal /\ UicDone(TRUE)
       \/ (UicError \/ Fatal \/ (UfsHandleUicInt /\ Can("uic"))) /\ UicDone(FALSE)
       \/ Can("timeout") /\ UicDone(FALSE)

-----------------------------------------------------------------------------
(* Transfer requests: UfsUtpNopProcess, UfsUtpQueryProcess, UfsUtpCmdProcess. *)

\* Chunk of the block I/O in progress.
ChunkBlks == IF req.left < MaxBlksPerChunk THEN req.left ELSE MaxBlksPerChunk

\* The command the driver is about to send, if it is about to send one.
Commands ==
    IF phase = "bringup" /\ At[1] \in {"nop", "query"} THEN {Plain(At[2], 0)}
    ELSE IF phase = "scan" THEN {Plain(sub, lun)}
    ELSE IF phase = "ready" /\ req # NoReq
         THEN {Cmd(req.dir, req.lun, req.from, ChunkBlks, req.count - req.left)}
    ELSE {}

SlotInUse == doorbell = 1 \/ hw # NoCmd

\* UfsUtpInit and the writing of the descriptor.  UfsRequestSense and
\* UfsReadCapacity come here with a buffer of zeros.
UtpPrepare(c) ==
    /\ wait = "none"
    /\ wait' = "written"
    /\ desc' = c /\ rsp' = Cleared(c.what)
    /\ capacity' = IF c.what = "capacity" THEN "zero" ELSE capacity
    /\ hw' = [hw EXCEPT !.mine = FALSE]
    /\ overrun' = (overrun \/ SlotInUse)
    /\ UNCHANGED <<progVars, Ufs, Disk, ioVars, doorbell, is, uic, dev, suspect>>

UfsUtpSend ==
    /\ wait = "written"
    /\ wait' = "utp" /\ doorbell' = 1
    /\ UNCHANGED <<progVars, Ufs, Disk, ioVars, memVars, is, hw, uic, dev, histVars>>

\* The completion bit counts only once the slot has left the doorbell.
UfsHandleUtpIntBit == "UTRCS" \in is
UfsHandleUtpInt == "UTRCS" \in is /\ doorbell = 0

\* A failed OCS is forgiven if the response says nothing.
UfsUtpCheckResult ==
    IF ~rsp.ocs THEN IF rsp.Response THEN "DEVICE_ERROR" ELSE "SUCCESS"
    ELSE IF desc.what \in ScsiCmds /\ rsp.Status THEN "DEVICE_ERROR"
    ELSE "SUCCESS"

Good == rsp.ocs /\ ~rsp.Response /\ ~rsp.Status /\ rsp.mine

\* UfsQueryGetData: a unit descriptor goes where the response says.
UfsQueryGetData ==
    CASE desc.what = "ReadDeviceInit" -> [Ufs EXCEPT !.flag = rsp.value]
      [] desc.what = "unit" /\ rsp.of.what = "unit" /\ rsp.ocs /\ ~rsp.Response ->
             [Ufs EXCEPT !.LUEnable[rsp.of.lun] = rsp.value]
      [] OTHER -> Ufs

(* What the callers do with a status, one operator per caller.              *)

TriesForever == tries
CountedTries == tries - 1
PollsLeft == polls > 0
FlagCleared(f) == f = 0

\* UfsUtpQueryRetry and the loop of UfsEndBootMode over UfsUtpNopProcess.
BringUpGoesOn(status) ==
    /\ phase = "bringup"
    /\ \/ /\ status = "SUCCESS"
          /\ IF At[2] # "ReadDeviceInit" \/ FlagCleared(Ufs'.flag)
             THEN Advance(IF At[2] = "ReadRefClk" THEN rsp.value ELSE 0)
             ELSE IF PollsLeft
             THEN polls' = polls - 1 /\ tries' = QUERY_REQ_RETRIES
                  /\ UNCHANGED <<phase, step, lun, sub>>
             ELSE Fail
       \/ /\ status # "SUCCESS" /\ tries > 1
          /\ tries' = CountedTries
          /\ UNCHANGED <<phase, step, lun, sub, polls>>
       \/ /\ status # "SUCCESS" /\ tries = 1
          /\ IF At[2] = "BootLunEn" THEN Advance(0) ELSE Fail
    /\ UNCHANGED <<Disk, capacity, req, result>>

\* The end of the loop body of InitUfsDriver.
NextLun ==
    /\ IF lun + 1 = Luns THEN phase' = "ready" /\ lun' = lun
       ELSE phase' = phase /\ lun' = lun + 1
    /\ sub' = "unit" /\ tries' = QUERY_REQ_RETRIES

\* A unit whose descriptor could not be read has bLUEnable 0; the result of
\* UfsRequestSense is ignored; a unit without a capacity is left out.
CapacityAnyway(status) == TRUE
CapacityRead(status) == status = "SUCCESS"

ScanGoesOn(status) ==
    /\ phase = "scan"
    /\ \/ /\ sub = "unit" /\ status # "SUCCESS" /\ tries > 1
          /\ tries' = CountedTries
          /\ UNCHANGED <<phase, lun, sub, Disk, capacity>>
       \/ /\ sub = "unit" /\ (status = "SUCCESS" \/ tries = 1)
          /\ IF Ufs'.LUEnable[lun] = 1
             THEN sub' = "sense" /\ UNCHANGED <<phase, lun, tries>> ELSE NextLun
          /\ UNCHANGED <<Disk, capacity>>
       \/ /\ sub = "sense" /\ sub' = "capacity"
          /\ UNCHANGED <<phase, lun, tries, Disk, capacity>>
       \/ /\ sub = "capacity" /\ NextLun /\ capacity' = "free"
          /\ \/ CapacityRead(status) /\ Disk' = [Disk EXCEPT ![lun] = capacity]
             \/ (~CapacityRead(status) \/ Can("nomem")) /\ UNCHANGED Disk
    /\ UNCHANGED <<step, polls, req, result>>

\* The loops of UfsRead and UfsWrite.
SameLba == req.from
NextLba == (req.from + ChunkBlks) % LbaSpace
StopsOn(status) == status # "SUCCESS"

BlocksGoOn(status) ==
    /\ phase = "ready"
    /\ IF StopsOn(status) \/ req.left = ChunkBlks
       THEN req' = NoReq /\ result' = status
       ELSE req' = [req EXCEPT !.from = NextLba, !.left = @ - ChunkBlks]
            /\ UNCHANGED result
    /\ UNCHANGED <<progVars, Disk, capacity>>

\* One of the three Process functions returns; UfsUtpWaitResponse has cleared
\* the interrupt status.
UtpDone(status) ==
    /\ wait = "utp"
    /\ wait' = "none" /\ is' = {}
    /\ Ufs' = IF status = "SUCCESS" THEN UfsQueryGetData ELSE Ufs
    /\ suspect' = (suspect \/ (status = "SUCCESS" /\ ~Good))
    /\ \/ BringUpGoesOn(status) \/ ScanGoesOn(status) \/ BlocksGoOn(status)
    /\ rsp' = Cleared("NopOut")
    /\ overrun' = (overrun /\ req' # NoReq)
    /\ UNCHANGED <<moved, requests, desc, doorbell, hw, uic, dev>>

\* A timeout may be that of a last look just before the command finished.
UtpReturns ==
    /\ wait = "utp"
    /\ \/ UfsHandleUtpInt /\ ~Fatal /\ UtpDone(UfsUtpCheckResult)
       \/ Fatal /\ UtpDone("TIMEOUT")
       \/ Can("timeout") /\ UtpDone("TIMEOUT")

\* AllocateZeroPool of a device fails, or that of a request's buffer.
OutOfMemory ==
    /\ Can("nomem") /\ phase = "scan" /\ wait = "none"
    /\ \/ sub = "unit" /\ tries = QUERY_REQ_RETRIES /\ Fail
       \/ sub = "sense" /\ sub' = "capacity" /\ UNCHANGED <<phase, step, lun, tries, polls>>
       \/ sub = "capacity" /\ NextLun /\ UNCHANGED <<step, polls>>
    /\ UNCHANGED <<wait, Ufs, Disk, ioVars, memVars, hwVars, dev, histVars>>

-----------------------------------------------------------------------------
(* Block I/O.                                                               *)

\* UfsReadBlocks and UfsWriteBlocks.  A block size of 0 divides by zero: on
\* this processor the remainder is the buffer size, a bad buffer size.
Blocks(dir, l, lba, count) ==
    /\ phase = "ready" /\ req = NoReq /\ wait = "none" /\ requests < MaxRequests
    /\ Disk[l] # "none"
    /\ requests' = requests + 1 /\ moved' = <<>>
    /\ req' = IF count = 0 \/ Disk[l] = "zero" THEN NoReq
              ELSE [dir |-> dir, lun |-> l, at |-> lba, from |-> lba % LbaSpace,
                    count |-> count, left |-> count]
    /\ UNCHANGED <<progVars, wait, Ufs, Disk, result, memVars, hwVars, dev, histVars>>

-----------------------------------------------------------------------------
(* The controller and the device.                                           *)

HwFetch ==
    /\ doorbell = 1 /\ hw = NoCmd /\ dev.list
    /\ hw' = [cmd |-> desc, mine |-> TRUE]
    /\ UNCHANGED <<progVars, wait, Ufs, Disk, ioVars, memVars, doorbell, is, uic, dev, histVars>>

\* What a command that went well brings.
Value(c) ==
    CASE c.what = "ReadDeviceInit" -> dev.init
      [] c.what = "SetDeviceInit"  -> 1
      [] c.what = "ReadRefClk"     -> dev.refclk
      [] c.what = "unit"           -> IF c.lun \in dev.enabled THEN 1 ELSE 0
      [] OTHER                     -> 0

Answer(o, v) == [ocs |-> o \notin {"ocs", "reject"}, Response |-> o \in {"reject", "refused"},
                 Status |-> o = "check", mine |-> hw.mine, value |-> v, of |-> hw.cmd]

\* The driver still waits for the command: its buffer is the one in use.
Awaited == hw.mine /\ wait # "none"

BlocksOf(c) == [i \in 1 .. c.len |-> <<c.what, c.lun, c.at + i - 1, c.buf + i - 1>>]

HwDone(o) ==
    /\ hw # NoCmd
    /\ o # "good" => Can(o)
    /\ o = "refused" => hw.cmd.what \notin ScsiCmds
    /\ o = "check" => hw.cmd.what \in ScsiCmds
    /\ rsp' = IF wait = "none" THEN rsp
              ELSE Answer(o, IF o = "good" THEN Value(hw.cmd) ELSE 0)
    /\ doorbell' = 0 /\ hw' = NoCmd /\ is' = is \union {"UTRCS"}
    /\ capacity' = IF o = "good" /\ Awaited /\ hw.cmd.what = "capacity" THEN "real" ELSE capacity
    /\ moved' = IF o = "good" /\ Awaited /\ hw.cmd.what \in {"read", "write"}
                THEN moved \o BlocksOf(hw.cmd) ELSE moved
    /\ dev' = IF o # "good" THEN dev
              ELSE [dev EXCEPT !.init = IF hw.cmd.what = "SetDeviceInit" THEN 1 ELSE @,
                               !.refclk = IF hw.cmd.what = "WriteRefClk" THEN 1 ELSE @]
    /\ UNCHANGED <<progVars, wait, Ufs, Disk, req, result, requests, desc, uic, histVars>>

\* A UIC command ends, with UE if the link made errors.
HwUic ==
    /\ uic.what # "none"
    /\ \E e \in SUBSET {"UE"} :
         /\ e # {} => Can("uic")
         /\ is' = is \union {"UCCS"} \union e
    /\ uic' = [what |-> "none", mine |-> FALSE, served |-> uic.mine]
    /\ dev' = [dev EXCEPT !.link = @ \/ uic.what = "LinkStartup"]
    /\ UNCHANGED <<progVars, wait, Ufs, Disk, ioVars, memVars, doorbell, hw, histVars>>

\* The power mode change is over some time after its command.
HwPowerMode ==
    /\ wait = "uic" /\ At[2] = "PowerMode" /\ uic.served /\ ~dev.fast
    /\ is' = is \union {"UPMS"} /\ dev' = [dev EXCEPT !.fast = TRUE]
    /\ UNCHANGED <<progVars, wait, Ufs, Disk, ioVars, memVars, doorbell, hw, uic, histVars>>

HwFatal ==
    /\ Can("fatal") /\ ~Fatal
    /\ is' = is \union {"FATAL"}
    /\ UNCHANGED <<progVars, wait, Ufs, Disk, ioVars, memVars, doorbell, hw, uic, dev, histVars>>

DeviceInitialised ==
    /\ dev.init = 1
    /\ dev' = [dev EXCEPT !.init = 0]
    /\ UNCHANGED <<progVars, wait, Ufs, Disk, ioVars, memVars, hwVars, histVars>>

-----------------------------------------------------------------------------

Driver ==
    \/ UfsPreSetup \/ UfsVendorSetup \/ CalWait
    \/ UicSend \/ UicReturns
    \/ \E c \in Commands : UtpPrepare(c)
    \/ UfsUtpSend \/ UtpReturns
    \/ OutOfMemory

Outcomes == {"good", "ocs", "reject", "refused", "check"}

Controller ==
    \/ HwFetch
    \/ \E o \in Outcomes : HwDone(o)
    \/ HwUic \/ HwPowerMode \/ HwFatal \/ DeviceInitialised

Client == \E dir \in {"read", "write"}, l \in LunIds, lba \in Lbas, count \in Counts :
              Blocks(dir, l, lba, count)

Next == Driver \/ Controller \/ Client

Spec == Init /\ [][Next]_vars

\* The driver is the running program.  Nothing is asked of the controller: the
\* timeouts are the driver's own.
FairSpec == Spec /\ WF_vars(Driver)

-----------------------------------------------------------------------------
(* Properties.                                                              *)

\* The state is well-formed; no retry or poll counter runs below its loop.
TypeOK ==
    /\ phase \in {"bringup", "scan", "ready", "failed"}
    /\ step \in 1 .. Len(Program) /\ lun \in LunIds
    /\ sub \in {"unit", "sense", "capacity"}
    /\ wait \in {"none", "written", "utp", "uic"}
    /\ tries \in 1 .. QUERY_REQ_RETRIES + NOP_OUT_RETRY /\ polls \in 0 .. FlagRetry
    /\ Disk \in [LunIds -> {"none", "zero", "real"}]
    /\ capacity \in {"free", "zero", "real"}
    /\ req.left \in 0 .. req.count /\ req.from \in 0 .. LbaSpace - 1
    /\ doorbell \in {0, 1} /\ is \subseteq {"UTRCS", "UCCS", "UPMS", "UE", "FATAL"}
    /\ hw.mine \in BOOLEAN /\ rsp.mine \in BOOLEAN
    /\ overrun \in BOOLEAN /\ suspect \in BOOLEAN /\ requests \in 0 .. MaxRequests

\* UfsUtpWaitResponse accepts the answer of another command only if that one
\* still had the slot when the descriptor was rewritten: a completion bit left
\* by a command that timed out and finished later is never taken for the new
\* command's.
AnswerIsMine == (wait = "utp" /\ UfsHandleUtpInt /\ ~overrun) => rsp.mine

\* A Block I/O instance stands for a unit the device has enabled, with the
\* block size that device reports, unless the driver believed an answer it
\* should not have: UfsUtpCheckResult forgives a bad OCS of any command.
InstalledIsReal ==
    ~suspect => \A l \in LunIds : Disk[l] # "none" => Disk[l] = "real" /\ l \in dev.enabled

\* The blocks the caller asked for, in order, each at its place in the buffer.
Asked(r) == [i \in 1 .. r.count |-> <<r.dir, r.lun, r.at + i - 1, i - 1>>]

\* Blocks are moved in order, each once, to or from its place in the buffer,
\* across the chunks of UfsRead and UfsWrite, and one chunk at most is ahead of
\* what the loop has accounted for: a call that succeeds has moved all of them.
\* (For a call that ends below block 2^32: the upper half of Lba is dropped, and
\* the sum of Lba and ChunkBlks wraps around.)
MovedInOrder ==
    (req # NoReq /\ req.at + req.count <= LbaSpace /\ ~suspect /\ ~overrun) =>
        /\ \E n \in {req.count - req.left, req.count - req.left + ChunkBlks} :
              moved = SubSeq(Asked(req), 1, n)
        /\ (wait = "none" \/ wait = "written") => Len(moved) = req.count - req.left

\* Between two calls the controller works on a caller's buffer only if the
\* caller was told EFI_TIMEOUT.
BuffersReturned ==
    (phase = "ready" /\ req = NoReq /\ SlotInUse /\ desc.what \in {"read", "write"}) =>
        result = "TIMEOUT"

\* Every call comes back, whatever the controller does: InitUfsDriver, and
\* ReadBlocks and WriteBlocks.
CallsReturn == [](phase \in {"bringup", "scan"} \/ req # NoReq =>
                    <>(phase \in {"ready", "failed"} /\ req = NoReq))
=============================================================================
