--------------------------- MODULE UfsHost_proofs ---------------------------
(***************************************************************************)
(* TLAPS proofs about UfsHost for every number of logical units, of        *)
(* retries, of blocks and of calls, and for every choice of faults.        *)
(***************************************************************************)
EXTENDS UfsHost, SequenceTheorems, TLAPS

Flags    == {0, 1}
UnitCmds == {"unit", "sense", "capacity"}
Moves    == {"read", "write"}
Names    == {"PreSetup", "AvailableLanes", "PreLink", "LinkStartup", "MaxGear", "PostLink",
             "ActiveTxLanes", "ActiveRxLanes", "VendorSetup", "NopOut", "SetDeviceInit",
             "ReadDeviceInit", "GetLanes", "SetLanes", "ReadRefClk", "WriteRefClk",
             "DeviceDesc", "GeometryDesc", "PrePmc", "Gear", "PowerMode", "PostPmc",
             "BootLunEn", "none"}
Whats    == Names \union UnitCmds \union Moves
Kinds    == {"setup", "uic", "dme", "phy", "vendor", "nop", "query"}
CmdType  == [what : Whats, lun : LunIds, at : Nat, len : Nat, buf : Nat]
Placed   == Moves \X LunIds \X Nat \X Nat

\* TypeOK with the fields of the records.
TypeInv ==
    /\ phase \in {"bringup", "scan", "ready", "failed"}
    /\ step \in 1 .. Len(Program) /\ lun \in LunIds /\ sub \in UnitCmds
    /\ wait \in {"none", "written", "utp", "uic"}
    /\ tries \in 1 .. QUERY_REQ_RETRIES + NOP_OUT_RETRY /\ polls \in 0 .. FlagRetry
    /\ Ufs \in [flag : Flags, gear : {"none", "real", "zero"}, LUEnable : [LunIds -> Flags]]
    /\ Disk \in [LunIds -> {"none", "zero", "real"}]
    /\ capacity \in {"free", "zero", "real"}
    /\ req \in [dir : {"none"} \union Moves, lun : LunIds, at : Nat, from : 0 .. LbaSpace - 1,
                count : Nat, left : Nat]
    /\ req.left <= req.count
    /\ moved \in Seq(Placed) /\ requests \in 0 .. MaxRequests
    /\ desc \in CmdType
    /\ rsp \in [ocs : BOOLEAN, Response : BOOLEAN, Status : BOOLEAN, mine : BOOLEAN,
                value : Flags, of : CmdType]
    /\ doorbell \in Flags /\ is \subseteq {"UTRCS", "UCCS", "UPMS", "UE", "FATAL"}
    /\ hw \in [cmd : CmdType, mine : BOOLEAN]
    /\ uic \in [what : Whats, mine : BOOLEAN, served : BOOLEAN]
    /\ dev \in [link : BOOLEAN, list : BOOLEAN, fast : BOOLEAN, init : Flags, refclk : Flags,
                enabled : SUBSET LunIds]
    /\ overrun \in BOOLEAN /\ suspect \in BOOLEAN

\* What the driver may be waiting for, and that the descriptor is the command
\* it is at.
PhaseInv ==
    /\ phase # "ready" => req = NoReq /\ desc.what \notin Moves
    /\ phase \in {"ready", "failed"} /\ req = NoReq => wait = "none"
    /\ req # NoReq => req.dir \in Moves /\ req.left > 0
    /\ wait = "uic" => phase = "bringup" /\ At[1] \in {"uic", "dme"}
    /\ wait \in {"written", "utp"} => Commands = {desc}
    /\ wait \in {"written", "utp"} /\ desc.what = "capacity" => capacity # "free"

\* Who has the slot: the controller keeps the doorbell set while it executes,
\* and what it fetched since the descriptor was written is the descriptor.
SlotInv ==
    /\ hw # NoCmd => doorbell = 1
    /\ hw.mine => hw.cmd = desc
    /\ wait = "written" /\ ~overrun => doorbell = 0
    /\ wait = "utp" /\ ~overrun =>
          \/ doorbell = 1 /\ (hw = NoCmd \/ hw.mine)
          \/ doorbell = 0 /\ rsp.mine

\* What a good answer says.
AnswerInv ==
    Good => /\ rsp.of = desc
            /\ desc.what = "unit" => rsp.value = (IF desc.lun \in dev.enabled THEN 1 ELSE 0)
            /\ desc.what = "capacity" => capacity = "real"

\* What the scan has learnt.
ScanInv ==
    ~suspect =>
        /\ \A l \in LunIds : Ufs.LUEnable[l] = 1 => l \in dev.enabled
        /\ phase = "scan" /\ sub # "unit" => lun \in dev.enabled
        /\ \A l \in LunIds : Disk[l] # "none" => Disk[l] = "real" /\ l \in dev.enabled

\* The first n blocks of the call have been moved.
Moved(n) ==
    /\ Len(moved) = n
    /\ \A k \in 1 .. n : moved[k] = <<req.dir, req.lun, req.at + k - 1, k - 1>>

Past == req.count - req.left

MoveInv ==
    (req # NoReq /\ req.at + req.count <= LbaSpace /\ ~suspect /\ ~overrun) =>
        /\ req.from = req.at + Past
        /\ IF wait = "utp" /\ doorbell = 0 /\ Good THEN Moved(Past + ChunkBlks) ELSE Moved(Past)

IInv == TypeInv /\ PhaseInv /\ SlotInv /\ AnswerInv /\ ScanInv /\ MoveInv /\ BuffersReturned

-----------------------------------------------------------------------------
(* The bring-up.                                                            *)

\* The numbers of the constants.
LEMMA Constants ==
    /\ Luns \in Nat /\ Luns > 0 /\ LunIds = 0 .. Luns - 1 /\ 0 \in LunIds
    /\ QUERY_REQ_RETRIES \in Nat /\ QUERY_REQ_RETRIES > 0
    /\ NOP_OUT_RETRY \in Nat /\ NOP_OUT_RETRY > 0
    /\ FlagRetry \in Nat /\ MaxRequests \in Nat
    /\ MaxBlksPerChunk \in Nat /\ MaxBlksPerChunk > 0
    /\ LbaSpace \in Nat /\ LbaSpace > 0
    /\ \A l \in Lbas : l \in Nat
    /\ \A c \in Counts : c \in Nat
<1>1. Luns \in Nat /\ Luns > 0
  BY UfsAssumption
<1>2. QUERY_REQ_RETRIES > 0 /\ NOP_OUT_RETRY > 0 /\ MaxBlksPerChunk > 0 /\ LbaSpace > 0
  BY UfsAssumption
<1> QED BY <1>1, <1>2, UfsAssumption DEF LunIds

\* No step of the bring-up sends a command of the scan or of the block I/O.
LEMMA ProgramType == Program \in Seq(Kinds \X Names) /\ Len(Program) \in Nat \ {0}
<1> DEFINE S == Kinds \X Names
<1> DEFINE a0 == << <<"setup", "PreSetup">>, <<"uic", "AvailableLanes">> >>
           a1 == << <<"uic", "LinkStartup">> >>
           a2 == << <<"vendor", "VendorSetup">> >>
           a3 == << <<"query", "DeviceDesc">>, <<"query", "GeometryDesc">> >>
           a4 == << <<"query", "BootLunEn">> >>
<1> USE DEF Kinds, Names, UnitCmds, Moves
<1>1. \A w \in {"PreLink", "PostLink", "PrePmc", "PostPmc"} :
         <<"dme", w>> \in S /\ <<"phy", w>> \in S
  OBVIOUS
<1>2. \A w \in {"PreLink", "PostLink", "PrePmc", "PostPmc"} : Calibrate(w) \in Seq(S)
  <2> HIDE DEF S
  <2> QED BY <1>1 DEF Calibrate
<1>3. a0 \in Seq(S) /\ Len(a0) = 2
  <2>1. <<"setup", "PreSetup">> \in S /\ <<"uic", "AvailableLanes">> \in S
    OBVIOUS
  <2> HIDE DEF S
  <2> QED BY <2>1
<1>4. a1 \in Seq(S) /\ a2 \in Seq(S) /\ a4 \in Seq(S)
  <2>1. <<"uic", "LinkStartup">> \in S /\ <<"vendor", "VendorSetup">> \in S
        /\ <<"query", "BootLunEn">> \in S
    OBVIOUS
  <2> HIDE DEF S
  <2> QED BY <2>1
<1>5. a3 \in Seq(S)
  <2>1. <<"query", "DeviceDesc">> \in S /\ <<"query", "GeometryDesc">> \in S
    OBVIOUS
  <2> HIDE DEF S
  <2> QED BY <2>1
<1>6. UfsUpdateMaxGear \in Seq(S) /\ UfsUpdateActiveLane \in Seq(S)
  <2>1. <<"uic", "MaxGear">> \in S /\ <<"uic", "ActiveTxLanes">> \in S
        /\ <<"uic", "ActiveRxLanes">> \in S
    OBVIOUS
  <2> HIDE DEF S
  <2> QED BY <2>1 DEF UfsUpdateMaxGear, UfsUpdateActiveLane
<1>7. UfsEndBootMode \in Seq(S)
  <2>1. <<"nop", "NopOut">> \in S /\ <<"query", "SetDeviceInit">> \in S
        /\ <<"query", "ReadDeviceInit">> \in S
    OBVIOUS
  <2> HIDE DEF S
  <2> QED BY <2>1 DEF UfsEndBootMode
<1>8. UfsCheck2Lane \in Seq(S) /\ UfsRefClkSetup \in Seq(S)
  <2>1. <<"uic", "GetLanes">> \in S /\ <<"uic", "SetLanes">> \in S
        /\ <<"query", "ReadRefClk">> \in S /\ <<"query", "WriteRefClk">> \in S
    OBVIOUS
  <2> HIDE DEF S
  <2> QED BY <2>1 DEF UfsCheck2Lane, UfsRefClkSetup
<1>9. UfsPmcCommon \in Seq(S)
  <2>1. <<"uic", "Gear">> \in S /\ <<"uic", "PowerMode">> \in S
    OBVIOUS
  <2> HIDE DEF S
  <2> QED BY <2>1 DEF UfsPmcCommon
<1> HIDE DEF S, a0, a1, a2, a3, a4
<1> DEFINE Long(x) == x \in Seq(S) /\ Len(x) >= 2
<1>10. \A x, y : Long(x) /\ y \in Seq(S) => Long(x \o y)
  BY ConcatProperties, LenProperties
<1>11. Long(a0)
  BY <1>3
<1>12. \A x \in Seq(S) : Len(x) >= 2 => Len(x) \in Nat \ {0}
  BY LenProperties
<1> HIDE DEF Long
<1> DEFINE b1 == a0 \o Calibrate("PreLink") \o a1 \o UfsUpdateMaxGear \o Calibrate("PostLink")
           b2 == b1 \o UfsUpdateActiveLane \o a2 \o UfsEndBootMode \o UfsCheck2Lane
           b3 == b2 \o UfsRefClkSetup \o a3 \o Calibrate("PrePmc") \o UfsPmcCommon
           b4 == b3 \o UfsUpdateActiveLane \o Calibrate("PostPmc") \o a4
<1>13. Long(b1)
  BY <1>2, <1>4, <1>6, <1>10, <1>11
<1> HIDE DEF b1
<1>14. Long(b2)
  BY <1>4, <1>6, <1>7, <1>8, <1>10, <1>13
<1> HIDE DEF b2
<1>15. Long(b3)
  BY <1>2, <1>5, <1>8, <1>9, <1>10, <1>14
<1> HIDE DEF b3
<1>16. Long(b4)
  BY <1>2, <1>4, <1>6, <1>10, <1>15
<1>17. Program = b4
  BY DEF Program, b1, b2, b3, a0, a1, a2, a3, a4
<1> HIDE DEF b4
<1> QED BY <1>12, <1>16, <1>17 DEF Long, S

\* Where the driver is in the bring-up.
LEMMA AtType ==
    ASSUME TypeInv
    PROVE  /\ Len(Program) \in Nat /\ Len(Program) > 0 /\ step \in Nat
           /\ phase = "bringup" => At[1] \in Kinds /\ At[2] \in Names
           /\ phase # "bringup" => At = <<"none", "none">>
<1>1. phase = "bringup" => At \in Kinds \X Names
  BY ProgramType, ElementOfSeq DEF TypeInv, At
<1>2. Len(Program) \in Nat /\ Len(Program) > 0
  BY ProgramType
<1> QED BY <1>1, <1>2 DEF At, TypeInv

\* The numbers of a block I/O call.
LEMMA ReqType ==
    ASSUME TypeInv
    PROVE  /\ req.at \in Nat /\ req.count \in Nat /\ req.left \in Nat /\ req.from \in Nat
           /\ req.left <= req.count /\ Past \in Nat /\ req.lun \in LunIds
           /\ req.from < LbaSpace
           /\ ChunkBlks \in Nat /\ ChunkBlks <= req.left
           /\ req.left > 0 => ChunkBlks > 0
<1>1. /\ req.at \in Nat /\ req.count \in Nat /\ req.left \in Nat /\ req.lun \in LunIds
      /\ req.from \in 0 .. LbaSpace - 1 /\ req.left <= req.count
  BY DEF TypeInv
<1> QED BY <1>1, Constants DEF Past, ChunkBlks

\* The commands a descriptor may be written for.
LEMMA CommandsType ==
    ASSUME TypeInv, NEW c \in Commands
    PROVE  /\ c \in CmdType
           /\ phase \in {"bringup", "scan"} \/ (phase = "ready" /\ req # NoReq)
           /\ phase = "bringup" => c = Plain(At[2], 0) /\ c.what \in Names
           /\ phase = "scan" => c = Plain(sub, lun) /\ c.what = sub /\ c.lun = lun
           /\ phase = "ready" => c = Cmd(req.dir, req.lun, req.from, ChunkBlks, Past)
<1>1. CASE phase = "bringup"
  <2>1. c = Plain(At[2], 0) /\ At[2] \in Names
    BY <1>1, AtType DEF Commands
  <2> QED BY <1>1, <2>1, Constants DEF Plain, Cmd, CmdType, Whats
<1>2. CASE phase = "scan"
  <2>1. c = Plain(sub, lun) /\ sub \in UnitCmds /\ lun \in LunIds
    BY <1>2 DEF Commands, TypeInv
  <2> QED BY <1>2, <2>1 DEF Plain, Cmd, CmdType, Whats
<1>3. CASE phase \notin {"bringup", "scan"}
  <2>1. /\ phase = "ready" /\ req # NoReq
        /\ c = Cmd(req.dir, req.lun, req.from, ChunkBlks, Past)
    BY <1>3 DEF Commands, Past
  <2>2. req.dir \in Whats
    BY DEF TypeInv, Whats, Names
  <2> QED BY <2>1, <2>2, ReqType DEF Cmd, CmdType
<1> QED BY <1>1, <1>2, <1>3

\* What Advance and Fail do to the position of the driver.
LEMMA AdvanceType ==
    ASSUME TypeInv, phase = "bringup", NEW a, Advance(a) \/ Fail
    PROVE  /\ step' \in 1 .. Len(Program) /\ lun' \in LunIds
           /\ sub' \in UnitCmds /\ polls' \in 0 .. FlagRetry
           /\ tries' \in 1 .. QUERY_REQ_RETRIES + NOP_OUT_RETRY
           /\ phase' \in {"bringup", "scan", "failed"}
           /\ phase' = "scan" => sub' = "unit"
<1>1. Following(a) \in {step + 1, step + 2}
  BY DEF Following
<1>2. /\ step \in 1 .. Len(Program) /\ Len(Program) \in Nat /\ lun \in LunIds /\ sub \in UnitCmds
      /\ polls \in 0 .. FlagRetry /\ tries \in 1 .. QUERY_REQ_RETRIES + NOP_OUT_RETRY
  BY AtType DEF TypeInv
<1>3. QUERY_REQ_RETRIES \in 1 .. QUERY_REQ_RETRIES + NOP_OUT_RETRY
      /\ FlagRetry \in 0 .. FlagRetry
  BY Constants
<1>4. \A x : TriesFor(x) \in 1 .. QUERY_REQ_RETRIES + NOP_OUT_RETRY
  BY Constants DEF TriesFor
<1>5. CASE Fail
  BY <1>2, <1>5 DEF Fail
<1>6. CASE Advance(a)
  <2>1. CASE Following(a) > Len(Program)
    BY <1>2, <1>3, <1>6, <2>1, Constants DEF Advance, UnitCmds
  <2>2. CASE ~(Following(a) > Len(Program))
    <3>1. Following(a) \in 1 .. Len(Program)
      BY <1>1, <1>2, <2>2
    <3> QED BY <1>2, <1>3, <1>4, <1>6, <2>2, <3>1 DEF Advance
  <2> QED BY <2>1, <2>2
<1> QED BY <1>5, <1>6

-----------------------------------------------------------------------------
(* Steps that leave the slot alone.                                         *)

\* A cleared response is no answer.
LEMMA ClearedType ==
    \A w : /\ Cleared(w) \in [ocs : BOOLEAN, Response : BOOLEAN, Status : BOOLEAN,
                              mine : BOOLEAN, value : Flags, of : CmdType]
           /\ Cleared(w).mine = FALSE
<1>1. Zero \in CmdType
  BY Constants DEF Zero, Plain, Cmd, CmdType, Whats, Names
<1>2. \A w : (w = "NopOut") \in BOOLEAN
  OBVIOUS
<1> QED BY <1>1, <1>2 DEF Cleared, Flags

\* The slot before its first command.
LEMMA NoCmdType == NoCmd \in [cmd : CmdType, mine : BOOLEAN] /\ NoCmd.mine = FALSE
BY Constants DEF NoCmd, Plain, Cmd, CmdType, Whats, Names

\* The inductive invariant holds when InitUfsDriver begins.
LEMMA InitInv == Init => IInv
<1> SUFFICES ASSUME Init PROVE IInv
  OBVIOUS
<1> USE DEF Init
<1>1. TypeInv
  <2>1. 1 \in 1 .. Len(Program) /\ QUERY_REQ_RETRIES \in 1 .. QUERY_REQ_RETRIES + NOP_OUT_RETRY
        /\ FlagRetry \in 0 .. FlagRetry /\ 0 \in 0 .. MaxRequests /\ 0 \in 0 .. LbaSpace - 1
    BY ProgramType, Constants
  <2>2. Ufs \in [flag : Flags, gear : {"none", "real", "zero"}, LUEnable : [LunIds -> Flags]]
    BY DEF Flags
  <2>3. desc \in CmdType
    BY Constants DEF Zero, Plain, Cmd, CmdType, Whats, Names
  <2>4. req \in [dir : {"none"} \union Moves, lun : LunIds, at : Nat, from : 0 .. LbaSpace - 1,
                 count : Nat, left : Nat] /\ req.left <= req.count
    BY <2>1, Constants DEF NoReq
  <2>5. uic \in [what : Whats, mine : BOOLEAN, served : BOOLEAN]
    BY DEF NoUic, Whats, Names
  <2>6. dev \in [link : BOOLEAN, list : BOOLEAN, fast : BOOLEAN, init : Flags, refclk : Flags,
                 enabled : SUBSET LunIds]
    BY DEF Flags
  <2>7. moved \in Seq(Placed)
    BY EmptySeq
  <2>8. rsp \in [ocs : BOOLEAN, Response : BOOLEAN, Status : BOOLEAN, mine : BOOLEAN,
                 value : Flags, of : CmdType]
    BY ClearedType
  <2>9. hw \in [cmd : CmdType, mine : BOOLEAN]
    BY NoCmdType
  <2> QED BY <2>1, <2>2, <2>3, <2>4, <2>5, <2>6, <2>7, <2>8, <2>9, Constants
          DEF TypeInv, Flags, UnitCmds
<1>2. PhaseInv
  BY DEF PhaseInv, Zero, Plain, Cmd, Moves
<1>3. SlotInv
  BY NoCmdType DEF SlotInv
<1>4. AnswerInv
  BY ClearedType DEF AnswerInv, Good
<1>5. ScanInv /\ MoveInv /\ BuffersReturned
  BY DEF ScanInv, MoveInv, BuffersReturned
<1> QED BY <1>1, <1>2, <1>3, <1>4, <1>5 DEF IInv

\* The slot, its answer and the call are left alone.
SlotFrame ==
    /\ UNCHANGED <<desc, rsp, capacity, doorbell, hw, req, moved, overrun, requests, result, Disk>>
    /\ dev'.enabled = dev.enabled /\ Ufs'.LUEnable = Ufs.LUEnable
    /\ ~suspect' => ~suspect
    /\ wait' = wait \/ {wait, wait'} \subseteq {"none", "uic"}
    /\ phase' = "scan" /\ sub' # "unit" => phase = "scan" /\ sub # "unit" /\ lun' = lun

\* Such a step keeps what is known of them.
LEMMA SlotFrameKeeps ==
    ASSUME IInv, SlotFrame
    PROVE  SlotInv' /\ AnswerInv' /\ ScanInv' /\ MoveInv' /\ BuffersReturned'
<1> USE DEF SlotFrame
<1>1. SlotInv'
  BY DEF IInv, SlotInv
<1>2. AnswerInv'
  BY DEF IInv, AnswerInv, Good
<1>3. ScanInv'
  BY DEF IInv, ScanInv
<1>4. Good' = Good /\ ChunkBlks' = ChunkBlks /\ Past' = Past /\ \A n : Moved(n)' = Moved(n)
  BY DEF Good, ChunkBlks, Past, Moved
<1>5. MoveInv'
  BY <1>4 DEF IInv, MoveInv
<1>6. BuffersReturned'
  BY DEF IInv, PhaseInv, BuffersReturned, SlotInUse, Moves
<1> QED BY <1>1, <1>2, <1>3, <1>5, <1>6

\* The controller's own steps, apart from those on the slot.
ControllerFrame ==
    /\ UNCHANGED <<phase, step, lun, sub, tries, polls, wait, Ufs, Disk, req, result, moved,
                   requests, desc, rsp, capacity, doorbell, hw, overrun, suspect>>
    /\ dev'.enabled = dev.enabled
    /\ is' \subseteq {"UTRCS", "UCCS", "UPMS", "UE", "FATAL"}
    /\ uic' \in [what : Whats, mine : BOOLEAN, served : BOOLEAN]
    /\ dev' \in [link : BOOLEAN, list : BOOLEAN, fast : BOOLEAN, init : Flags, refclk : Flags,
                 enabled : SUBSET LunIds]

\* Such a step keeps the invariant.
LEMMA ControllerFrameKeeps == ASSUME IInv, ControllerFrame PROVE IInv'
<1> USE DEF ControllerFrame
<1>1. TypeInv'
  BY DEF IInv, TypeInv
<1>2. PhaseInv'
  BY DEF IInv, PhaseInv, Commands, At, ChunkBlks
<1>3. SlotFrame
  BY DEF SlotFrame
<1> QED BY <1>1, <1>2, <1>3, SlotFrameKeeps DEF IInv

\* A UIC command ends, a power mode change ends, an error is latched, or the
\* device has initialised itself.
LEMMA ControllerKeeps ==
    ASSUME IInv, HwUic \/ HwPowerMode \/ HwFatal \/ DeviceInitialised
    PROVE  IInv'
<1> USE DEF progVars, ioVars, memVars, hwVars, histVars
<1>1. CASE HwUic
  <2>1. uic.mine \in BOOLEAN /\ dev.link \in BOOLEAN /\ (uic.what = "LinkStartup") \in BOOLEAN
    BY DEF IInv, TypeInv
  <2>2. uic' \in [what : Whats, mine : BOOLEAN, served : BOOLEAN]
    BY <1>1, <2>1 DEF HwUic, Whats, Names
  <2>3. (dev.link \/ uic.what = "LinkStartup") \in BOOLEAN
    BY <2>1
  <2>4. /\ dev'.enabled = dev.enabled
        /\ dev' \in [link : BOOLEAN, list : BOOLEAN, fast : BOOLEAN, init : Flags,
                     refclk : Flags, enabled : SUBSET LunIds]
    BY <1>1, <2>3 DEF HwUic, IInv, TypeInv
  <2>5. is' \subseteq {"UTRCS", "UCCS", "UPMS", "UE", "FATAL"}
    BY <1>1 DEF HwUic, IInv, TypeInv
  <2>6. ControllerFrame
    BY <1>1, <2>2, <2>4, <2>5 DEF HwUic, ControllerFrame
  <2> QED BY <2>6, ControllerFrameKeeps
<1>2. CASE HwPowerMode
  <2>1. /\ dev'.enabled = dev.enabled
        /\ dev' \in [link : BOOLEAN, list : BOOLEAN, fast : BOOLEAN, init : Flags,
                     refclk : Flags, enabled : SUBSET LunIds]
    BY <1>2 DEF HwPowerMode, IInv, TypeInv
  <2>2. ControllerFrame
    BY <1>2, <2>1 DEF HwPowerMode, ControllerFrame, IInv, TypeInv
  <2> QED BY <2>2, ControllerFrameKeeps
<1>3. CASE HwFatal
  <2>1. ControllerFrame
    BY <1>3 DEF HwFatal, ControllerFrame, IInv, TypeInv
  <2> QED BY <2>1, ControllerFrameKeeps
<1>4. CASE DeviceInitialised
  <2>1. /\ dev'.enabled = dev.enabled
        /\ dev' \in [link : BOOLEAN, list : BOOLEAN, fast : BOOLEAN, init : Flags,
                     refclk : Flags, enabled : SUBSET LunIds]
    BY <1>4 DEF DeviceInitialised, IInv, TypeInv, Flags
  <2>2. ControllerFrame
    BY <1>4, <2>1 DEF DeviceInitialised, ControllerFrame, IInv, TypeInv
  <2> QED BY <2>2, ControllerFrameKeeps
<1> QED BY <1>1, <1>2, <1>3, <1>4

-----------------------------------------------------------------------------
(* The driver's steps without a command in the slot.                        *)

PositionType ==
    /\ phase \in {"bringup", "scan", "ready", "failed"}
    /\ step \in 1 .. Len(Program) /\ lun \in LunIds /\ sub \in UnitCmds
    /\ tries \in 1 .. QUERY_REQ_RETRIES + NOP_OUT_RETRY /\ polls \in 0 .. FlagRetry

\* A step that ends without a command under way.
LEMMA StepKeeps ==
    ASSUME IInv, phase \in {"bringup", "scan"}, SlotFrame, wait' = "none", PositionType',
           Ufs' \in [flag : Flags, gear : {"none", "real", "zero"}, LUEnable : [LunIds -> Flags]],
           is' \subseteq {"UTRCS", "UCCS", "UPMS", "UE", "FATAL"},
           uic' \in [what : Whats, mine : BOOLEAN, served : BOOLEAN],
           dev' \in [link : BOOLEAN, list : BOOLEAN, fast : BOOLEAN, init : Flags,
                     refclk : Flags, enabled : SUBSET LunIds],
           suspect' \in BOOLEAN
    PROVE  IInv'
<1>1. TypeInv'
  BY DEF IInv, TypeInv, PositionType, SlotFrame
<1>2. PhaseInv'
  BY DEF IInv, PhaseInv, SlotFrame
<1> QED BY <1>1, <1>2, SlotFrameKeeps DEF IInv

\* UfsVendorSetup and the waits of the calibration.
LEMMA SetupKeeps == ASSUME IInv, UfsVendorSetup \/ CalWait PROVE IInv'
<1> USE DEF ioVars, memVars, hwVars, histVars
<1>1. phase = "bringup" /\ wait = "none" /\ wait' = "none"
  BY DEF UfsVendorSetup, CalWait, At
<1>2. \E a : Advance(a) \/ Fail
  BY DEF UfsVendorSetup, CalWait
<1>3. PositionType' /\ (phase' = "scan" => sub' = "unit")
  BY <1>1, <1>2, AdvanceType DEF PositionType, IInv
<1>4. /\ dev'.enabled = dev.enabled
      /\ dev' \in [link : BOOLEAN, list : BOOLEAN, fast : BOOLEAN, init : Flags,
                   refclk : Flags, enabled : SUBSET LunIds]
  BY DEF UfsVendorSetup, CalWait, IInv, TypeInv
<1>5. SlotFrame
  BY <1>1, <1>3, <1>4 DEF SlotFrame, UfsVendorSetup, CalWait
<1>6. UNCHANGED <<Ufs, is, uic, suspect>>
  BY DEF UfsVendorSetup, CalWait
<1> QED BY <1>1, <1>3, <1>4, <1>5, <1>6, StepKeeps DEF IInv, TypeInv

\* The memory runs out in the scan.
LEMMA OutOfMemoryKeeps == ASSUME IInv, OutOfMemory PROVE IInv'
<1> USE DEF ioVars, memVars, hwVars, histVars
<1>1. /\ phase = "scan" /\ wait = "none" /\ wait' = "none" /\ TypeInv
      /\ UNCHANGED <<wait, Ufs, Disk, req, result, moved, requests, desc, rsp, capacity,
                     doorbell, is, hw, uic, dev, overrun, suspect>>
  BY DEF OutOfMemory, IInv
<1>2. QUERY_REQ_RETRIES \in 1 .. QUERY_REQ_RETRIES + NOP_OUT_RETRY
      /\ (lun \in LunIds /\ lun + 1 # Luns => lun + 1 \in LunIds)
  BY Constants
<1>3. CASE sub = "unit" /\ tries = QUERY_REQ_RETRIES /\ Fail
  <2>1. PositionType' /\ phase' = "failed"
    BY <1>1, <1>3 DEF Fail, PositionType, TypeInv
  <2>2. SlotFrame
    BY <1>1, <2>1 DEF SlotFrame
  <2> QED BY <1>1, <2>1, <2>2, StepKeeps DEF TypeInv
<1>4. CASE sub = "sense" /\ sub' = "capacity" /\ UNCHANGED <<phase, step, lun, tries, polls>>
  <2>1. PositionType'
    BY <1>1, <1>4 DEF PositionType, TypeInv, UnitCmds
  <2>2. SlotFrame
    BY <1>1, <1>4 DEF SlotFrame
  <2> QED BY <1>1, <2>1, <2>2, StepKeeps DEF TypeInv
<1>5. CASE sub = "capacity" /\ NextLun /\ UNCHANGED <<step, polls>>
  <2>1. PositionType' /\ sub' = "unit"
    BY <1>1, <1>2, <1>5 DEF PositionType, TypeInv, UnitCmds, NextLun
  <2>2. SlotFrame
    BY <1>1, <2>1 DEF SlotFrame
  <2> QED BY <1>1, <2>1, <2>2, StepKeeps DEF TypeInv
<1> QED BY <1>3, <1>4, <1>5 DEF OutOfMemory

\* UfsSendUicCmd writes the command.
LEMMA UicSendKeeps == ASSUME IInv, UicSend PROVE IInv'
<1> USE DEF progVars, ioVars, memVars, histVars
<1>1. /\ phase = "bringup" /\ wait = "none" /\ wait' = "uic" /\ At[1] \in {"uic", "dme"}
      /\ UNCHANGED <<phase, step, lun, sub, tries, polls, Ufs, Disk, req, result, moved,
                     requests, desc, rsp, capacity, doorbell, is, hw, dev, overrun, suspect>>
  BY DEF UicSend, At
<1>2. At[2] \in Whats
  BY <1>1, AtType DEF IInv, Whats
<1>3. uic' \in [what : Whats, mine : BOOLEAN, served : BOOLEAN]
  <2>1. \/ uic' = [what |-> At[2], mine |-> TRUE, served |-> FALSE]
        \/ uic' = [uic EXCEPT !.served = FALSE]
    BY DEF UicSend
  <2>2. uic \in [what : Whats, mine : BOOLEAN, served : BOOLEAN]
    BY DEF IInv, TypeInv
  <2>3. \A w \in Whats : [what |-> w, mine |-> TRUE, served |-> FALSE]
                            \in [what : Whats, mine : BOOLEAN, served : BOOLEAN]
    OBVIOUS
  <2>4. [uic EXCEPT !.served = FALSE] \in [what : Whats, mine : BOOLEAN, served : BOOLEAN]
    BY <2>2
  <2> QED BY <1>2, <2>1, <2>3, <2>4
<1>4. TypeInv'
  BY <1>1, <1>3 DEF IInv, TypeInv
<1>5. PhaseInv'
  BY <1>1 DEF IInv, PhaseInv, At
<1>6. SlotFrame
  BY <1>1 DEF SlotFrame
<1> QED BY <1>4, <1>5, <1>6, SlotFrameKeeps DEF IInv

\* UfsSendUicCmd returns.
LEMMA UicReturnsKeeps == ASSUME IInv, UicReturns PROVE IInv'
<1> USE DEF ioVars, memVars
<1>1. PICK ok \in BOOLEAN : UicDone(ok)
  BY DEF UicReturns
<1>2. /\ phase = "bringup" /\ wait = "uic" /\ wait' = "none" /\ is' = {} /\ TypeInv
      /\ UNCHANGED <<Disk, req, result, moved, requests, desc, rsp, capacity, doorbell, hw,
                     dev, overrun>>
  BY <1>1 DEF UicReturns, UicDone, IInv, PhaseInv
<1>3. PositionType' /\ (phase' = "scan" => sub' = "unit")
  <2>1. Advance(0) \/ Fail
    BY <1>1 DEF UicDone
  <2> QED BY <1>2, <2>1, AdvanceType DEF PositionType
<1>4. uic' \in [what : Whats, mine : BOOLEAN, served : BOOLEAN]
  <2>1. uic' = [uic EXCEPT !.mine = FALSE, !.served = FALSE]
    BY <1>1 DEF UicDone
  <2>2. uic \in [what : Whats, mine : BOOLEAN, served : BOOLEAN]
    BY <1>2 DEF TypeInv
  <2> QED BY <2>1, <2>2
<1>5. /\ Ufs'.LUEnable = Ufs.LUEnable
      /\ Ufs' \in [flag : Flags, gear : {"none", "real", "zero"}, LUEnable : [LunIds -> Flags]]
  BY <1>1, <1>2 DEF UicDone, TypeInv
<1>6. suspect' \in BOOLEAN /\ (~suspect' => ~suspect)
  <2>1. suspect' = (suspect \/ (ok /\ ~uic.served))
    BY <1>1 DEF UicDone
  <2> QED BY <2>1
<1>7. SlotFrame
  BY <1>2, <1>3, <1>5, <1>6 DEF SlotFrame
<1> QED BY <1>2, <1>3, <1>4, <1>5, <1>6, <1>7, StepKeeps DEF TypeInv

\* UfsPreSetup resets the controller.
LEMMA PreSetupKeeps == ASSUME IInv, UfsPreSetup PROVE IInv'
<1> USE DEF ioVars, histVars
<1>1. /\ phase = "bringup" /\ wait = "none" /\ wait' = "none" /\ TypeInv /\ req = NoReq
      /\ doorbell' = 0 /\ is' = {} /\ hw' = NoCmd /\ uic' = NoUic
      /\ desc' = Zero /\ rsp' = Cleared("NopOut") /\ Advance(0)
      /\ UNCHANGED <<Ufs, Disk, req, result, moved, requests, capacity, dev, overrun, suspect>>
  BY DEF UfsPreSetup, At, IInv, PhaseInv
<1>2. PositionType' /\ (phase' = "scan" => sub' = "unit") /\ phase' # "ready"
  BY <1>1, AdvanceType DEF PositionType
<1>3. desc' \in CmdType /\ desc'.what \notin Moves
      /\ uic' \in [what : Whats, mine : BOOLEAN, served : BOOLEAN]
  BY <1>1, Constants DEF Zero, Plain, Cmd, CmdType, Whats, Names, NoUic, Moves
<1>4. TypeInv'
  BY <1>1, <1>2, <1>3, ClearedType, NoCmdType DEF TypeInv, PositionType, Flags
<1>5. PhaseInv' /\ SlotInv'
  BY <1>1, <1>2, <1>3, NoCmdType DEF PhaseInv, SlotInv
<1>6. AnswerInv'
  BY <1>1, ClearedType DEF AnswerInv, Good
<1>7. ScanInv' /\ MoveInv' /\ BuffersReturned'
  BY <1>1, <1>2 DEF IInv, ScanInv, MoveInv, BuffersReturned
<1> QED BY <1>4, <1>5, <1>6, <1>7 DEF IInv

-----------------------------------------------------------------------------
(* The slot.                                                                *)

\* The driver is at one command at most.
LEMMA OneCommand == \A c \in Commands : Commands = {c}
BY DEF Commands

\* The descriptor of a new command.
LEMMA PrepareKeeps == ASSUME IInv, NEW c \in Commands, UtpPrepare(c) PROVE IInv'
<1> USE DEF progVars, ioVars
<1>1. /\ wait = "none" /\ wait' = "written" /\ desc' = c /\ rsp' = Cleared(c.what) /\ TypeInv
      /\ capacity' = (IF c.what = "capacity" THEN "zero" ELSE capacity)
      /\ hw' = [hw EXCEPT !.mine = FALSE] /\ overrun' = (overrun \/ SlotInUse)
      /\ UNCHANGED <<phase, step, lun, sub, tries, polls, Ufs, Disk, req, result, moved,
                     requests, doorbell, is, uic, dev, suspect>>
  BY DEF UtpPrepare, IInv
<1>2. /\ c \in CmdType
      /\ phase \in {"bringup", "scan"} \/ (phase = "ready" /\ req # NoReq)
      /\ phase # "ready" => c.what \notin Moves
  <2>1. sub \in UnitCmds
    BY <1>1 DEF TypeInv
  <2> QED BY <1>1, <2>1, CommandsType DEF Names, UnitCmds, Moves
<1>3. hw \in [cmd : CmdType, mine : BOOLEAN]
  BY <1>1 DEF TypeInv
<1>4. /\ hw' \in [cmd : CmdType, mine : BOOLEAN] /\ hw'.mine = FALSE /\ hw'.cmd = hw.cmd
      /\ hw' # NoCmd => hw # NoCmd
  <2>1. /\ hw' \in [cmd : CmdType, mine : BOOLEAN] /\ hw'.mine = FALSE /\ hw'.cmd = hw.cmd
    BY <1>1, <1>3
  <2>2. hw = NoCmd => hw' = NoCmd
    BY <1>3, <2>1, NoCmdType
  <2> QED BY <2>1, <2>2
<1>5. overrun' \in BOOLEAN /\ (~overrun' => ~overrun /\ doorbell = 0)
  BY <1>1 DEF SlotInUse, TypeInv, Flags
<1>6. TypeInv'
  BY <1>1, <1>2, <1>4, <1>5, ClearedType DEF TypeInv
<1>7. PhaseInv'
  <2>1. Commands' = Commands /\ At' = At
    BY <1>1 DEF Commands, At, ChunkBlks
  <2> QED BY <1>1, <1>2, <2>1, OneCommand DEF IInv, PhaseInv
<1>8. SlotInv'
  BY <1>1, <1>4, <1>5 DEF IInv, SlotInv
<1>9. AnswerInv'
  BY <1>1, ClearedType DEF AnswerInv, Good
<1>10. ScanInv'
  BY <1>1 DEF IInv, ScanInv
<1>11. MoveInv'
  <2>1. Past' = Past /\ ChunkBlks' = ChunkBlks /\ \A n : Moved(n)' = Moved(n)
    BY <1>1 DEF ChunkBlks, Past, Moved
  <2> QED BY <1>1, <1>5, <2>1 DEF IInv, MoveInv
<1>12. BuffersReturned'
  BY <1>1, <1>2 DEF BuffersReturned
<1> QED BY <1>6, <1>7, <1>8, <1>9, <1>10, <1>11, <1>12 DEF IInv

\* The doorbell is rung.
LEMMA SendKeeps == ASSUME IInv, UfsUtpSend PROVE IInv'
<1> USE DEF progVars, ioVars, memVars, histVars
<1>1. /\ wait = "written" /\ wait' = "utp" /\ doorbell' = 1 /\ TypeInv
      /\ UNCHANGED <<phase, step, lun, sub, tries, polls, Ufs, Disk, req, result, moved,
                     requests, desc, rsp, capacity, is, hw, uic, dev, overrun, suspect>>
  BY DEF UfsUtpSend, IInv
<1>2. TypeInv'
  BY <1>1 DEF TypeInv, Flags
<1>3. PhaseInv'
  <2>1. Commands' = Commands /\ At' = At
    BY <1>1 DEF Commands, At, ChunkBlks
  <2> QED BY <1>1, <2>1 DEF IInv, PhaseInv
<1>4. SlotInv'
  BY <1>1 DEF IInv, SlotInv
<1>5. AnswerInv' /\ ScanInv'
  BY <1>1 DEF IInv, AnswerInv, Good, ScanInv
<1>6. MoveInv'
  <2>1. Past' = Past /\ ChunkBlks' = ChunkBlks /\ \A n : Moved(n)' = Moved(n)
    BY <1>1 DEF ChunkBlks, Past, Moved
  <2> QED BY <1>1, <2>1 DEF IInv, MoveInv
<1>7. BuffersReturned'
  BY <1>1 DEF IInv, PhaseInv, BuffersReturned
<1> QED BY <1>2, <1>3, <1>4, <1>5, <1>6, <1>7 DEF IInv

\* The controller fetches the descriptor.
LEMMA FetchKeeps == ASSUME IInv, HwFetch PROVE IInv'
<1> USE DEF progVars, ioVars, memVars, histVars
<1>1. /\ doorbell = 1 /\ hw = NoCmd /\ hw' = [cmd |-> desc, mine |-> TRUE] /\ TypeInv
      /\ UNCHANGED <<phase, step, lun, sub, tries, polls, wait, Ufs, Disk, req, result, moved,
                     requests, desc, rsp, capacity, doorbell, is, uic, dev, overrun, suspect>>
  BY DEF HwFetch, IInv
<1>2. TypeInv'
  BY <1>1 DEF TypeInv
<1>3. PhaseInv'
  <2>1. Commands' = Commands /\ At' = At
    BY <1>1 DEF Commands, At, ChunkBlks
  <2> QED BY <1>1, <2>1 DEF IInv, PhaseInv
<1>4. SlotInv'
  BY <1>1 DEF IInv, SlotInv
<1>5. AnswerInv' /\ ScanInv'
  BY <1>1 DEF IInv, AnswerInv, Good, ScanInv
<1>6. MoveInv'
  <2>1. Past' = Past /\ ChunkBlks' = ChunkBlks /\ Good' = Good /\ \A n : Moved(n)' = Moved(n)
    BY <1>1 DEF ChunkBlks, Past, Moved, Good
  <2> QED BY <1>1, <2>1 DEF IInv, MoveInv
<1>7. BuffersReturned'
  BY <1>1 DEF IInv, BuffersReturned, SlotInUse
<1> QED BY <1>2, <1>3, <1>4, <1>5, <1>6, <1>7 DEF IInv

\* The remainder modulo LbaSpace.
LEMMA Modulo ==
    \A x \in Nat : /\ x % LbaSpace \in 0 .. LbaSpace - 1
                   /\ x < LbaSpace => x % LbaSpace = x
BY Constants

\* A call of ReadBlocks or WriteBlocks.
LEMMA BlocksKeeps ==
    ASSUME IInv, NEW dir \in Moves, NEW l \in LunIds, NEW lba \in Lbas, NEW count \in Counts,
           Blocks(dir, l, lba, count)
    PROVE  IInv'
<1> USE DEF progVars, memVars, hwVars, histVars
<1>1. /\ phase = "ready" /\ req = NoReq /\ wait = "none" /\ requests < MaxRequests
      /\ requests' = requests + 1 /\ moved' = <<>> /\ TypeInv
      /\ req' = (IF count = 0 \/ Disk[l] = "zero" THEN NoReq
                 ELSE [dir |-> dir, lun |-> l, at |-> lba, from |-> lba % LbaSpace,
                       count |-> count, left |-> count])
      /\ UNCHANGED <<phase, step, lun, sub, tries, polls, wait, Ufs, Disk, result, desc, rsp,
                     capacity, doorbell, is, hw, uic, dev, overrun, suspect>>
  BY DEF Blocks, IInv
<1>2. lba \in Nat /\ count \in Nat /\ lba % LbaSpace \in 0 .. LbaSpace - 1
      /\ (lba < LbaSpace => lba % LbaSpace = lba)
  BY Constants, Modulo
<1>3. /\ req' \in [dir : {"none"} \union Moves, lun : LunIds, at : Nat,
                   from : 0 .. LbaSpace - 1, count : Nat, left : Nat]
      /\ req'.left <= req'.count
      /\ req' # NoReq => /\ req'.dir \in Moves /\ req'.left > 0 /\ req'.left = req'.count
                         /\ req'.at = lba /\ req'.from = lba % LbaSpace
  <2>1. CASE req' = NoReq
    BY <1>1, <2>1 DEF TypeInv
  <2>2. CASE req' # NoReq
    <3>1. count # 0 /\ req' = [dir |-> dir, lun |-> l, at |-> lba, from |-> lba % LbaSpace,
                               count |-> count, left |-> count]
      BY <1>1, <2>2
    <3> QED BY <1>2, <3>1
  <2> QED BY <2>1, <2>2
<1>4. TypeInv'
  <2>1. moved' \in Seq(Placed) /\ requests' \in 0 .. MaxRequests
    BY <1>1, EmptySeq, Constants DEF TypeInv
  <2> QED BY <1>1, <1>3, <2>1 DEF TypeInv
<1>5. PhaseInv' /\ SlotInv'
  BY <1>1, <1>3 DEF IInv, PhaseInv, SlotInv
<1>6. AnswerInv' /\ ScanInv'
  BY <1>1 DEF IInv, AnswerInv, Good, ScanInv
<1>7. MoveInv'
  <2> SUFFICES ASSUME req' # NoReq, req'.at + req'.count <= LbaSpace
               PROVE  req'.from = req'.at + Past' /\ Moved(Past)'
    BY <1>1 DEF MoveInv
  <2>1. Past' = 0
    BY <1>3 DEF Past
  <2>2. lba < LbaSpace
    BY <1>2, <1>3, Constants
  <2>3. Moved(0)'
    BY <1>1 DEF Moved
  <2> QED BY <1>2, <1>3, <2>1, <2>2, <2>3
<1>8. BuffersReturned'
  BY <1>1 DEF IInv, BuffersReturned, SlotInUse
<1> QED BY <1>4, <1>5, <1>6, <1>7, <1>8 DEF IInv

\* A function on 1 .. n is a sequence of length n.
LEMMA FunctionIsSeq ==
    ASSUME NEW S, NEW n \in Nat, NEW f \in [1 .. n -> S]
    PROVE  f \in Seq(S) /\ Len(f) = n
BY SeqDef

\* The blocks of a command, as they are appended to those moved before.
LEMMA BlocksAppended ==
    ASSUME TypeInv, NEW c \in CmdType, c.what \in Moves, moved' = moved \o BlocksOf(c)
    PROVE  /\ moved' \in Seq(Placed)
           /\ \A n \in Nat : /\ c = Cmd(req.dir, req.lun, req.at + n, c.len, n) /\ req' = req
                             /\ Moved(n)
                             => Moved(n + c.len)'
<1> DEFINE b == BlocksOf(c)
<1>1. c.lun \in LunIds /\ c.at \in Nat /\ c.len \in Nat /\ c.buf \in Nat
  BY DEF CmdType
<1>2. /\ b \in [1 .. c.len -> Placed]
      /\ \A k \in 1 .. c.len : b[k] = <<c.what, c.lun, c.at + k - 1, c.buf + k - 1>>
  <2>1. \A k \in 1 .. c.len : c.at + k - 1 \in Nat /\ c.buf + k - 1 \in Nat
    BY <1>1
  <2>2. \A k \in 1 .. c.len : <<c.what, c.lun, c.at + k - 1, c.buf + k - 1>> \in Placed
    BY <1>1, <2>1 DEF Placed
  <2> QED BY <2>2 DEF BlocksOf
<1> HIDE DEF b
<1>3. b \in Seq(Placed) /\ Len(b) = c.len
  BY <1>1, <1>2, FunctionIsSeq
<1>4. moved \in Seq(Placed) /\ Len(moved) \in Nat
  BY LenProperties DEF TypeInv
<1>5. /\ moved' \in Seq(Placed) /\ Len(moved') = Len(moved) + c.len
      /\ \A k \in 1 .. Len(moved) + c.len :
            moved'[k] = IF k <= Len(moved) THEN moved[k] ELSE b[k - Len(moved)]
  BY <1>3, <1>4, ConcatProperties DEF b
<1>6. ASSUME NEW n \in Nat, c = Cmd(req.dir, req.lun, req.at + n, c.len, n), req' = req, Moved(n)
      PROVE  Moved(n + c.len)'
  <2>1. c.what = req.dir /\ c.lun = req.lun /\ c.at = req.at + n /\ c.buf = n
    BY <1>6 DEF Cmd
  <2>2. Len(moved) = n /\ \A k \in 1 .. n : moved[k] = <<req.dir, req.lun, req.at + k - 1, k - 1>>
    BY <1>6 DEF Moved
  <2>3. req.at \in Nat
    BY ReqType
  <2>4. ASSUME NEW k \in 1 .. n + c.len
        PROVE  moved'[k] = <<req.dir, req.lun, req.at + k - 1, k - 1>>
    <3>1. CASE k <= n
      BY <1>1, <1>5, <2>2, <3>1
    <3>2. CASE ~(k <= n)
      <4>1. k - n \in 1 .. c.len /\ moved'[k] = b[k - n]
        BY <1>1, <1>5, <2>2, <3>2
      <4>2. b[k - n] = <<c.what, c.lun, c.at + (k - n) - 1, c.buf + (k - n) - 1>>
        BY <1>2, <4>1
      <4>3. c.at + (k - n) - 1 = req.at + k - 1 /\ c.buf + (k - n) - 1 = k - 1
        BY <1>1, <2>1, <2>3
      <4> QED BY <2>1, <4>1, <4>2, <4>3
    <3> QED BY <3>1, <3>2
  <2> QED BY <1>1, <1>5, <1>6, <2>2, <2>4 DEF Moved
<1> QED BY <1>5, <1>6

\* What the controller writes as the response.
LEMMA AnswerType ==
    ASSUME TypeInv, NEW o \in Outcomes, NEW v \in Flags
    PROVE  /\ Answer(o, v) \in [ocs : BOOLEAN, Response : BOOLEAN, Status : BOOLEAN,
                                mine : BOOLEAN, value : Flags, of : CmdType]
           /\ Answer(o, v).mine = hw.mine /\ Answer(o, v).of = hw.cmd /\ Answer(o, v).value = v
           /\ (Answer(o, v).ocs /\ ~Answer(o, v).Response /\ ~Answer(o, v).Status) <=> o = "good"
<1>1. hw.mine \in BOOLEAN /\ hw.cmd \in CmdType
  BY DEF TypeInv
<1>2. /\ (o \notin {"ocs", "reject"}) \in BOOLEAN /\ (o \in {"reject", "refused"}) \in BOOLEAN
      /\ (o = "check") \in BOOLEAN
  OBVIOUS
<1>3. /\ Answer(o, v) \in [ocs : BOOLEAN, Response : BOOLEAN, Status : BOOLEAN,
                           mine : BOOLEAN, value : Flags, of : CmdType]
      /\ Answer(o, v).mine = hw.mine /\ Answer(o, v).of = hw.cmd /\ Answer(o, v).value = v
  BY <1>1, <1>2 DEF Answer
<1>4. /\ Answer(o, v).ocs = (o \notin {"ocs", "reject"})
      /\ Answer(o, v).Response = (o \in {"reject", "refused"})
      /\ Answer(o, v).Status = (o = "check")
  BY DEF Answer
<1> QED BY <1>3, <1>4 DEF Outcomes

\* What a command brings.
LEMMA ValueType ==
    ASSUME TypeInv, NEW c
    PROVE  /\ Value(c) \in Flags
           /\ c.what = "unit" => Value(c) = (IF c.lun \in dev.enabled THEN 1 ELSE 0)
<1>1. dev.init \in Flags /\ dev.refclk \in Flags
  BY DEF TypeInv
<1> QED BY <1>1 DEF Value, Flags

\* The controller ends a command: what it leaves in the slot is the answer of
\* that command.
LEMMA DoneKeeps == ASSUME IInv, NEW o \in Outcomes, HwDone(o) PROVE IInv'
<1> USE DEF progVars, histVars
<1> DEFINE v == IF o = "good" THEN Value(hw.cmd) ELSE 0
<1>1. /\ hw # NoCmd /\ TypeInv
      /\ rsp' = (IF wait = "none" THEN rsp ELSE Answer(o, v))
      /\ doorbell' = 0 /\ hw' = NoCmd /\ is' = is \union {"UTRCS"}
      /\ capacity' = (IF o = "good" /\ Awaited /\ hw.cmd.what = "capacity" THEN "real" ELSE capacity)
      /\ moved' = (IF o = "good" /\ Awaited /\ hw.cmd.what \in {"read", "write"}
                   THEN moved \o BlocksOf(hw.cmd) ELSE moved)
      /\ dev' = (IF o # "good" THEN dev
                 ELSE [dev EXCEPT !.init = IF hw.cmd.what = "SetDeviceInit" THEN 1 ELSE @,
                                  !.refclk = IF hw.cmd.what = "WriteRefClk" THEN 1 ELSE @])
      /\ UNCHANGED <<phase, step, lun, sub, tries, polls, wait, Ufs, Disk, req, result,
                     requests, desc, uic, overrun, suspect>>
  BY DEF HwDone, IInv
<1>2. v \in Flags /\ (o = "good" /\ hw.cmd.what = "unit" =>
                         v = IF hw.cmd.lun \in dev.enabled THEN 1 ELSE 0)
  BY <1>1, ValueType DEF Flags
<1> HIDE DEF v
<1>3. hw \in [cmd : CmdType, mine : BOOLEAN] /\ hw.cmd \in CmdType /\ hw.mine \in BOOLEAN
  BY <1>1 DEF TypeInv
<1>4. /\ dev'.enabled = dev.enabled
      /\ dev' \in [link : BOOLEAN, list : BOOLEAN, fast : BOOLEAN, init : Flags,
                   refclk : Flags, enabled : SUBSET LunIds]
  <2>1. dev \in [link : BOOLEAN, list : BOOLEAN, fast : BOOLEAN, init : Flags,
                 refclk : Flags, enabled : SUBSET LunIds]
    BY <1>1 DEF TypeInv
  <2>2. CASE o # "good"
    BY <1>1, <2>1, <2>2
  <2>3. CASE o = "good"
    <3>1. dev' = [dev EXCEPT !.init = IF hw.cmd.what = "SetDeviceInit" THEN 1 ELSE dev.init,
                             !.refclk = IF hw.cmd.what = "WriteRefClk" THEN 1 ELSE dev.refclk]
      BY <1>1, <2>1, <2>3
    <3>2. /\ (IF hw.cmd.what = "SetDeviceInit" THEN 1 ELSE dev.init) \in Flags
          /\ (IF hw.cmd.what = "WriteRefClk" THEN 1 ELSE dev.refclk) \in Flags
      BY <2>1 DEF Flags
    <3> QED BY <2>1, <3>1, <3>2
  <2> QED BY <2>2, <2>3
<1>5. moved' \in Seq(Placed)
  BY <1>1, <1>3, BlocksAppended DEF TypeInv, Moves
<1>6. TypeInv'
  <2>1. rsp' \in [ocs : BOOLEAN, Response : BOOLEAN, Status : BOOLEAN, mine : BOOLEAN,
                  value : Flags, of : CmdType]
    BY <1>1, <1>2, AnswerType DEF TypeInv
  <2>2. capacity' \in {"free", "zero", "real"}
    BY <1>1 DEF TypeInv
  <2> QED BY <1>1, <1>4, <1>5, <2>1, <2>2, NoCmdType DEF TypeInv, Flags
<1>7. PhaseInv'
  <2>1. Commands' = Commands /\ At' = At
    BY <1>1 DEF Commands, At, ChunkBlks
  <2> QED BY <1>1, <2>1 DEF IInv, PhaseInv
<1>8. doorbell = 1 /\ (hw.mine => hw.cmd = desc)
      /\ ((wait = "utp" /\ ~overrun) => hw.mine) /\ ~(wait = "written" /\ ~overrun)
  BY <1>1 DEF IInv, SlotInv
<1>9. wait # "none" => rsp' = Answer(o, v) /\ rsp'.mine = hw.mine /\ rsp'.of = hw.cmd
                       /\ rsp'.value = v
                       /\ ((rsp'.ocs /\ ~rsp'.Response /\ ~rsp'.Status) <=> o = "good")
  BY <1>1, <1>2, AnswerType
<1>10. SlotInv'
  BY <1>1, <1>8, <1>9, NoCmdType DEF SlotInv
<1>11. AnswerInv'
  <2>1. CASE wait = "none"
    <3>1. capacity' = capacity /\ rsp' = rsp
      BY <1>1, <2>1 DEF Awaited
    <3> QED BY <1>1, <1>4, <3>1 DEF IInv, AnswerInv, Good
  <2>2. CASE wait # "none"
    <3> SUFFICES ASSUME Good'
                 PROVE  /\ rsp'.of = desc
                        /\ desc.what = "unit" =>
                              rsp'.value = (IF desc.lun \in dev.enabled THEN 1 ELSE 0)
                        /\ desc.what = "capacity" => capacity' = "real"
      BY <1>1, <1>4 DEF AnswerInv
    <3>1. o = "good" /\ hw.mine
      BY <1>9, <2>2 DEF Good
    <3>2. hw.cmd = desc
      BY <1>8, <3>1
    <3>3. desc.what = "capacity" => capacity' = "real"
      BY <1>1, <2>2, <3>1, <3>2 DEF Awaited
    <3> QED BY <1>2, <1>9, <2>2, <3>1, <3>2, <3>3
  <2> QED BY <2>1, <2>2
<1>12. ScanInv'
  BY <1>1, <1>4 DEF IInv, ScanInv
<1>13. MoveInv'
  <2> SUFFICES ASSUME req # NoReq, req.at + req.count <= LbaSpace, ~suspect, ~overrun
               PROVE  /\ req.from = req.at + Past
                      /\ IF wait = "utp" /\ Good' THEN Moved(Past + ChunkBlks)' ELSE Moved(Past)'
    BY <1>1 DEF MoveInv, Past, ChunkBlks
  <2>1. req.from = req.at + Past /\ Moved(Past)
    BY <1>8 DEF IInv, MoveInv
  <2>2. phase = "ready" /\ req.dir \in Moves /\ wait # "uic"
    BY DEF IInv, PhaseInv
  <2>3. CASE moved' = moved /\ ~(wait = "utp" /\ Good')
    <3>1. Moved(Past)'
      BY <1>1, <2>1, <2>3 DEF Moved, Past
    <3> QED BY <2>1, <2>3, <3>1
  <2>4. CASE wait = "utp" /\ o = "good"
    <3>1. hw.mine /\ hw.cmd = desc /\ desc \in Commands
      BY <1>8, <2>4 DEF IInv, PhaseInv
    <3>2. hw.cmd = Cmd(req.dir, req.lun, req.at + Past, ChunkBlks, Past)
      BY <1>1, <2>1, <2>2, <3>1, CommandsType
    <3>3. hw.cmd.what = req.dir /\ hw.cmd.len = ChunkBlks
      BY <3>2 DEF Cmd
    <3>4. moved' = moved \o BlocksOf(hw.cmd)
      BY <1>1, <2>2, <2>4, <3>1, <3>3 DEF Awaited, Moves
    <3>5. Past \in Nat
      BY <1>1, ReqType
    <3>6. Moved(Past + ChunkBlks)'
      BY <1>1, <1>3, <2>1, <2>2, <3>2, <3>3, <3>4, <3>5, BlocksAppended DEF Past, ChunkBlks
    <3>7. Good'
      BY <1>9, <2>4, <3>1 DEF Good
    <3> QED BY <2>1, <2>4, <3>6, <3>7
  <2>5. CASE wait = "none"
    BY <1>1, <2>3, <2>5 DEF Awaited
  <2>6. CASE wait = "utp" /\ o # "good"
    BY <1>1, <1>9, <2>3, <2>6 DEF Good
  <2> QED BY <1>1, <1>8, <2>2, <2>4, <2>5, <2>6 DEF TypeInv
<1>14. BuffersReturned'
  BY <1>1 DEF BuffersReturned, SlotInUse
<1> QED BY <1>6, <1>7, <1>10, <1>11, <1>12, <1>13, <1>14 DEF IInv

-----------------------------------------------------------------------------
(* A command returns to the driver.                                         *)

\* What every return leaves, whatever it was for.
LEMMA ReturnFacts ==
    ASSUME IInv, NEW status, UtpDone(status), status = UfsUtpCheckResult => doorbell = 0,
           status \in {UfsUtpCheckResult, "TIMEOUT"}
    PROVE  /\ TypeInv /\ wait = "utp" /\ wait' = "none" /\ is' = {}
           /\ rsp' = Cleared("NopOut") /\ overrun' = (overrun /\ req' # NoReq)
           /\ desc \in Commands
           /\ UNCHANGED <<moved, requests, desc, doorbell, hw, uic, dev>>
           /\ ~suspect' => ~suspect /\ (status = "SUCCESS" => Good)
           /\ suspect' \in BOOLEAN /\ overrun' \in BOOLEAN
           /\ status # "TIMEOUT" => doorbell = 0
           /\ SlotInv' /\ AnswerInv'
           /\ Ufs' \in [flag : Flags, gear : {"none", "real", "zero"}, LUEnable : [LunIds -> Flags]]
           /\ ~suspect' => \A l \in LunIds : Ufs'.LUEnable[l] = 1 => l \in dev.enabled
<1>1. /\ TypeInv /\ wait = "utp" /\ wait' = "none" /\ is' = {}
      /\ rsp' = Cleared("NopOut") /\ overrun' = (overrun /\ req' # NoReq)
      /\ UNCHANGED <<moved, requests, desc, doorbell, hw, uic, dev>>
      /\ suspect' = (suspect \/ (status = "SUCCESS" /\ ~Good))
      /\ Ufs' = (IF status = "SUCCESS" THEN UfsQueryGetData ELSE Ufs)
  BY DEF UtpDone, IInv
<1>2. /\ ~suspect' => ~suspect /\ (status = "SUCCESS" => Good)
      /\ suspect' \in BOOLEAN /\ overrun' \in BOOLEAN
  BY <1>1
<1>3. desc \in Commands
  BY <1>1 DEF IInv, PhaseInv
<1>4. status # "TIMEOUT" => doorbell = 0
  OBVIOUS
<1>5. SlotInv'
  BY <1>1 DEF IInv, SlotInv
<1>6. AnswerInv'
  BY <1>1, ClearedType DEF AnswerInv, Good
<1>7. /\ Ufs \in [flag : Flags, gear : {"none", "real", "zero"}, LUEnable : [LunIds -> Flags]]
      /\ rsp.value \in Flags /\ rsp.of \in CmdType
  BY <1>1 DEF TypeInv
<1>8. ~suspect => \A l \in LunIds : Ufs.LUEnable[l] = 1 => l \in dev.enabled
  BY DEF IInv, ScanInv
<1>9. CASE Ufs' = Ufs
  BY <1>1, <1>2, <1>3, <1>4, <1>5, <1>6, <1>7, <1>8, <1>9
<1>10. CASE Ufs' = [Ufs EXCEPT !.flag = rsp.value]
  <2>1. Ufs' \in [flag : Flags, gear : {"none", "real", "zero"}, LUEnable : [LunIds -> Flags]]
        /\ Ufs'.LUEnable = Ufs.LUEnable
    BY <1>7, <1>10
  <2> QED BY <1>1, <1>2, <1>3, <1>4, <1>5, <1>6, <1>8, <2>1
<1>11. CASE /\ desc.what = "unit" /\ rsp.of.what = "unit" /\ status = "SUCCESS"
            /\ Ufs' = [Ufs EXCEPT !.LUEnable[rsp.of.lun] = rsp.value]
  <2>1. rsp.of.lun \in LunIds /\ Ufs.LUEnable \in [LunIds -> Flags]
    BY <1>7 DEF CmdType
  <2> DEFINE f == [Ufs.LUEnable EXCEPT ![rsp.of.lun] = rsp.value]
  <2>2. f \in [LunIds -> Flags]
        /\ \A l \in LunIds : f[l] = IF l = rsp.of.lun THEN rsp.value ELSE Ufs.LUEnable[l]
    BY <1>7, <2>1
  <2>3. Ufs' = [Ufs EXCEPT !.LUEnable = f]
    BY <1>7, <1>11
  <2> HIDE DEF f
  <2>4. Ufs' \in [flag : Flags, gear : {"none", "real", "zero"}, LUEnable : [LunIds -> Flags]]
        /\ Ufs'.LUEnable = f
    BY <1>7, <2>2, <2>3
  <2>5. ASSUME ~suspect', NEW l \in LunIds, f[l] = 1 PROVE l \in dev.enabled
    <3>1. Good /\ ~suspect
      BY <1>2, <1>11, <2>5
    <3>2. rsp.of = desc /\ rsp.value = (IF desc.lun \in dev.enabled THEN 1 ELSE 0)
      BY <1>11, <3>1 DEF IInv, AnswerInv
    <3> QED BY <1>8, <2>2, <2>5, <3>1, <3>2
  <2> QED BY <1>1, <1>2, <1>3, <1>4, <1>5, <1>6, <2>4, <2>5
<1> QED BY <1>1, <1>9, <1>10, <1>11 DEF UfsQueryGetData

\* A command of the bring-up returns.
LEMMA BringUpReturns ==
    ASSUME IInv, NEW status, UtpDone(status), status = UfsUtpCheckResult => doorbell = 0,
           status \in {UfsUtpCheckResult, "TIMEOUT"}, BringUpGoesOn(status)
    PROVE  IInv'
<1>1. /\ TypeInv /\ wait = "utp" /\ wait' = "none" /\ is' = {} /\ rsp' = Cleared("NopOut")
      /\ UNCHANGED <<moved, requests, desc, doorbell, hw, uic, dev>>
      /\ ~suspect' => ~suspect
      /\ suspect' \in BOOLEAN /\ overrun' \in BOOLEAN
      /\ SlotInv' /\ AnswerInv'
      /\ Ufs' \in [flag : Flags, gear : {"none", "real", "zero"}, LUEnable : [LunIds -> Flags]]
      /\ ~suspect' => \A l \in LunIds : Ufs'.LUEnable[l] = 1 => l \in dev.enabled
  BY ReturnFacts
<1>2. /\ phase = "bringup" /\ req = NoReq /\ desc.what \notin Moves
      /\ UNCHANGED <<Disk, capacity, req, result>>
  BY DEF BringUpGoesOn, IInv, PhaseInv
<1>3. tries \in 1 .. QUERY_REQ_RETRIES + NOP_OUT_RETRY /\ polls \in 0 .. FlagRetry
  BY <1>1 DEF TypeInv
<1>4. PositionType' /\ (phase' = "scan" => sub' = "unit") /\ phase' # "ready"
  <2>1. CASE \E a : Advance(a) \/ Fail
    BY <1>1, <1>2, <2>1, AdvanceType DEF PositionType
  <2>2. CASE /\ PollsLeft /\ polls' = polls - 1 /\ tries' = QUERY_REQ_RETRIES
             /\ UNCHANGED <<phase, step, lun, sub>>
    <3>1. polls' \in 0 .. FlagRetry
      BY <1>3, <2>2, Constants DEF PollsLeft
    <3>2. tries' \in 1 .. QUERY_REQ_RETRIES + NOP_OUT_RETRY
      BY <2>2, Constants
    <3> QED BY <1>1, <1>2, <2>2, <3>1, <3>2 DEF PositionType, TypeInv
  <2>3. CASE tries > 1 /\ tries' = CountedTries /\ UNCHANGED <<phase, step, lun, sub, polls>>
    <3>1. tries' \in 1 .. QUERY_REQ_RETRIES + NOP_OUT_RETRY
      BY <1>3, <2>3, Constants DEF CountedTries
    <3> QED BY <1>1, <1>2, <2>3, <3>1 DEF PositionType, TypeInv
  <2> QED BY <2>1, <2>2, <2>3 DEF BringUpGoesOn
<1>5. TypeInv'
  BY <1>1, <1>2, <1>4, ClearedType DEF TypeInv, PositionType
<1>6. PhaseInv'
  BY <1>1, <1>2, <1>4 DEF PhaseInv
<1>7. ScanInv'
  BY <1>1, <1>2, <1>4 DEF IInv, ScanInv
<1>8. MoveInv' /\ BuffersReturned'
  BY <1>1, <1>2, <1>4 DEF MoveInv, BuffersReturned
<1> QED BY <1>1, <1>5, <1>6, <1>7, <1>8 DEF IInv

\* A command of the scan returns: a unit is installed with the block size that
\* a good answer has brought, and after its descriptor said that it is enabled.
LEMMA ScanReturns ==
    ASSUME IInv, NEW status, UtpDone(status), status = UfsUtpCheckResult => doorbell = 0,
           status \in {UfsUtpCheckResult, "TIMEOUT"}, ScanGoesOn(status)
    PROVE  IInv'
<1>1. /\ TypeInv /\ wait = "utp" /\ wait' = "none" /\ is' = {} /\ rsp' = Cleared("NopOut")
      /\ desc \in Commands
      /\ UNCHANGED <<moved, requests, desc, doorbell, hw, uic, dev>>
      /\ ~suspect' => ~suspect /\ (status = "SUCCESS" => Good)
      /\ suspect' \in BOOLEAN /\ overrun' \in BOOLEAN
      /\ SlotInv' /\ AnswerInv'
      /\ Ufs' \in [flag : Flags, gear : {"none", "real", "zero"}, LUEnable : [LunIds -> Flags]]
      /\ ~suspect' => \A l \in LunIds : Ufs'.LUEnable[l] = 1 => l \in dev.enabled
  BY ReturnFacts
<1>2. /\ phase = "scan" /\ req = NoReq /\ desc.what \notin Moves
      /\ UNCHANGED <<step, polls, req, result>>
  BY DEF ScanGoesOn, IInv, PhaseInv
<1>3. desc.what = sub
  BY <1>1, <1>2, CommandsType
<1>4. /\ tries \in 1 .. QUERY_REQ_RETRIES + NOP_OUT_RETRY /\ lun \in LunIds
      /\ Disk \in [LunIds -> {"none", "zero", "real"}] /\ capacity \in {"free", "zero", "real"}
  BY <1>1 DEF TypeInv
<1>5. QUERY_REQ_RETRIES \in 1 .. QUERY_REQ_RETRIES + NOP_OUT_RETRY
      /\ (lun + 1 # Luns => lun + 1 \in LunIds)
  BY <1>4, Constants
<1>6. ~suspect => /\ sub # "unit" => lun \in dev.enabled
                  /\ \A l \in LunIds : Disk[l] # "none" => Disk[l] = "real" /\ l \in dev.enabled
  BY <1>2 DEF IInv, ScanInv
<1>7. NextLun => PositionType' /\ sub' = "unit" /\ phase' \in {"scan", "ready"}
  BY <1>1, <1>2, <1>4, <1>5 DEF NextLun, PositionType, TypeInv, UnitCmds
<1>8. /\ PositionType' /\ phase' \in {"scan", "ready"}
      /\ ~suspect' /\ phase' = "scan" /\ sub' # "unit" => lun' \in dev.enabled
  <2>1. CASE sub = "unit" /\ tries > 1 /\ tries' = CountedTries /\ UNCHANGED <<phase, lun, sub>>
    <3>1. tries' \in 1 .. QUERY_REQ_RETRIES + NOP_OUT_RETRY
      BY <1>4, <2>1, Constants DEF CountedTries
    <3> QED BY <1>1, <1>2, <2>1, <3>1 DEF PositionType, TypeInv
  <2>2. CASE NextLun
    BY <1>7, <2>2
  <2>3. CASE Ufs'.LUEnable[lun] = 1 /\ sub' = "sense" /\ UNCHANGED <<phase, lun, tries>>
    BY <1>1, <1>2, <1>4, <2>3 DEF PositionType, TypeInv, UnitCmds
  <2>4. CASE sub = "sense" /\ sub' = "capacity" /\ UNCHANGED <<phase, lun, tries>>
    BY <1>1, <1>2, <1>6, <2>4 DEF PositionType, TypeInv, UnitCmds
  <2> QED BY <2>1, <2>2, <2>3, <2>4 DEF ScanGoesOn
<1>9. /\ capacity' \in {"free", "zero", "real"} /\ Disk' \in [LunIds -> {"none", "zero", "real"}]
      /\ ~suspect' => \A l \in LunIds : Disk'[l] # "none" => Disk'[l] = "real" /\ l \in dev.enabled
  <2>1. capacity' \in {"free", "zero", "real"}
    BY <1>4 DEF ScanGoesOn
  <2>2. CASE Disk' = Disk
    BY <1>1, <1>4, <1>6, <2>1, <2>2
  <2>3. CASE sub = "capacity" /\ CapacityRead(status) /\ Disk' = [Disk EXCEPT ![lun] = capacity]
    <3>1. Disk' \in [LunIds -> {"none", "zero", "real"}]
          /\ \A l \in LunIds : Disk'[l] = IF l = lun THEN capacity ELSE Disk[l]
      <4>1. Disk' = [Disk EXCEPT ![lun] = capacity]
        BY <2>3
      <4>2. Disk \in [LunIds -> {"none", "zero", "real"}] /\ capacity \in {"none", "zero", "real"}
        BY <1>1, <1>3, <1>4, <2>3 DEF IInv, PhaseInv
      <4>3. Disk' \in [LunIds -> {"none", "zero", "real"}]
        BY <4>1, <4>2
      <4>4. \A l \in LunIds : Disk'[l] = IF l = lun THEN capacity ELSE Disk[l]
        BY <4>1, <4>2
      <4> QED BY <4>3, <4>4
    <3>2. ~suspect' => capacity = "real" /\ lun \in dev.enabled
      BY <1>1, <1>3, <1>6, <2>3 DEF CapacityRead, IInv, AnswerInv
    <3> QED BY <1>1, <1>6, <2>1, <3>1, <3>2
  <2> QED BY <2>2, <2>3 DEF ScanGoesOn
<1>10. TypeInv'
  BY <1>1, <1>2, <1>8, <1>9, ClearedType DEF TypeInv, PositionType
<1>11. PhaseInv'
  BY <1>1, <1>2, <1>8 DEF PhaseInv
<1>12. ScanInv'
  BY <1>1, <1>8, <1>9 DEF ScanInv
<1>13. MoveInv' /\ BuffersReturned'
  BY <1>1, <1>2 DEF MoveInv, BuffersReturned, Moves
<1> QED BY <1>1, <1>10, <1>11, <1>12, <1>13 DEF IInv

\* A chunk returns: the call ends, or goes on with the next chunk.
LEMMA BlocksReturn ==
    ASSUME IInv, NEW status, UtpDone(status), status = UfsUtpCheckResult => doorbell = 0,
           status \in {UfsUtpCheckResult, "TIMEOUT"}, BlocksGoOn(status)
    PROVE  IInv'
<1> USE DEF progVars
<1>1. /\ TypeInv /\ wait = "utp" /\ wait' = "none" /\ is' = {} /\ rsp' = Cleared("NopOut")
      /\ overrun' = (overrun /\ req' # NoReq)
      /\ UNCHANGED <<moved, requests, desc, doorbell, hw, uic, dev>>
      /\ ~suspect' => ~suspect /\ (status = "SUCCESS" => Good)
      /\ suspect' \in BOOLEAN /\ overrun' \in BOOLEAN
      /\ status # "TIMEOUT" => doorbell = 0
      /\ SlotInv' /\ AnswerInv'
      /\ Ufs' \in [flag : Flags, gear : {"none", "real", "zero"}, LUEnable : [LunIds -> Flags]]
      /\ ~suspect' => \A l \in LunIds : Ufs'.LUEnable[l] = 1 => l \in dev.enabled
  BY ReturnFacts
<1>2. /\ phase = "ready" /\ UNCHANGED <<phase, step, lun, sub, tries, polls, Disk, capacity>>
      /\ \/ req' = NoReq /\ result' = status
         \/ /\ status = "SUCCESS" /\ req.left # ChunkBlks /\ result' = result
            /\ req' = [req EXCEPT !.from = NextLba, !.left = @ - ChunkBlks]
  BY DEF BlocksGoOn, StopsOn
<1>3. req # NoReq /\ req.dir \in Moves /\ req.left > 0
  BY <1>1, <1>2 DEF IInv, PhaseInv
<1>4. ScanInv'
  BY <1>1, <1>2 DEF IInv, ScanInv
<1>5. CASE req' = NoReq /\ result' = status
  <2>1. TypeInv'
    <3>1. NoReq \in [dir : {"none"} \union Moves, lun : LunIds, at : Nat,
                     from : 0 .. LbaSpace - 1, count : Nat, left : Nat]
          /\ NoReq.left <= NoReq.count
      BY Constants DEF NoReq
    <3> QED BY <1>1, <1>2, <1>5, <3>1, ClearedType DEF TypeInv
  <2>2. PhaseInv' /\ MoveInv'
    BY <1>1, <1>2, <1>5 DEF PhaseInv, MoveInv
  <2>3. BuffersReturned'
    <3>1. status # "TIMEOUT" => ~SlotInUse'
      BY <1>1 DEF IInv, SlotInv, SlotInUse
    <3> QED BY <1>5, <3>1 DEF BuffersReturned
  <2> QED BY <1>1, <1>4, <2>1, <2>2, <2>3 DEF IInv
<1>6. CASE /\ status = "SUCCESS" /\ req.left # ChunkBlks /\ result' = result
           /\ req' = [req EXCEPT !.from = NextLba, !.left = @ - ChunkBlks]
  <2>1. /\ req.at \in Nat /\ req.count \in Nat /\ req.left \in Nat /\ req.from \in Nat
        /\ req.left <= req.count /\ Past \in Nat
        /\ ChunkBlks \in Nat /\ ChunkBlks < req.left
    BY <1>1, <1>6, ReqType
  <2>2. NextLba \in 0 .. LbaSpace - 1 /\ req.left - ChunkBlks \in Nat /\ req.left - ChunkBlks > 0
        /\ (req.from + ChunkBlks < LbaSpace => NextLba = req.from + ChunkBlks)
    BY <2>1, Modulo DEF NextLba
  <2>3. /\ req' \in [dir : {"none"} \union Moves, lun : LunIds, at : Nat,
                     from : 0 .. LbaSpace - 1, count : Nat, left : Nat]
        /\ req'.dir = req.dir /\ req'.lun = req.lun /\ req'.at = req.at
        /\ req'.count = req.count /\ req'.from = NextLba /\ req'.left = req.left - ChunkBlks
    <3> DEFINE x == NextLba
               y == req.left - ChunkBlks
    <3>1. req' = [req EXCEPT !.from = x, !.left = y]
      BY <1>1, <1>6 DEF TypeInv
    <3>2. x \in 0 .. LbaSpace - 1 /\ y \in Nat
      BY <2>2
    <3> HIDE DEF x, y
    <3>3. req \in [dir : {"none"} \union Moves, lun : LunIds, at : Nat,
                   from : 0 .. LbaSpace - 1, count : Nat, left : Nat]
      BY <1>1 DEF TypeInv
    <3>4. /\ req' \in [dir : {"none"} \union Moves, lun : LunIds, at : Nat,
                       from : 0 .. LbaSpace - 1, count : Nat, left : Nat]
          /\ req'.dir = req.dir /\ req'.lun = req.lun /\ req'.at = req.at
          /\ req'.count = req.count /\ req'.from = x /\ req'.left = y
      BY <3>1, <3>2, <3>3
    <3> QED BY <3>4 DEF x, y
  <2>4. req' # NoReq
    BY <2>2, <2>3 DEF NoReq
  <2>5. TypeInv'
    <3>1. req'.left <= req'.count
      BY <2>1, <2>3
    <3> QED BY <1>1, <1>2, <2>3, <3>1, ClearedType DEF TypeInv
  <2>6. PhaseInv'
    BY <1>1, <1>2, <1>3, <2>2, <2>3, <2>4 DEF PhaseInv
  <2>7. MoveInv'
    <3> SUFFICES ASSUME req'.at + req'.count <= LbaSpace, ~suspect', ~overrun'
                 PROVE  req'.from = req'.at + Past' /\ Moved(Past)'
      BY <1>1 DEF MoveInv
    <3>1. ~suspect /\ ~overrun /\ Good /\ doorbell = 0 /\ req.at + req.count <= LbaSpace
      BY <1>1, <1>6, <2>3, <2>4
    <3>2. req.from = req.at + Past /\ Moved(Past + ChunkBlks)
      BY <1>1, <1>3, <3>1 DEF IInv, MoveInv
    <3>3. Past' = Past + ChunkBlks
      BY <2>1, <2>3 DEF Past
    <3>4. req.from + ChunkBlks < LbaSpace
      BY <2>1, <3>1, <3>2, Constants DEF Past
    <3>5. Moved(Past)'
      BY <1>1, <2>3, <3>2, <3>3 DEF Moved
    <3> QED BY <2>1, <2>2, <2>3, <3>2, <3>3, <3>4, <3>5
  <2>8. BuffersReturned'
    BY <2>4 DEF BuffersReturned
  <2> QED BY <1>1, <1>4, <2>5, <2>6, <2>7, <2>8 DEF IInv
<1> QED BY <1>2, <1>5, <1>6

\* One of the three Process functions returns.
LEMMA UtpReturnsKeeps == ASSUME IInv, UtpReturns PROVE IInv'
<1>1. UfsUtpCheckResult # "TIMEOUT"
  BY DEF UfsUtpCheckResult
<1>2. PICK status : /\ UtpDone(status) /\ status \in {UfsUtpCheckResult, "TIMEOUT"}
                    /\ status = UfsUtpCheckResult => doorbell = 0
  BY <1>1 DEF UtpReturns, UfsHandleUtpInt
<1>3. BringUpGoesOn(status) \/ ScanGoesOn(status) \/ BlocksGoOn(status)
  BY <1>2 DEF UtpDone
<1> QED BY <1>2, <1>3, BringUpReturns, ScanReturns, BlocksReturn

-----------------------------------------------------------------------------
(* The theorems.                                                            *)

\* Every step keeps the inductive invariant.
LEMMA NextInv == ASSUME IInv, [Next]_vars PROVE IInv'
<1>1. CASE Driver
  BY <1>1, PreSetupKeeps, SetupKeeps, UicSendKeeps, UicReturnsKeeps, PrepareKeeps, SendKeeps,
     UtpReturnsKeeps, OutOfMemoryKeeps DEF Driver
<1>2. CASE Controller
  BY <1>2, FetchKeeps, DoneKeeps, ControllerKeeps DEF Controller
<1>3. CASE Client
  BY <1>3, BlocksKeeps DEF Client, Moves
<1>4. CASE UNCHANGED vars
  <2>1. ControllerFrame
    BY <1>4 DEF vars, progVars, ioVars, memVars, hwVars, histVars, ControllerFrame, IInv, TypeInv
  <2> QED BY <2>1, ControllerFrameKeeps
<1> QED BY <1>1, <1>2, <1>3, <1>4 DEF Next

\* The inductive invariant holds throughout.
LEMMA Invariance == Spec => []IInv
BY InitInv, NextInv, PTL DEF Spec

\* The state is well-formed; no retry or poll counter of the bring-up runs below
\* its loop, and what is left of a call never underflows.
THEOREM TypeCorrect == Spec => []TypeOK
<1>1. IInv => TypeOK
  <2> SUFFICES ASSUME IInv PROVE TypeOK
    OBVIOUS
  <2>1. TypeInv
    BY DEF IInv
  <2>2. req.left \in 0 .. req.count /\ req.from \in 0 .. LbaSpace - 1
    BY <2>1, ReqType DEF TypeInv
  <2>3. hw.mine \in BOOLEAN /\ rsp.mine \in BOOLEAN
    BY <2>1 DEF TypeInv
  <2> QED BY <2>1, <2>2, <2>3 DEF TypeInv, TypeOK, UnitCmds, Flags
<1> QED BY <1>1, Invariance, PTL

\* UfsUtpWaitResponse accepts the answer of another command only if that one
\* still had the slot when the descriptor was rewritten.
THEOREM AnswersAreMine == Spec => []AnswerIsMine
<1>1. IInv => AnswerIsMine
  BY DEF IInv, SlotInv, AnswerIsMine, UfsHandleUtpInt
<1> QED BY <1>1, Invariance, PTL

\* A Block I/O instance stands for a unit that the device has enabled, with the
\* block size the device reports, unless a bad answer was believed.
THEOREM InstalledAreReal == Spec => []InstalledIsReal
<1>1. IInv => InstalledIsReal
  BY DEF IInv, ScanInv, InstalledIsReal
<1> QED BY <1>1, Invariance, PTL

\* UfsRead and UfsWrite move the blocks of a call in order, each once and at its
\* place, for any length of the call and of a chunk.
THEOREM BlocksInOrder == Spec => []MovedInOrder
<1>1. IInv => MovedInOrder
  <2> SUFFICES ASSUME IInv, req # NoReq, req.at + req.count <= LbaSpace, ~suspect, ~overrun
               PROVE  /\ \E n \in {Past, Past + ChunkBlks} : moved = SubSeq(Asked(req), 1, n)
                      /\ (wait = "none" \/ wait = "written") => Len(moved) = Past
    BY DEF MovedInOrder, Past
  <2>1. TypeInv
    BY DEF IInv
  <2>2. /\ req.at \in Nat /\ req.count \in Nat /\ Past \in Nat /\ ChunkBlks \in Nat
        /\ Past + ChunkBlks <= req.count /\ req.lun \in LunIds /\ req.dir \in Moves
    <3>1. req.dir \in Moves
      BY DEF IInv, PhaseInv
    <3> QED BY <2>1, <3>1, ReqType DEF Past
  <2>3. ASSUME NEW n \in 0 .. req.count, Moved(n)
        PROVE  moved = SubSeq(Asked(req), 1, n)
    <3>1. \A k \in 1 .. req.count :
             /\ Asked(req)[k] = <<req.dir, req.lun, req.at + k - 1, k - 1>>
             /\ <<req.dir, req.lun, req.at + k - 1, k - 1>> \in Placed
      <4>1. \A k \in 1 .. req.count : req.at + k - 1 \in Nat /\ k - 1 \in Nat
        BY <2>2
      <4> QED BY <2>2, <4>1 DEF Asked, Placed
    <3> DEFINE s == SubSeq(Asked(req), 1, n)
    <3>2. \A k \in 1 .. n : k \in 1 .. req.count /\ Asked(req)[k] \in Placed
      <4>1. n \in Nat /\ n <= req.count
        BY <2>2
      <4>2. \A k \in 1 .. n : k \in 1 .. req.count
        BY <2>2, <4>1
      <4> QED BY <3>1, <4>2
    <3>3. s \in Seq(Placed) /\ Len(s) = n /\ \A k \in 1 .. n : s[k] = Asked(req)[k]
      <4>1. n \in Int /\ 1 \in Int /\ n \in Nat
        BY <2>2
      <4>2. /\ s \in Seq(Placed)
            /\ Len(s) = (IF 1 <= n THEN n - 1 + 1 ELSE 0)
            /\ \A k \in 1 .. n - 1 + 1 : s[k] = Asked(req)[1 + k - 1]
        BY <3>2, <4>1, SubSeqProperties
      <4>3. Len(s) = n /\ n - 1 + 1 = n /\ \A k \in 1 .. n : 1 + k - 1 = k
        BY <4>1, <4>2
      <4> QED BY <4>2, <4>3
    <3> HIDE DEF s
    <3>4. moved \in Seq(Placed) /\ Len(moved) = n /\ \A k \in 1 .. n : moved[k] = s[k]
      <4>1. moved \in Seq(Placed)
        BY <2>1 DEF TypeInv
      <4>2. /\ Len(moved) = n
            /\ \A k \in 1 .. n : moved[k] = <<req.dir, req.lun, req.at + k - 1, k - 1>>
        BY <2>3 DEF Moved
      <4>3. \A k \in 1 .. n : s[k] = <<req.dir, req.lun, req.at + k - 1, k - 1>>
        BY <3>1, <3>2, <3>3
      <4> QED BY <4>1, <4>2, <4>3
    <3>5. moved = s
      BY <3>3, <3>4, SeqEqual
    <3> QED BY <3>5 DEF s
  <2>4. Past \in 0 .. req.count /\ Past + ChunkBlks \in 0 .. req.count
    BY <2>2
  <2>5. IF wait = "utp" /\ doorbell = 0 /\ Good THEN Moved(Past + ChunkBlks) ELSE Moved(Past)
    BY DEF IInv, MoveInv
  <2>6. (wait = "none" \/ wait = "written") => Len(moved) = Past
    BY <2>5 DEF Moved
  <2> QED BY <2>3, <2>4, <2>5, <2>6
<1> QED BY <1>1, Invariance, PTL

\* Between two calls the controller has the slot of a read or a write only if
\* the caller was told EFI_TIMEOUT.
THEOREM BuffersAreReturned == Spec => []BuffersReturned
<1>1. IInv => BuffersReturned
  BY DEF IInv
<1> QED BY <1>1, Invariance, PTL
=============================================================================
